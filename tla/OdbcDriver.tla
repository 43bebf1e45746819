----------------------------- MODULE OdbcDriver -----------------------------
(***************************************************************************)
(* The ODBC driver of LuaSQL (ls_odbc.c) in one Lua state.  Between a      *)
(* connection and a cursor there is a statement: prepared by Lua code, or  *)
(* hidden, made by the connection's execute and closed with its cursor.    *)
(* Each object has a lock count and is in the registry while it is locked. *)
(* The finalizers are the close functions.  Freeing a statement handle is  *)
(* taken to succeed.                                                       *)
(***************************************************************************)
EXTENDS Integers, FiniteSets

CONSTANTS Conns, Stmts, Curs, Env, NULL

VARIABLES
  env,      \* env_data: NULL or [closed, lock]
  conn,     \* conn_data: NULL or [closed, lock]
  stmt,     \* stmt_data: NULL or [closed, lock, hidden, bound, conn]
  cur,      \* cur_data: NULL or [closed, stmt]
  refs,     \* the objects that Lua code can reach
  registry, \* the objects that are registered
  handles,  \* the ODBC handles that are allocated, by the object's name
  misused,  \* history: what undefined behaviour has happened
  spoilt    \* history: what went wrong that the driver does not make up for

(* The structs; the environment and the connections are locked alike.      *)
(* What the handle of a prepared statement is bound to: no buffer, the     *)
(* buffers of its params, or (some of them) buffers that were freed.       *)
LockStructs == [closed : BOOLEAN, lock : Int]
Bindings == {"none", "live", "freed"}
StmtStructs ==
  [closed : BOOLEAN, lock : Int, hidden : BOOLEAN, bound : Bindings, conn : Conns]
CurStructs == [closed : BOOLEAN, stmt : Stmts]

vars == <<env, conn, stmt, cur, refs, registry, handles, misused, spoilt>>

Init ==
  /\ env = NULL
  /\ conn = [c \in Conns |-> NULL]
  /\ stmt = [s \in Stmts |-> NULL]
  /\ cur = [k \in Curs |-> NULL]
  /\ refs = {} /\ registry = {} /\ handles = {}
  /\ misused = {} /\ spoilt = {}

(* lock_obj and unlock_obj: an object and its lock.                        *)
Lock(object) == [object EXCEPT !.lock = @ + 1]
Unlock(object) == [object EXCEPT !.lock = @ - 1]
Unregister(object, x) == IF object.lock = 1 THEN {x} ELSE {}

CreateEnvironment ==
  /\ env = NULL /\ Env \notin handles
  /\ env' = [closed |-> FALSE, lock |-> 0]
  /\ refs' = refs \union {Env}
  /\ handles' = handles \union {Env}
  /\ UNCHANGED <<conn, stmt, cur, registry, misused, spoilt>>

(* env_connect.  When the new connection's auto-commit cannot be set, it   *)
(* gets no finalizer and stays open.                                       *)
EnvConnect(c) ==
  /\ Env \in refs /\ ~env.closed
  /\ conn[c] = NULL /\ c \notin handles
  /\ handles' = handles \union {c}
  /\ \/ /\ conn' = [conn EXCEPT ![c] = [closed |-> FALSE, lock |-> 0]]
        /\ refs' = refs \union {c}
        /\ env' = Lock(env)
        /\ registry' = registry \union {Env}
        /\ UNCHANGED spoilt
     \/ /\ spoilt' = spoilt \union {"attribute"}
        /\ UNCHANGED <<env, conn, refs, registry>>
  /\ UNCHANGED <<stmt, cur, misused>>

Usable(c) == c \in refs /\ ~conn[c].closed
CanMake(s) == stmt[s] = NULL /\ s \notin handles /\ \A k \in Curs : cur[k] # NULL => cur[k].stmt # s
Prepared(c, hidden, lock) ==
  [closed |-> FALSE, lock |-> lock, hidden |-> hidden, bound |-> "none", conn |-> c]

(* conn_prepare                                                            *)
ConnPrepare(c, s) ==
  /\ Usable(c) /\ CanMake(s)
  /\ stmt' = [stmt EXCEPT ![s] = Prepared(c, FALSE, 0)]
  /\ refs' = refs \union {s}
  /\ handles' = handles \union {s}
  /\ conn' = [conn EXCEPT ![c] = Lock(@)]
  /\ registry' = registry \union {c}
  /\ UNCHANGED <<env, cur, misused, spoilt>>

(* create_cursor                                                           *)
Created(k, s) == /\ cur[k] = NULL
                 /\ cur' = [cur EXCEPT ![k] = [closed |-> FALSE, stmt |-> s]]

(* conn_execute.  Parameters that cannot be bound leave the statement to   *)
(* the collector.  A cursor whose columns cannot be described is left to   *)
(* it too, but its statement is closed at once.  An error or a count       *)
(* changes nothing in the end.                                             *)
ConnExecute(c, s) ==
  /\ Usable(c) /\ CanMake(s)
  /\ \/ /\ stmt' = [stmt EXCEPT ![s] = Prepared(c, TRUE, 0)]
        /\ registry' = registry \union {c}
        /\ conn' = [conn EXCEPT ![c] = Lock(@)]
        /\ handles' = handles \union {s}
        /\ UNCHANGED <<cur, refs, spoilt>>
     \/ \E k \in Curs :
          /\ Created(k, s)
          /\ stmt' = [stmt EXCEPT ![s] = Prepared(c, TRUE, 1)]
          /\ registry' = registry \union {c, s}
          /\ refs' = refs \union {k}
          /\ conn' = [conn EXCEPT ![c] = Lock(@)]
          /\ handles' = handles \union {s}
          /\ UNCHANGED spoilt
     \/ \E k \in Curs :
          /\ Created(k, s)
          /\ stmt' = [stmt EXCEPT ![s] = [Prepared(c, TRUE, 1) EXCEPT !.closed = TRUE]]
          /\ registry' = registry \union {s}
          /\ spoilt' = spoilt \union {"columns"}
          /\ UNCHANGED <<conn, refs, handles>>
  /\ UNCHANGED <<env, misused>>

(* raw_readparams_* up to a parameter that cannot be bound: all buffers of *)
(* the time before are freed, and the parameters from there on are still   *)
(* bound to theirs, if they were not nil.                                  *)
PartlyBound(s) == IF stmt[s].bound = "none" THEN {"none", "live"} ELSE Bindings

(* stmt_execute, which stops when a parameter cannot be bound.             *)
BindFails(s) ==
  /\ s \in refs /\ ~stmt[s].closed
  /\ \E bound \in PartlyBound(s) : stmt' = [stmt EXCEPT ![s].bound = bound]
  /\ spoilt' = IF stmt[s].bound = "none" THEN spoilt ELSE spoilt \union {"rebound"}
  /\ UNCHANGED <<env, conn, cur, refs, registry, handles, misused>>

(* SQLExecute reads the buffers, unless the statement has a cursor open.   *)
ReadParams(s, bound) ==
  IF bound = "freed" /\ stmt[s].lock = 0 THEN {"freed parameter"} ELSE {}

(* stmt_execute with its parameters bound, or without any: an error (while *)
(* a cursor is open), a count, or a cursor.  Given parameters, it          *)
(* registers the last of them in the place of the statement.               *)
StmtExecute(s, params) ==
  /\ s \in refs /\ ~stmt[s].closed
  /\ \E bound \in IF params THEN {"none", "live"} ELSE {stmt[s].bound} :
       /\ misused' = misused \union ReadParams(s, bound)
       /\ \/ /\ stmt' = [stmt EXCEPT ![s].bound = bound]
             /\ UNCHANGED <<cur, refs, registry, spoilt>>
          \/ /\ stmt[s].lock = 0
             /\ \E k \in Curs, described \in BOOLEAN :
                  /\ Created(k, s)
                  /\ refs' = IF described THEN refs \union {k} ELSE refs
             /\ stmt' = [stmt EXCEPT ![s] = [Lock(@) EXCEPT !.bound = bound]]
             /\ IF params THEN spoilt' = spoilt \union {"parameter"} /\ UNCHANGED registry
                ELSE registry' = registry \union {s} /\ UNCHANGED spoilt
  /\ UNCHANGED <<env, conn, handles>>

(* stmt_shut, of a statement without cursors; its bindings go with its     *)
(* handle.                                                                 *)
Shutdown(object) == [object EXCEPT !.closed = TRUE, !.bound = "none"]

StmtShut(s, alsoUnregistered) ==
  LET c == stmt[s].conn
  IN /\ conn' = [conn EXCEPT ![c] = Unlock(@)]
     /\ registry' = registry \ (Unregister(conn[c], c) \union alsoUnregistered)
     /\ handles' = handles \ {s}

(* stmt_close, an error while there are cursors.                           *)
StmtClose(s) ==
  /\ s \in refs /\ ~stmt[s].closed /\ stmt[s].lock = 0
  /\ StmtShut(s, {})
  /\ stmt' = [stmt EXCEPT ![s] = Shutdown(@)]
  /\ UNCHANGED <<env, cur, refs, misused, spoilt>>

Collectable(x) == x \notin refs /\ x \notin registry

(* As the finalizer, the error leaves everything but the userdata.         *)
StmtGc(s) ==
  /\ stmt[s] # NULL /\ Collectable(s)
  /\ stmt' = [stmt EXCEPT ![s] = NULL]
  /\ IF stmt[s].closed \/ stmt[s].lock > 0 THEN UNCHANGED <<conn, registry, handles>>
     ELSE StmtShut(s, {})
  /\ UNCHANGED <<env, cur, refs, misused, spoilt>>

(* cur_shut.  A cursor that ODBC does not close stays locked in its        *)
(* statement for good; a hidden statement goes with its cursor.            *)
CurShut(k) ==
  LET s == cur[k].stmt
  IN \/ /\ spoilt' = spoilt \union {"cursor"}
        /\ UNCHANGED <<conn, stmt, registry, handles>>
     \/ /\ IF stmt[s].hidden /\ stmt[s].lock = 1
           THEN /\ StmtShut(s, {s})
                /\ stmt' = [stmt EXCEPT ![s] = Shutdown(Unlock(@))]
           ELSE /\ stmt' = [stmt EXCEPT ![s] = Unlock(@)]
                /\ registry' = registry \ Unregister(stmt[s], s)
                /\ UNCHANGED <<conn, handles>>
        /\ UNCHANGED spoilt

(* Every use of a cursor goes through its statement.                       *)
Touch(k) ==
  CASE stmt[cur[k].stmt] = NULL -> {"freed statement"}
    [] cur[k].stmt \notin handles -> {"freed handle"}
    [] OTHER -> {}

Shut(k) ==
  /\ misused' = misused \union Touch(k)
  /\ IF Touch(k) = {} THEN CurShut(k) ELSE UNCHANGED <<conn, stmt, registry, handles, spoilt>>
  /\ UNCHANGED <<env, refs>>

CursorUsable(k) == k \in refs /\ ~cur[k].closed

(* cur_close; cur_fetch at the end of the rows does the same.              *)
CurClose(k) ==
  /\ CursorUsable(k)
  /\ cur' = [cur EXCEPT ![k].closed = TRUE]
  /\ Shut(k)

(* cur_fetch of a row.                                                     *)
CurFetch(k) ==
  /\ CursorUsable(k)
  /\ misused' = misused \union Touch(k)
  /\ UNCHANGED <<env, conn, stmt, cur, refs, registry, handles, spoilt>>

CurGc(k) ==
  /\ cur[k] # NULL /\ k \notin refs
  /\ cur' = [cur EXCEPT ![k] = NULL]
  /\ IF cur[k].closed
     THEN UNCHANGED <<env, conn, stmt, refs, registry, handles, misused, spoilt>>
     ELSE Shut(k)

(* conn_close, an error while there are statements.  A connection that     *)
(* ODBC does not end (in a transaction, say) is closed all the same.       *)
ConnShut(c) ==
  /\ env' = Unlock(env)
  /\ registry' = registry \ Unregister(env, Env)
  /\ \/ handles' = handles \ {c} /\ UNCHANGED spoilt
     \/ spoilt' = spoilt \union {"connection"} /\ UNCHANGED handles

ConnClose(c) ==
  /\ Usable(c) /\ conn[c].lock = 0
  /\ conn' = [conn EXCEPT ![c].closed = TRUE]
  /\ ConnShut(c)
  /\ UNCHANGED <<stmt, cur, refs, misused>>

ConnGc(c) ==
  /\ conn[c] # NULL /\ Collectable(c)
  /\ conn' = [conn EXCEPT ![c] = NULL]
  /\ IF conn[c].closed THEN UNCHANGED <<env, registry, handles, spoilt>> ELSE ConnShut(c)
  /\ UNCHANGED <<stmt, cur, refs, misused>>

(* env_close, an error while there are connections; ODBC refuses while it  *)
(* has any.                                                                *)
EnvShut == IF handles \intersect Conns = {} THEN handles \ {Env} ELSE handles

EnvClose ==
  /\ Env \in refs /\ ~env.closed /\ env.lock = 0
  /\ env' = [env EXCEPT !.closed = TRUE]
  /\ handles' = EnvShut
  /\ UNCHANGED <<conn, stmt, cur, refs, registry, misused, spoilt>>

EnvGc ==
  /\ env # NULL /\ Collectable(Env)
  /\ env' = NULL
  /\ handles' = IF env.closed THEN handles ELSE EnvShut
  /\ UNCHANGED <<conn, stmt, cur, refs, registry, misused, spoilt>>

(* Lua code lets go of an object.                                          *)
Drop(x) ==
  /\ x \in refs
  /\ refs' = refs \ {x}
  /\ UNCHANGED <<env, conn, stmt, cur, registry, handles, misused, spoilt>>

(* After a misuse nothing more is known, and the model stops.              *)
Next == misused = {} /\
  \/ CreateEnvironment \/ EnvClose \/ EnvGc
  \/ \E c \in Conns : EnvConnect(c) \/ ConnClose(c) \/ ConnGc(c)
  \/ \E c \in Conns, s \in Stmts : ConnPrepare(c, s) \/ ConnExecute(c, s)
  \/ \E s \in Stmts :
       \/ \E params \in BOOLEAN : StmtExecute(s, params)
       \/ BindFails(s) \/ StmtClose(s) \/ StmtGc(s)
  \/ \E k \in Curs : CurFetch(k) \/ CurClose(k) \/ CurGc(k)
  \/ \E x \in refs : Drop(x)
-----------------------------------------------------------------------------
IsOpen(x) == x # NULL /\ ~x.closed

(* What goes wrong and disturbs the locks themselves: a parameter that is  *)
(* registered in the place of its statement, and a statement that is       *)
(* closed under a cursor whose columns could not be described.             *)
Astray == spoilt \intersect {"parameter", "columns"} # {}

(* There are never fewer locks than open objects, and what is registered   *)
(* is what is locked, so that none is freed under one that needs it.       *)
(* Until a clean-up call fails as well, the locks are exact and the        *)
(* handles are those of the open objects.                                  *)
OdbcOwns ==
  /\ ~Astray =>
       /\ env # NULL => env.lock >= Cardinality({c \in Conns : IsOpen(conn[c])})
       /\ \A c \in Conns : conn[c] # NULL =>
            conn[c].lock >= Cardinality({s \in Stmts : IsOpen(stmt[s]) /\ stmt[s].conn = c})
       /\ \A s \in Stmts : stmt[s] # NULL =>
            stmt[s].lock >= Cardinality({k \in Curs : IsOpen(cur[k]) /\ cur[k].stmt = s})
       /\ registry = {c \in Conns : conn[c] # NULL /\ conn[c].lock > 0}
            \union {s \in Stmts : stmt[s] # NULL /\ stmt[s].lock > 0}
            \union {e \in {Env} : env # NULL /\ env.lock > 0}
  /\ spoilt \subseteq {"rebound"} =>
       /\ env # NULL => env.lock = Cardinality({c \in Conns : IsOpen(conn[c])})
       /\ \A c \in Conns : conn[c] # NULL =>
            conn[c].lock = Cardinality({s \in Stmts : IsOpen(stmt[s]) /\ stmt[s].conn = c})
       /\ \A s \in Stmts : stmt[s] # NULL =>
            stmt[s].lock = Cardinality({k \in Curs : IsOpen(cur[k]) /\ cur[k].stmt = s})
       /\ handles = {c \in Conns : IsOpen(conn[c])} \union {s \in Stmts : IsOpen(stmt[s])}
            \union {e \in {Env} : IsOpen(env)}

(* Unless the locks are disturbed, no cursor is used without its           *)
(* statement, and the only memory that is read after it was freed is that  *)
(* of the parameters of a statement, one of whose executes failed to bind  *)
(* a parameter where earlier ones were bound.                              *)
OdbcIsSafe ==
  ~Astray /\ misused # {} => misused = {"freed parameter"} /\ "rebound" \in spoilt
=============================================================================
