--------------------------- MODULE FirebirdDriver ---------------------------
(***************************************************************************)
(* The Firebird driver of LuaSQL (ls_firebird.c) in one Lua state.  Here   *)
(* an object keeps its owner alive by a lock count: the owner is in the    *)
(* registry from the first of its objects to the last.                     *)
(***************************************************************************)
EXTENDS Integers, FiniteSets

CONSTANTS Conns, Curs, Env, NULL

VARIABLES
  env,      \* env_data: NULL or [closed, lock]
  conn,     \* conn_data: NULL or [closed, lock]
  cur,      \* cur_data: NULL or [closed, conn]
  refs,     \* the objects that Lua code can reach
  registry, \* lua_registerobj: <<key, what it holds>>, the same object
  dbs,      \* the databases that are attached
  sqldas,   \* the cursors whose column buffers are allocated
  stmts,    \* the statement handles: <<connection, cursor>>, or a connection and
            \* "left" for those that nobody knows any more
  misused,  \* history: what undefined behaviour has happened
  spoilt    \* history: what went wrong that the driver does not make up for

(* The structs; the environment and the connections are locked alike.      *)
LockStructs == [closed : BOOLEAN, lock : Int]
CurStructs == [closed : BOOLEAN, conn : Conns]

vars == <<env, conn, cur, refs, registry, dbs, sqldas, stmts, misused, spoilt>>

Init ==
  /\ env = NULL
  /\ conn = [c \in Conns |-> NULL]
  /\ cur = [k \in Curs |-> NULL]
  /\ refs = {} /\ registry = {}
  /\ dbs = {} /\ sqldas = {} /\ stmts = {}
  /\ misused = {} /\ spoilt = {}

RegisterObj(x) == registry \union {<<x, x>>}
UnregisterObj(x) == registry \ {<<x, x>>}

CreateEnvironment ==
  /\ env = NULL
  /\ env' = [closed |-> FALSE, lock |-> 0]
  /\ refs' = refs \union {Env}
  /\ UNCHANGED <<conn, cur, registry, dbs, sqldas, stmts, misused, spoilt>>

(* env_close, refused while connections are open.                          *)
EnvClose ==
  /\ Env \in refs /\ env.lock = 0
  /\ env' = [env EXCEPT !.closed = TRUE]
  /\ registry' = UnregisterObj(Env)
  /\ UNCHANGED <<conn, cur, refs, dbs, sqldas, stmts, misused, spoilt>>

(* env_connect.  When the transaction cannot be started, the database      *)
(* stays attached.                                                         *)
EnvConnect(c) ==
  /\ Env \in refs /\ ~env.closed
  /\ conn[c] = NULL /\ c \notin dbs
  /\ dbs' = dbs \union {c}
  /\ \/ /\ conn' = [conn EXCEPT ![c] = [closed |-> FALSE, lock |-> 0]]
        /\ registry' = RegisterObj(Env)
        /\ env' = [env EXCEPT !.lock = @ + 1]
        /\ refs' = refs \union {c}
        /\ UNCHANGED spoilt
     \/ /\ spoilt' = spoilt \union {"transaction"}
        /\ UNCHANGED <<env, conn, refs, registry>>
  /\ UNCHANGED <<cur, sqldas, stmts, misused>>

Usable(c) == c \in refs /\ ~conn[c].closed

(* The driver writes the status of every call into the environment.        *)
Touch(c) ==
  (IF conn[c] = NULL THEN {"freed connection"} ELSE {})
    \union (IF env = NULL THEN {"freed environment"} ELSE {})

(* Nobody has the statement handle any more, but its database keeps it.    *)
Left(c, handles) == handles \union {<<c, "left">>}

(* The cursor of a statement that was executed and given a name.           *)
CreateCursor(c, k) ==
  /\ cur[k] = NULL /\ k \notin sqldas
  /\ cur' = [cur EXCEPT ![k] = [closed |-> FALSE, conn |-> c]]
  /\ sqldas' = sqldas \union {k}
  /\ stmts' = stmts \union {<<c, k>>}
  /\ refs' = refs \union {k}
  /\ registry' = RegisterObj(c)
  /\ conn' = [conn EXCEPT ![c].lock = @ + 1]

(* conn_execute: a cursor; or a count, or no handle to begin with; or an   *)
(* error after the handle was allocated, when only the buffers are freed.  *)
(* When the error is that the cursor cannot be named, its userdata is left *)
(* to the collector as well, not yet filled in.                            *)
ConnExecute(c) ==
  /\ Usable(c)
  /\ misused' = misused \union Touch(c)
  /\ \/ \E k \in Curs : CreateCursor(c, k) /\ UNCHANGED spoilt
     \/ /\ stmts' \in {stmts, Left(c, stmts)}
        /\ UNCHANGED <<conn, cur, refs, registry, sqldas, spoilt>>
     \/ /\ stmts' = Left(c, stmts)
        /\ spoilt' = spoilt \union {"unnamed"}
        /\ UNCHANGED <<conn, cur, refs, registry, sqldas>>
  /\ UNCHANGED <<env, dbs>>

(* cur_gc of a userdata that was not filled in goes by what the memory     *)
(* held before.                                                            *)
UnnamedGc ==
  /\ "unnamed" \in spoilt
  /\ misused' \in {misused, misused \union {"unfilled cursor"}}
  /\ UNCHANGED <<env, conn, cur, refs, registry, dbs, sqldas, stmts, spoilt>>

(* conn_commit, conn_rollback                                              *)
ConnCall(c) ==
  /\ Usable(c)
  /\ misused' = misused \union Touch(c)
  /\ UNCHANGED <<env, conn, cur, refs, registry, dbs, sqldas, stmts, spoilt>>

(* isc_detach_database, which frees the statements of the database too.    *)
Detach(c) ==
  /\ dbs' = dbs \ {c}
  /\ stmts' = {handle \in stmts : handle[1] # c}

(* The end of conn_close and conn_gc.                                      *)
ConnFinish ==
  /\ env' = [env EXCEPT !.lock = @ - 1]
  /\ registry' = IF env.lock = 1 THEN UnregisterObj(Env) ELSE registry

(* conn_close, refused while cursors are open.  When the transaction or    *)
(* the database cannot be ended, the connection stays open.                *)
ConnClose(c) ==
  /\ Usable(c) /\ conn[c].lock = 0
  /\ misused' = misused \union Touch(c)
  /\ conn' = [conn EXCEPT ![c].closed = TRUE]
  /\ Detach(c)
  /\ ConnFinish
  /\ UNCHANGED <<cur, refs, sqldas, spoilt>>

Collectable(x) == x \notin refs /\ \A ref \in registry : ref[2] # x

(* conn_gc: the same, whatever its calls answer.                           *)
ConnGc(c) ==
  /\ conn[c] # NULL /\ Collectable(c)
  /\ conn' = [conn EXCEPT ![c] = NULL]
  /\ IF conn[c].closed THEN UNCHANGED <<env, registry, dbs, stmts, misused, spoilt>>
     ELSE /\ misused' = misused \union Touch(c)
          /\ ConnFinish
          /\ \/ Detach(c) /\ UNCHANGED spoilt
             \/ spoilt' = spoilt \union {"detach"} /\ UNCHANGED <<dbs, stmts>>
  /\ UNCHANGED <<cur, refs, sqldas>>

CursorUsable(k) == k \in refs /\ ~cur[k].closed

(* cur_shut, when the statement can be closed: DSQL_close ends its cursor  *)
(* and does not free its handle.                                           *)
CurShut(k) ==
  LET c == cur[k].conn
  IN /\ sqldas' = sqldas \ {k}
     /\ stmts' = Left(c, stmts \ {<<c, k>>})
     /\ conn' = [conn EXCEPT ![c].lock = @ - 1]
     /\ registry' = IF conn[c].lock = 1 THEN UnregisterObj(c) ELSE registry
     /\ UNCHANGED spoilt

(* cur_close; when the statement cannot be closed, nothing is.             *)
CurClose(k) ==
  /\ CursorUsable(k)
  /\ misused' = misused \union Touch(cur[k].conn)
  /\ CurShut(k)
  /\ cur' = [cur EXCEPT ![k].closed = TRUE]
  /\ UNCHANGED <<env, refs, dbs>>

(* The end of the rows: as cur_shut, but the handle is freed (DSQL_drop)   *)
(* and the connection stays registered.                                    *)
LastFetched(k) ==
  LET c == cur[k].conn
  IN /\ sqldas' = sqldas \ {k}
     /\ stmts' = stmts \ {<<c, k>>}
     /\ conn' = [conn EXCEPT ![c].lock = @ - 1]
     /\ spoilt' = IF conn[c].lock = 1 THEN spoilt \union {"registered"} ELSE spoilt
     /\ UNCHANGED registry

(* cur_fetch: a row, and for a procedure's only row cur_shut; or the end.  *)
CurFetch(k) ==
  /\ CursorUsable(k)
  /\ misused' = misused \union Touch(cur[k].conn)
  /\ \/ UNCHANGED <<conn, cur, registry, sqldas, stmts, spoilt>>
     \/ /\ CurShut(k) \/ LastFetched(k)
        /\ cur' = [cur EXCEPT ![k].closed = TRUE]
  /\ UNCHANGED <<env, refs, dbs>>

(* cur_gc: when the statement cannot be closed the cursor goes all the     *)
(* same, and its buffers and its lock stay.                                *)
CurGc(k) ==
  /\ cur[k] # NULL /\ k \notin refs
  /\ cur' = [cur EXCEPT ![k] = NULL]
  /\ IF cur[k].closed THEN UNCHANGED <<conn, registry, sqldas, stmts, misused, spoilt>>
     ELSE /\ misused' = misused \union Touch(cur[k].conn)
          /\ \/ CurShut(k)
             \/ /\ stmts' = Left(cur[k].conn, stmts \ {<<cur[k].conn, k>>})
                /\ spoilt' = spoilt \union {"shut"}
                /\ UNCHANGED <<conn, registry, sqldas>>
  /\ UNCHANGED <<env, refs, dbs>>

EnvGc ==
  /\ env # NULL /\ Collectable(Env)
  /\ env' = NULL
  /\ UNCHANGED <<conn, cur, refs, registry, dbs, sqldas, stmts, misused, spoilt>>

Drop(x) ==
  /\ x \in refs
  /\ refs' = refs \ {x}
  /\ UNCHANGED <<env, conn, cur, registry, dbs, sqldas, stmts, misused, spoilt>>

Next == misused = {} /\
  \/ CreateEnvironment \/ EnvClose \/ EnvGc \/ UnnamedGc
  \/ \E c \in Conns :
       EnvConnect(c) \/ ConnExecute(c) \/ ConnCall(c) \/ ConnClose(c) \/ ConnGc(c)
  \/ \E k \in Curs : CurFetch(k) \/ CurClose(k) \/ CurGc(k)
  \/ \E x \in refs : Drop(x)
-----------------------------------------------------------------------------
IsOpen(x) == x # NULL /\ ~x.closed
Locks(c) == {k \in Curs : IsOpen(cur[k]) /\ cur[k].conn = c}

(* There are never fewer locks than open objects, so that none is freed    *)
(* under one that needs it.  A statement handle belongs to an open cursor, *)
(* or else, after an execute that failed and after a cursor that was not   *)
(* read to its end, to nobody: then it stays until its database is         *)
(* detached, and no longer.  Until a clean-up call fails, the locks are    *)
(* exact and the databases and buffers are those of open objects; an       *)
(* object is registered only while it is locked, except that a connection  *)
(* one of whose cursors was read to its end may stay so for good.          *)
FirebirdOwns ==
  /\ env # NULL => env.lock >= Cardinality({c \in Conns : IsOpen(conn[c])})
  /\ \A c \in Conns : conn[c] # NULL => conn[c].lock >= Cardinality(Locks(c))
  /\ stmts \ (Conns \X {"left"}) = {<<cur[k].conn, k>> : k \in {k \in Curs : IsOpen(cur[k])}}
  /\ \A handle \in stmts : handle[1] \in dbs
  /\ spoilt \subseteq {"registered", "unnamed"} =>
       /\ env # NULL => env.lock = Cardinality({c \in Conns : IsOpen(conn[c])})
       /\ \A c \in Conns : conn[c] # NULL => conn[c].lock = Cardinality(Locks(c))
       /\ dbs = {c \in Conns : IsOpen(conn[c])}
       /\ sqldas = {k \in Curs : IsOpen(cur[k])}
  /\ spoilt \subseteq {"unnamed"} => \A c \in Conns : <<c, c>> \in registry => conn[c].lock > 0

(* Whatever fails, nothing is used after it was collected, and nothing     *)
(* before it was filled in but the cursor that could not be named.         *)
FirebirdIsSafe == misused # {} => misused = {"unfilled cursor"} /\ "unnamed" \in spoilt
=============================================================================
