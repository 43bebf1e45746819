----------------------------- MODULE SqlDriver -----------------------------
(***************************************************************************)
(* The MySQL driver of LuaSQL (ls_mysql.c) in one Lua state.  Environment, *)
(* connections and cursors are userdata; a connection keeps its            *)
(* environment alive and a cursor its connection, through the registry,    *)
(* until they are closed.  Each wraps memory of the MySQL client library,  *)
(* which Lua code gives back with close() or leaves to the collector.      *)
(***************************************************************************)
EXTENDS Integers, FiniteSets

CONSTANTS
  Conns,    \* connections; also the names of their MYSQL structures
  Curs,     \* cursors
  Env,      \* the environment
  NULL      \* NULL, nil, and an object that is not allocated

VARIABLES
  env,      \* env_data: NULL or [closed]
  conn,     \* conn_data: NULL or [closed]
  cur,      \* cur_data: NULL or [closed, my_res, my_conn]
  refs,     \* the objects that Lua code can reach
  registry, \* the references of luaL_ref: <<who made it, what it holds>>
  mysqls,   \* the MYSQL structures that are allocated
  pending,  \* mysql_more_results: are there results not stored yet
  results,  \* the result sets that are allocated: the cursor they were made for,
            \* and "first", "next", or "narrow" (a next one with fewer columns)
  stranded, \* the MYSQL structures under which the client library was ended
  misused,  \* history: what undefined behaviour has happened
  advanced  \* history: nextresult or hasnextresult has been called

(* The structs, and the result sets of the cursors.                        *)
EnvStructs == [closed : BOOLEAN]
ConnStructs == [closed : BOOLEAN]
Results == Curs \X {"first", "next", "narrow"}
CurStructs == [closed : BOOLEAN, my_conn : Conns, my_res : Results \union {NULL}]

ASSUME NullAssumption ==
  NULL \notin EnvStructs \union ConnStructs \union CurStructs \union Results
ASSUME ObjectsAssumption ==
  /\ IsFiniteSet(Conns) /\ IsFiniteSet(Curs)
  /\ Conns \intersect Curs = {}
  /\ Env \notin Conns \union Curs

sqlVars == <<env, conn, cur, refs, registry, mysqls, pending, results, stranded, misused, advanced>>

SqlInit ==
  /\ env = NULL
  /\ conn = [c \in Conns |-> NULL]
  /\ cur = [k \in Curs |-> NULL]
  /\ refs = {}
  /\ registry = {}
  /\ mysqls = {}
  /\ pending = [c \in Conns |-> FALSE]
  /\ results = {}
  /\ stranded = {}
  /\ misused = {}
  /\ advanced = FALSE

(* create_environment                                                      *)
CreateEnvironment ==
  /\ env = NULL
  /\ env' = [closed |-> FALSE]
  /\ refs' = refs \union {Env}
  /\ UNCHANGED <<conn, cur, registry, mysqls, pending, results, stranded, misused, advanced>>

(* mysql_library_end, once per environment: every open connection loses    *)
(* what the client library holds for it.                                   *)
EndLibrary == IF env.closed THEN stranded ELSE mysqls

(* env_close, which does not ask whether connections are open.             *)
EnvClose ==
  /\ Env \in refs
  /\ env' = [closed |-> TRUE]
  /\ stranded' = EndLibrary
  /\ UNCHANGED <<conn, cur, refs, registry, mysqls, pending, results, misused, advanced>>

(* create_connection                                                       *)
CreateConnection(c) ==
  /\ conn' = [conn EXCEPT ![c] = [closed |-> FALSE]]
  /\ registry' = registry \union {<<c, Env>>}
  /\ mysqls' = mysqls \union {c}
  /\ pending' = [pending EXCEPT ![c] = FALSE]
  /\ refs' = refs \union {c}

(* Mutant: the MYSQL of a failed connect is not closed.                    *)
ConnectFailsUnclosed(c) ==
  /\ mysqls' = mysqls \union {c}
  /\ UNCHANGED <<conn, registry, pending, refs>>

(* mysql_real_connect fails: mysql_init's structure is closed again.       *)
ConnectFails(c) == UNCHANGED <<conn, registry, mysqls, pending, refs>>

(* env_connect.  The name of a MYSQL is not used again while a cursor      *)
(* points to it.                                                           *)
EnvConnect(c) ==
  /\ Env \in refs /\ ~env.closed
  /\ conn[c] = NULL /\ c \notin mysqls
  /\ \A k \in Curs : cur[k] # NULL => cur[k].my_conn # c
  /\ CreateConnection(c) \/ ConnectFails(c)
  /\ UNCHANGED <<env, cur, results, stranded, misused, advanced>>

(* A call of the client library with the MYSQL of c.                       *)
Touch(c) ==
  (IF c \in mysqls THEN {} ELSE {"freed MYSQL"})
    \union (IF c \in stranded THEN {"ended library"} ELSE {})

(* create_cursor: the connection is held until the cursor is closed.       *)
CreateCursor(c, k) ==
  /\ cur[k] = NULL
  /\ cur' = [cur EXCEPT ![k] = [closed |-> FALSE, my_conn |-> c, my_res |-> <<k, "first">>]]
  /\ registry' = registry \union {<<k, c>>}
  /\ results' = results \union {<<k, "first">>}
  /\ refs' = refs \union {k}

Usable(c) == c \in refs /\ ~conn[c].closed

(* conn_execute: an error (always when results of the statement before are *)
(* pending), a count, or a cursor over stored rows.                        *)
ConnExecute(c) ==
  /\ Usable(c)
  /\ misused' = misused \union Touch(c)
  /\ \/ UNCHANGED <<cur, registry, results, refs, pending>>
     \/ /\ ~pending[c]
        /\ pending' = [pending EXCEPT ![c] = TRUE]
        /\ UNCHANGED <<cur, registry, results, refs>>
     \/ /\ ~pending[c]
        /\ \E k \in Curs, more \in BOOLEAN :
             /\ CreateCursor(c, k)
             /\ pending' = [pending EXCEPT ![c] = more]
  /\ UNCHANGED <<env, conn, mysqls, stranded, advanced>>

(* conn_ping, escape_string, conn_commit, conn_rollback,                   *)
(* conn_setautocommit, conn_getlastautoid: all refuse a closed connection  *)
(* (ping by answering false) and otherwise use the MYSQL.                  *)
ConnCall(c) ==
  /\ Usable(c)
  /\ misused' = misused \union Touch(c)
  /\ UNCHANGED <<env, conn, cur, refs, registry, mysqls, pending, results, stranded, advanced>>

(* Mutant: the reference is not taken back.                                *)
UnrefNothing(x) == registry

(* luaL_unref of what x held.                                              *)
Unref(x) == {ref \in registry : ref[1] # x}

(* conn_gc, for an open connection, with mysql_close; conn_close calls it. *)
ConnFinish(c) ==
  /\ misused' = misused \union Touch(c)
  /\ mysqls' = mysqls \ {c}
  /\ stranded' = stranded \ {c}
  /\ registry' = Unref(c)
  /\ UNCHANGED <<env, cur, pending, results, advanced>>

(* conn_close; false when it is closed already.                            *)
ConnClose(c) ==
  /\ Usable(c)
  /\ conn' = [conn EXCEPT ![c] = [closed |-> TRUE]]
  /\ ConnFinish(c)
  /\ UNCHANGED refs

(* What freeing a result does: NULL is ignored, a freed one is not.        *)
FreeMisuse(r) == IF r \in results \union {NULL} THEN {} ELSE {"double free"}

(* Mutant: the cursor is not marked closed.                                *)
CurNullifyOpen(k) == cur[k]

(* cur_nullify: the struct, then the result and the reference.             *)
CurNullify(k) == [cur[k] EXCEPT !.closed = TRUE]

CurFinish(k) ==
  /\ results' = results \ {cur[k].my_res}
  /\ registry' = Unref(k)
  /\ UNCHANGED <<env, conn, mysqls, pending>>

CursorUsable(k) == k \in refs /\ ~cur[k].closed

(* cur_close; false when it is closed already.                             *)
CurClose(k) ==
  /\ CursorUsable(k)
  /\ cur' = [cur EXCEPT ![k] = CurNullify(k)]
  /\ misused' = misused \union FreeMisuse(cur[k].my_res)
  /\ CurFinish(k)
  /\ UNCHANGED <<refs, stranded, advanced>>

(* cur_fetch, cur_numrows, cur_seek, the column lists: all read my_res.    *)
ReadMisuse(k) ==
  CASE cur[k].my_res = NULL -> {"no result"}
    [] cur[k].my_res \notin results -> {"freed result"}
    [] cur[k].my_res = <<k, "narrow">> -> {"missing column"}
    [] OTHER -> {}

(* cur_fetch: a row, or the end of the rows, which closes the cursor.      *)
CurFetch(k) ==
  /\ CursorUsable(k)
  /\ misused' = misused \union ReadMisuse(k)
  /\ \/ UNCHANGED <<env, conn, cur, registry, mysqls, pending, results>>
     \/ /\ ReadMisuse(k) \subseteq {"missing column"}
        /\ cur' = [cur EXCEPT ![k] = CurNullify(k)]
        /\ CurFinish(k)
  /\ UNCHANGED <<refs, stranded, advanced>>

(* cur_seek, cur_numrows, cur_getcolnames, cur_getcoltypes.                *)
CurRead(k) ==
  /\ CursorUsable(k)
  /\ misused' = misused \union ReadMisuse(k)
  /\ UNCHANGED <<env, conn, cur, refs, registry, mysqls, pending, results, stranded, advanced>>

(* cur_next_result: the next result takes the place of the first, which is *)
(* freed; when it has no rows to store, my_res is NULL and the cursor      *)
(* stays open.  numcols and the column lists stay as they were.            *)
CurNextResult(k) ==
  /\ CursorUsable(k)
  /\ advanced' = TRUE
  /\ LET c == cur[k].my_conn
     IN \/ /\ c \notin mysqls \/ ~pending[c]
           /\ misused' = misused \union Touch(c)
           /\ UNCHANGED <<cur, results, pending>>
        \/ /\ c \in mysqls /\ pending[c]
           /\ pending' = [pending EXCEPT ![c] = FALSE]
           /\ misused' = misused \union Touch(c) \union FreeMisuse(cur[k].my_res)
           /\ \/ UNCHANGED <<cur, results>>
              \/ \E next \in {NULL, <<k, "next">>, <<k, "narrow">>} :
                   /\ results' = (results \ {cur[k].my_res}) \union ({next} \ {NULL})
                   /\ cur' = [cur EXCEPT ![k].my_res = next]
  /\ UNCHANGED <<env, conn, refs, registry, mysqls, stranded>>

(* cur_has_next_result                                                     *)
CurHasNextResult(k) ==
  /\ CursorUsable(k)
  /\ advanced' = TRUE
  /\ misused' = misused \union Touch(cur[k].my_conn)
  /\ UNCHANGED <<env, conn, cur, refs, registry, mysqls, pending, results, stranded>>

(* Lua code lets go of an object.                                          *)
Drop(x) ==
  /\ x \in refs
  /\ refs' = refs \ {x}
  /\ UNCHANGED <<env, conn, cur, registry, mysqls, pending, results, stranded, misused, advanced>>

(* The collector finalizes an object that neither Lua code nor the         *)
(* registry holds: cur_gc, conn_gc, env_gc.                                *)
CurGc(k) ==
  /\ cur[k] # NULL /\ k \notin refs
  /\ cur' = [cur EXCEPT ![k] = NULL]
  /\ IF cur[k].closed
     THEN UNCHANGED <<env, conn, registry, mysqls, pending, results, misused>>
     ELSE /\ CurFinish(k)
          /\ misused' = misused \union FreeMisuse(cur[k].my_res)
  /\ UNCHANGED <<refs, stranded, advanced>>

ConnGc(c) ==
  /\ conn[c] # NULL /\ c \notin refs
  /\ \A ref \in registry : ref[2] # c
  /\ conn' = [conn EXCEPT ![c] = NULL]
  /\ IF conn[c].closed
     THEN UNCHANGED <<env, cur, registry, mysqls, pending, results, stranded, misused, advanced>>
     ELSE ConnFinish(c)
  /\ UNCHANGED refs

EnvGc ==
  /\ env # NULL /\ Env \notin refs
  /\ \A ref \in registry : ref[2] # Env
  /\ env' = NULL
  /\ UNCHANGED <<conn, cur, refs, registry, mysqls, pending, results, stranded, misused, advanced>>

(* After a misuse nothing more is known, and the model stops.  The calls   *)
(* under an ended library are the exception: mysql_pool_api.lua closes     *)
(* each environment as soon as it is connected, and goes on with what is   *)
(* left of the library.                                                    *)
SqlNext == misused \subseteq {"ended library"} /\
  \/ CreateEnvironment \/ EnvClose \/ EnvGc
  \/ \E c \in Conns :
       EnvConnect(c) \/ ConnExecute(c) \/ ConnCall(c) \/ ConnClose(c) \/ ConnGc(c)
  \/ \E k \in Curs :
       \/ CurFetch(k) \/ CurRead(k) \/ CurClose(k)
       \/ CurNextResult(k) \/ CurHasNextResult(k) \/ CurGc(k)
  \/ \E x \in refs : Drop(x)
-----------------------------------------------------------------------------
(* Nothing is leaked or freed under its owner: an allocated result belongs *)
(* to a cursor that is not closed, a MYSQL to a connection that is not     *)
(* closed, and each of those has its own.                                  *)
MysqlOwns ==
  /\ \A r \in results :
       cur[r[1]] # NULL /\ ~cur[r[1]].closed /\ cur[r[1]].my_res = r
  /\ mysqls = {c \in Conns : conn[c] # NULL /\ ~conn[c].closed}

(* In whatever order connections and cursors are closed, dropped and       *)
(* collected, a program that never asks for a next result uses no MYSQL    *)
(* and no result that was given back.  The client library itself is ended  *)
(* under all connections that are open when their environment is closed,   *)
(* and under no other.                                                     *)
MysqlIsSafe ==
  /\ misused \ {"ended library"} # {} => advanced
  /\ stranded = {c \in mysqls : env.closed}
=============================================================================
