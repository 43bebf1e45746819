---------------------------- MODULE SqliteDriver ----------------------------
(***************************************************************************)
(* The SQLite 3 driver of LuaSQL (ls_sqlite3.c) in one Lua state.  As in   *)
(* the MySQL driver, a cursor holds its connection and a connection its    *)
(* environment through the registry; but a connection also counts its      *)
(* cursors, and is not closed while there are any, since SQLite refuses to *)
(* close a database that has statements.                                   *)
(***************************************************************************)
EXTENDS Integers, FiniteSets

CONSTANTS Conns, Curs, Env, NULL

VARIABLES
  env,      \* env_data: NULL or [closed]
  conn,     \* conn_data: NULL or [closed, counter]
  cur,      \* cur_data: NULL or [closed, conn]
  refs,     \* the objects that Lua code can reach
  registry, \* the references of luaL_ref: <<who made it, what it holds>>
  dbs,      \* the sqlite3 structures that are allocated
  vms,      \* the prepared statements: <<connection, cursor>>, or a connection
            \* and "unbound" for those of an execute that failed to bind
  misused,  \* history: what undefined behaviour has happened
  spoilt    \* history: what went wrong that the driver does not make up for

(* The structs, and the statements they can have.                          *)
EnvStructs == [closed : BOOLEAN]
ConnStructs == [closed : BOOLEAN, counter : Int]
CurStructs == [closed : BOOLEAN, conn : Conns]
Vms == Conns \X (Curs \union {"unbound"})

vars == <<env, conn, cur, refs, registry, dbs, vms, misused, spoilt>>

Init ==
  /\ env = NULL
  /\ conn = [c \in Conns |-> NULL]
  /\ cur = [k \in Curs |-> NULL]
  /\ refs = {} /\ registry = {}
  /\ dbs = {} /\ vms = {}
  /\ misused = {} /\ spoilt = {}

CreateEnvironment ==
  /\ env = NULL
  /\ env' = [closed |-> FALSE]
  /\ refs' = refs \union {Env}
  /\ UNCHANGED <<conn, cur, registry, dbs, vms, misused, spoilt>>

EnvClose ==
  /\ Env \in refs
  /\ env' = [closed |-> TRUE]
  /\ UNCHANGED <<conn, cur, refs, registry, dbs, vms, misused, spoilt>>

(* env_connect; the structure of a failed open is closed again.            *)
EnvConnect(c) ==
  /\ Env \in refs /\ ~env.closed
  /\ conn[c] = NULL /\ c \notin dbs
  /\ conn' = [conn EXCEPT ![c] = [closed |-> FALSE, counter |-> 0]]
  /\ registry' = registry \union {<<c, Env>>}
  /\ dbs' = dbs \union {c}
  /\ refs' = refs \union {c}
  /\ UNCHANGED <<env, cur, vms, misused, spoilt>>

Usable(c) == c \in refs /\ ~conn[c].closed
Touch(c) == IF c \in dbs THEN {} ELSE {"closed database"}

(* create_cursor, for a statement that has been reset.                     *)
CreateCursor(c, k) ==
  /\ cur[k] = NULL
  /\ conn' = [conn EXCEPT ![c].counter = @ + 1]
  /\ cur' = [cur EXCEPT ![k] = [closed |-> FALSE, conn |-> c]]
  /\ registry' = registry \union {<<k, c>>}
  /\ vms' = vms \union {<<c, k>>}
  /\ refs' = refs \union {k}

(* conn_execute: an error or a count, whose statement is finalized, or a   *)
(* cursor.  When the parameters do not fit it leaves at once, by an error  *)
(* or a return, and nobody has the statement any more.                     *)
ConnExecute(c) ==
  /\ Usable(c)
  /\ misused' = misused \union Touch(c)
  /\ \/ \E k \in Curs : CreateCursor(c, k) /\ UNCHANGED spoilt
     \/ /\ vms' = vms \union {<<c, "unbound">>}
        /\ spoilt' = spoilt \union {"unbound"}
        /\ UNCHANGED <<conn, cur, registry, refs>>
  /\ UNCHANGED <<env, dbs>>

(* conn_commit, conn_rollback, conn_setautocommit, conn_getlastautoid.     *)
ConnCall(c) ==
  /\ Usable(c)
  /\ misused' = misused \union Touch(c)
  /\ UNCHANGED <<env, conn, cur, refs, registry, dbs, vms, spoilt>>

Unref(x) == {ref \in registry : ref[1] # x}

(* conn_gc of an open connection without cursors.  sqlite3_close answers   *)
(* SQLITE_BUSY, unread, when a statement is left.                          *)
ConnFinish(c) ==
  /\ registry' = Unref(c)
  /\ dbs' = IF \E vm \in vms : vm[1] = c THEN dbs ELSE dbs \ {c}

(* conn_close; it raises an error while there are cursors.                 *)
ConnClose(c) ==
  /\ Usable(c)
  /\ conn[c].counter = 0
  /\ conn' = [conn EXCEPT ![c].closed = TRUE]
  /\ ConnFinish(c)
  /\ UNCHANGED <<env, cur, refs, vms, misused, spoilt>>

(* cur_nullify takes the cursor off the count of its connection.           *)
CurNullify(k) == [conn EXCEPT ![cur[k].conn].counter = @ - 1]

CurFinish(k) ==
  /\ vms' = vms \ {<<cur[k].conn, k>>}
  /\ conn' = CurNullify(k)
  /\ registry' = Unref(k)
  /\ UNCHANGED <<env, refs, dbs, spoilt>>

CursorUsable(k) == k \in refs /\ ~cur[k].closed

CurClose(k) ==
  /\ CursorUsable(k)
  /\ CurFinish(k)
  /\ cur' = [cur EXCEPT ![k].closed = TRUE]
  /\ UNCHANGED misused

(* cur_fetch: a row, or else the statement is finalized, whose error is    *)
(* read from the database, and the cursor closed.                          *)
CurFetch(k) ==
  /\ CursorUsable(k)
  /\ misused' = misused \union Touch(cur[k].conn)
  /\ \/ /\ CurFinish(k)
        /\ cur' = [cur EXCEPT ![k].closed = TRUE]
     \/ UNCHANGED <<env, conn, cur, refs, registry, dbs, vms, spoilt>>

(* Lua code lets go of an object.                                          *)
Drop(x) ==
  /\ x \in refs
  /\ refs' = refs \ {x}
  /\ UNCHANGED <<env, conn, cur, registry, dbs, vms, misused, spoilt>>

CurGc(k) ==
  /\ cur[k] # NULL /\ k \notin refs
  /\ cur' = [cur EXCEPT ![k] = NULL]
  /\ IF cur[k].closed THEN UNCHANGED <<env, conn, refs, registry, dbs, vms, spoilt>>
     ELSE CurFinish(k)
  /\ UNCHANGED misused

Collectable(x) == x \notin refs /\ \A ref \in registry : ref[2] # x

(* conn_gc; while there are cursors it raises an error, and the userdata   *)
(* goes without it.                                                        *)
ConnGc(c) ==
  /\ conn[c] # NULL /\ Collectable(c)
  /\ conn' = [conn EXCEPT ![c] = NULL]
  /\ IF conn[c].closed \/ conn[c].counter > 0 THEN UNCHANGED <<registry, dbs>>
     ELSE ConnFinish(c)
  /\ UNCHANGED <<env, cur, refs, vms, misused, spoilt>>

EnvGc ==
  /\ env # NULL /\ Collectable(Env)
  /\ env' = NULL
  /\ UNCHANGED <<conn, cur, refs, registry, dbs, vms, misused, spoilt>>

Next == misused = {} /\
  \/ CreateEnvironment \/ EnvClose \/ EnvGc
  \/ \E c \in Conns :
       EnvConnect(c) \/ ConnExecute(c) \/ ConnCall(c) \/ ConnClose(c) \/ ConnGc(c)
  \/ \E k \in Curs : CurFetch(k) \/ CurClose(k) \/ CurGc(k)
  \/ \E x \in refs : Drop(x)
-----------------------------------------------------------------------------
IsOpen(x) == x # NULL /\ ~x.closed

(* Each connection counts its open cursors, each statement belongs to an   *)
(* open cursor, and each open database to an open connection.  The         *)
(* statement of an execute that failed to bind is the exception, and the   *)
(* database it belonged to then stays open for ever.                       *)
SqliteOwns ==
  /\ \A c \in Conns : conn[c] # NULL =>
       conn[c].counter = Cardinality({k \in Curs : IsOpen(cur[k]) /\ cur[k].conn = c})
  /\ vms \ (Conns \X {"unbound"}) =
       {<<cur[k].conn, k>> : k \in {k \in Curs : IsOpen(cur[k])}}
  /\ {c \in Conns : IsOpen(conn[c])} \subseteq dbs
  /\ \A c \in dbs : IsOpen(conn[c]) \/ <<c, "unbound">> \in vms

(* No order of closing, dropping and collecting uses a closed database.    *)
SqliteIsSafe == misused = {}
=============================================================================
