---------------------------- MODULE MCLuaObjects ----------------------------
(* Model-checking instance of the libraries whose objects are closed by    *)
(* Lua code or by the collector: log handles, the objects of four database *)
(* drivers, TCP and UDP sockets.  They share nothing, so a behaviour runs  *)
(* one of them; the drivers, and the two kinds of sockets, use the same    *)
(* variables for it.                                                       *)
EXTENDS LuaLog, SqlDriver, TcpSocket

CONSTANTS
  Stmts,      \* ODBC statements
  MoreConns   \* connections of the SQLite and Firebird drivers

VARIABLES
  library,   \* the library this behaviour runs
  stmt,      \* the statements of the ODBC driver
  spoilt     \* of the SQLite, Firebird and ODBC drivers

Sqlite == INSTANCE SqliteDriver WITH Conns <- MoreConns, dbs <- mysqls, vms <- results
Firebird == INSTANCE FirebirdDriver
  WITH Conns <- MoreConns, dbs <- mysqls, sqldas <- results, stmts <- stranded
Odbc == INSTANCE OdbcDriver WITH handles <- mysqls
Udp == INSTANCE UdpSocket

ASSUME DriverNullAssumption ==
  NULL \notin Sqlite!ConnStructs \union Sqlite!CurStructs
    \union Firebird!LockStructs \union Firebird!CurStructs
    \union Odbc!LockStructs \union Odbc!StmtStructs \union Odbc!CurStructs
ASSUME DriverObjectsAssumption ==
  /\ IsFiniteSet(MoreConns) /\ IsFiniteSet(Stmts)
  /\ MoreConns \intersect Curs = {} /\ Stmts \intersect (Conns \union Curs) = {}
  /\ Env \notin MoreConns \union Stmts
  /\ {"unbound", "left"} \intersect Curs = {}

driverVars == <<sqlVars, stmt, spoilt>>
vars == <<logVars, driverVars, tcpVars, library>>

MCLists == {<<>>, <<"inet">>, <<"inet6", "inet">>, <<"inet", "inet">>}

MCInit ==
  /\ library \in {"lualog", "mysql", "sqlite3", "firebird", "odbc", "tcp", "udp"}
  /\ LogInit /\ pending = [c \in Conns |-> FALSE] /\ advanced = FALSE /\ stranded = {}
  /\ IF library \in {"sqlite3", "firebird"}
     THEN Sqlite!Init /\ stmt = [s \in Stmts |-> NULL]
     ELSE SqlInit /\ Odbc!Init
  /\ IF library = "udp" THEN Udp!Init /\ lost = {} ELSE TcpInit

(* A step of a driver, and what is not its own.                            *)
MysqlStep(A) == library = "mysql" /\ A /\ UNCHANGED <<stmt, spoilt>>
SqliteStep(A) == library = "sqlite3" /\ A /\ UNCHANGED <<stmt, pending, stranded, advanced>>
FirebirdStep(A) == library = "firebird" /\ A /\ UNCHANGED <<stmt, pending, advanced>>
OdbcStep(A) == library = "odbc" /\ A /\ UNCHANGED <<results, pending, stranded, advanced>>

DriverNext ==
  MysqlStep(SqlNext) \/ SqliteStep(Sqlite!Next) \/ FirebirdStep(Firebird!Next) \/ OdbcStep(Odbc!Next)

MCNext ==
  /\ UNCHANGED library
  /\ \/ DriverNext /\ UNCHANGED <<logVars, tcpVars>>
     \/ library = "lualog" /\ LogNext /\ UNCHANGED <<driverVars, tcpVars>>
     \/ library = "tcp" /\ TcpNext /\ UNCHANGED <<driverVars, logVars>>
     \/ library = "udp" /\ Udp!Next /\ UNCHANGED <<driverVars, logVars, lost>>

(* The collector comes to every object it can collect.                     *)
CollectsCur(k) ==
  \/ MysqlStep(CurGc(k)) \/ SqliteStep(Sqlite!CurGc(k))
  \/ FirebirdStep(Firebird!CurGc(k)) \/ OdbcStep(Odbc!CurGc(k))

CollectsConn(c) ==
  \/ c \in Conns /\ (MysqlStep(ConnGc(c)) \/ OdbcStep(Odbc!ConnGc(c)))
  \/ SqliteStep(Sqlite!ConnGc(c)) \/ FirebirdStep(Firebird!ConnGc(c))

CollectsOther == OdbcStep(Odbc!EnvGc \/ \E s \in Stmts : Odbc!StmtGc(s))

MCSpec ==
  /\ MCInit /\ [][MCNext]_vars
  /\ \A k \in Curs : WF_driverVars(CollectsCur(k))
  /\ \A c \in Conns \union MoreConns : WF_driverVars(CollectsConn(c))
  /\ WF_driverVars(CollectsOther)
-----------------------------------------------------------------------------
(* Each driver's locks, counts, statements and handles agree with the      *)
(* objects that are open.                                                  *)
HandlesAreOwned ==
  CASE library = "sqlite3" -> Sqlite!SqliteOwns
    [] library = "firebird" -> Firebird!FirebirdOwns
    [] library = "odbc" -> Odbc!OdbcOwns
    [] OTHER -> MysqlOwns

(* No driver uses what was given back, but for the cases each one names.   *)
FreedIsUntouched ==
  CASE library = "sqlite3" -> Sqlite!SqliteIsSafe
    [] library = "firebird" -> Firebird!FirebirdIsSafe
    [] library = "odbc" -> Odbc!OdbcIsSafe
    [] OTHER -> MysqlIsSafe

(* Every open descriptor of a socket belongs to one object, TCP or UDP.    *)
SocketsAreOwned == IF library = "udp" THEN Udp!UdpOwns ELSE TcpOwns

(* What Lua code lets go of for good is given back in the end, by all the  *)
(* drivers: the cursor first, then the statement and the connection.       *)
DroppedIsFreed ==
  <>[](refs = {}) =>
    <>[](~(spoilt \subseteq {"rebound"}) \/ (mysqls = {} /\ results = {} /\ stranded = {}))
=============================================================================
