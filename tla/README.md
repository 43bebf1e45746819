# Formal model of EC-NAS-API

EC-NAS-API is the HTTP gateway of a small NAS. It is OpenResty (nginx with Lua):
`gateway_nginx.conf` starts 8 worker processes, each with a Lua VM of its own,
and three *managers* are mounted on it: `account_manager` (the administrator
and the users), `storage_manager` (the disks that form the pool behind `/nfs`)
and `fsystem_manager` (the users' files in `/nfs/guest_<name>`). A handler is
one Lua function that runs to its end; it talks to MySQL through
`open/linkup`, to the operating system through shell commands, and to the file
system through `lfs` and `io`. These calls block the worker, so inside a worker
requests are served one at a time. Everything hard in this program comes from
what happens *between* two of these calls: another worker runs, the worker is
killed, the database connection breaks, a command fails and nobody looks.

Below the managers lie libraries in Lua and C (`open/lib`): the MySQL driver
and its siblings, the log library, sockets and their buffers, a redis client
with a pool, a consistent-hashing ring, codecs. There the hard part is another:
objects that Lua code closes or forgets and the collector frees in its own
order, calls cut in pieces by timeouts, and loops over trees and buffers whose
cases a test seldom reaches.

This directory holds TLA+ models of the parts where that matters, TLC
configurations that check them on small instances, and TLAPS proofs of the
results that should hold for every instance.

To check it: `tlc -config MCFileTree.cfg MCFileTree` (likewise for the other
configurations) and `tlapm FileTreeProofs.tla` (likewise for the other
`*Proofs` modules).

## 1. The system

| component | state it keeps | operations | interacts with |
|---|---|---|---|
| MySQL pool, `open/linkup/mysql_pool_api.lua` | per worker: one handle per database in `OWN_MYSQL_POOLS`; on the server: the session and its autocommit mode | `cmd` (single statement, batch, transaction), `init`, reconnect on the next round | called by every manager; the server, which may go away at any time |
| ring queue, `open/lib/queue.lua` | `_first`, `_last`, `_counter`, `_value` | `push`, `pull`, `free` | the redis and http pools |
| users, `api_user_create.lua`, `api_user_remove.lua` | rows of `user_list`; accounts of the operating system | create, remove | MySQL pool; `useradd`, `chpasswd`, `usermod`, `userdel`; the storage pool (`disk_list`, `blkid`) |
| administrator, `api_admin_login.lua`, `api_admin_modify.lua`, `AM_utils.lua` | one row of `sys_info`; the key that signs tokens, in a shared dictionary | login (the first one creates the row), change of the secret | MySQL pool; every other handler checks its tokens |
| storage pool, `api_pool_disk_append.lua`, `api_pool_disk_remove.lua`, `SM_utils.lua` | rows of `disk_list`; file systems, images, mounts, the union on `/nfs` | append, remove; both end in `data_pool_apply` | MySQL pool; `mount`, `mkfs`, `fallocate`, `mergerfs` |
| slice upload, `api_opt_slice_push.lua`, `api_opt_slice_complete.lua` | part files, the destination file | push a slice, complete | the client, which drives the protocol |
| paths and trees, `FM_utils.lua`, `api_opt_create/delete/clear/rename.lua` | a user's directory tree | create, delete, clear, rename | the file system |
| whole-file transfer, `api_opt_push/pull/info.lua` | files | write, ranged read, stat | the file system |
| redis pool, `redis_pool_api.lua`, over `open/lib/redis.lua` | per worker: members, a queue of connection slots for each, nginx's kept connections, a weak table of replies | `cmd` on single commands and batches, `add_to_pool`, `del_from_pool` | redis servers; every request is a coroutine that is suspended while it waits; the hash ring when it has several members |
| hash ring, `open/lib/libconhash` | a red-black tree of virtual nodes | set, delete, lookup, destroy | the redis pool (`hash_fetch_pool`) |
| log library, `open/lib/lua-log/lualog.c` | handles by name, a descriptor each | `open`, `write`, `setlevel`, collection; the file changes with the day | `open/ngxonly/only.lua`, hence every handler |
| database drivers, `open/lib/luasql` | environments, connections, statements, cursors | connect, execute, fetch, commit, close, collection | `mysql_pool_api.lua` uses the MySQL driver; the others are in the repository but are not built by `open/lib/Makefile` |
| sockets, `open/lib/luasocket` | descriptors, a read buffer, timeouts | create, bind, listen, accept, connect, send, receive, select, close | `open/linkup` outside nginx; redis.lua |
| codecs, `mime.c`, `cutils.c` | the context of a filter | base64, quoted-printable, line ends, dots, URLs | |
| blocking HTTP, `cutils.http` | a socket and a growing buffer | one request | scripts |
| nginx glue, other helpers | logs, counters | | |

The managers share three things: the database, the mounts and file systems of
the host, and the accounts of the operating system. None of the three is
locked, no operation that spans two of them is undone when its second half
fails, and each may be changed by another worker between two calls of a
handler. The one thing the database guarantees is uniqueness
(`tools/mysql/create_dbtb.sql`: `user_list.username`, `disk_list.uuid`).

What makes each component correct, and what is hard about it:

- **MySQL pool.** A statement must not be lost or repeated although `mysql_cmd`
  retries it after a broken connection; transactions must be all or nothing
  and leave the pooled handle in autocommit mode. Hard: the session dies
  between any two calls, before or after a statement took effect; two nested
  loops count attempts up to `MAX_RECNT`.
- **Users.** A registered user has an account with the registered password and
  no login shell; a removed user has none. Hard: the row and the account are
  changed by separate calls, in several workers, with a rollback that deletes
  the account by name; `userdel` and `usermod` may fail, and nobody looks.
- **Storage pool.** `/nfs` shows the disks of the table, each served by its own
  device; a disk in the table is not formatted again. Hard: `umount` is not
  checked, mounts stack and shadow each other, concurrent applies work from
  different readings of the table, and crashes leave half-made images.
- **Administrator.** Who logs in knows the secret in force. Hard: the first
  login inserts the row another first login may be inserting, or another worker
  already changing; an UPDATE may be reported as failed after it took effect.
- **Whole files.** What is pulled is what was pushed last. Hard: a push is
  visible in pieces, a pull opens the file twice, and a rename looks before it
  replaces.
- **Slice upload.** A completed file holds every slice whole. Hard: a complete
  consumes the parts as it goes, so a retry after a crash or a timeout finds
  them missing; late pushes overlap.
- **Trees.** A delete that answers SUCCESS leaves nothing behind; one that
  nobody disturbs succeeds. Hard: the walk defers directories and removes them
  sorted by the length of their path, while other workers change the tree.
- **Ring queue.** First in, first out, up to capacity. Hard: two cursors and a
  counter that have to agree through every wrap-around.
- **Redis pool.** Each request gets the reply to its own command. Hard: the
  rounds resend a command whose reply was lost, kept connections go stale, and
  members come and go while requests wait.
- **Hash ring.** A lookup is answered with the owner of the next hash, and a
  node that comes or goes moves only its own objects. Hard: a tree with
  hand-written fixups, replicas whose hashes collide, allocations that fail.
- **Objects of the C libraries** (log handles, cursors, sockets). What is open
  belongs to exactly one object, and what nobody can reach is given back. Hard:
  the collector frees objects in any order, and a call that fails half way has
  to undo what it locked, allocated or opened.
- **Streams, HTTP, codecs.** No byte lost, repeated or invented, whatever the
  pieces. Hard: the state carried from one piece to the next.

## 2. Modules

| module | what it is |
|---|---|
| `MysqlPool` | one worker's connection, `cmd()` with its rounds and transactions, and the server |
| `RedisPool` | requests of one worker, the pool, the client, kept connections and servers |
| `RbTree`, `ConHash`, `HashRing` | the red-black tree as operators, the ring of virtual nodes over it, and the abstract ring it implements |
| `LuaLog` | log handles, their files and the collector |
| `SqlDriver`, `SqliteDriver`, `FirebirdDriver`, `OdbcDriver` | the objects of four database drivers |
| `TcpSocket`, `UdpSocket` | socket objects and their descriptors |
| `BufferedStream` | one connected object: buffer, timeouts, select, the peer |
| `HttpAsk` | one call of `cutils.http` |
| `Bytes`, `Mime`, `UrlCodec`, `Filters` | loops over bytes, the codecs, and text fed through them in chunks |
| `Fifo`, `RingQueue` | the abstract bounded queue, and the ring buffer that implements it |
| `AccountManager` | creates and removes of users by several workers |
| `StoragePool` | appends and removes of disks by several workers, and `data_pool_apply` |
| `SliceUpload` | pushes and completes of one upload by several workers, and its client |
| `AdminAuth` | logins and changes of the administrator's secret by several workers, tokens and their key |
| `FileTransfer` | pushes, pulls and renames of files by several workers |
| `FileTree` | deletes, clears and creates in one user's tree by several workers |
| `MC*` | instances for TLC: definitions for constants, symmetry; `MCLuaData` and `MCLuaObjects` compose the libraries, `MCAccountManager` what is kept for accounts |
| `*Proofs` | the theorems of each module, with proofs |

`PROJECT.json` maps each definition to the lines it models. The models follow
the same conventions. Every call of a handler to the database, to a command or
to the file system is a step; what lies between two calls is local to the
worker and belongs to the step before. `pc[w]` is the call worker `w` makes
next, and the locals that outlive a call are in a record or in variables beside
it. A handler that does not get past its token or its arguments changes nothing
and is left out. `Crash` kills a worker between two calls; nginx starts another
one in its place. Definitions whose comment says *Mutant of* are plausible
mistakes in the definition of that name. They are not part of any
specification: each property below is shown to fail when one of them takes the
place of the original.

**MysqlPool.** `session` is what `OWN_MYSQL_POOLS` holds: nothing, a handle
with a live session, or one whose session is gone. `NewConnect` is one
iteration of `new_connect`; `Execute`, `Reject`, `Deadlock`, `Lost` and
`GoneAway` are the outcomes of one round of `mysql_cmd`, and `FlushPool` and
`Tally` what follows it (lines 219-231); `Affairs...` are the steps of the
transaction (lines 164-192). The server goes down, comes up and drops the
session at any time; a statement whose session breaks took effect or not
(`Lost`). `done[i]` counts durable effects of statement `i`. The loop over a
batch stops at an element that is not a table and answers as if the batch ended
there (lines 268-271), so a batch has as many statements as precede such an
element; one with none, answered false with nothing sent, is left out. No
caller passes a batch.

**RingQueue** has one action per function of `queue.lua`. The refinement
mapping to `Fifo` reads the window from `first` modulo `Capacity`.

**AccountManager.** `rows` and `account` are the two halves of a user. Actions
follow `api_user_create.lua` and `api_user_remove.lua` statement by statement.
A database call may fail before or after it took effect, which is what
`MysqlPool` shows of `cmd`, and each of `useradd`, `chpasswd`, `userdel` and
`usermod` may fail; `undeleted` and `stillOpen` are the users for whom an
unheeded failure of `userdel` or `usermod` left an account or the login shell.
The disks are there because a create first checks
that each disk of `disk_list` is present.

**AdminAuth.** `secret` is the secret in row 1 of `sys_info`; `fresh` says that
AUTO_INCREMENT has not counted yet, so that the next INSERT makes that row.
`act` is the request of each worker, with the token a login signs before it
looks at the secret. `promised` are the secrets that may be in force as far as
clients can tell from the answers: a change adds its own when it begins and,
answered SUCCESS, takes away all but its own and those of the changes it
overlapped. A killed worker's UPDATE takes effect by the time the worker is
gone, or never.

**FileTransfer.** A name leads to an inode, and an open file keeps its inode
whatever becomes of the name. A push truncates with the open, writes all but
the last block, and the last one with the close; both write at the offset of
their own descriptor, so that two pushes mix. A pull measures, opens again and
reads block by block. `known` is what each name holds as far as the answers
tell, which is nothing (`Unknown`) where requests overlapped or failed.

**StoragePool.** A UUID is the pair of a device and the number of the file
system on it. `nfs` is the stack of unions mounted on `/nfs`, `loops` are image
files mounted through a loop device, on the disk or, by mistake, on the root
file system. Every command of `data_pool_apply` is a step, and its result is
used exactly where the code uses it. `tidy` and `disturbed` are history
variables that say which requests ran alone and which disks were appended twice
at once.

**SliceUpload.** The parts and the destination hold each slice not at all, in
part, or in full. The client sends pushes, waits for each answer or gives up
(`Timeout`), resends, and completes when all are acknowledged; a request given
up may still be running in its worker.

**FileTree.** `kind` maps every path to nothing, a file or a directory. A walk
(`remove_path` and `clear_path`, which differ in what they do at the target)
is a record: `stack`, the directory `cur` it lists, the entries `left`, and
`later`, the code's `directories_to_delete`. A listing shows every entry that
was there when it began and stays, and may or may not show one that comes or
goes meanwhile, as POSIX has it for `readdir`. `disturbed` are the workers
below whose target another worker has changed something.

**RedisPool.** A request is a record: its commands, the round, the member, the
connection it holds and the results so far. Its `pc` names where the coroutine
is suspended; what runs between two suspensions is one step, as in nginx.
`conns` has what is under way in each direction of a connection, so a reply that
comes after its request has given up is there for the next one to find.

**RbTree, ConHash.** A tree is a record of parents, children and colours; the
node named by a key stands for its address, and the sentinel `_NULL` is a node
like the others, whose parent the code writes during a delete. A pointer to a
node that was freed has a value of its own (`Freed`): the model goes on as the
code would and says that the ring is lost when one is followed. The tree's
loops are recursive operators, so these modules are for TLC.

**LuaLog.** `pool` is the table of handles by name, with the entry "." for the
default one; a handle keeps its descriptor and the time its file was opened.
The collector may come to any handle outside the pool at any step. A name that
`open("")` leaves uninitialised is a nondeterministic choice. Descriptors count
from 1: `_initlog` tests `fd > 0` (line 235) and would not close descriptor 0,
which a process has open from its start.

**The drivers.** Objects are named before they exist; `refs` are those Lua code
can still reach, `registry` what a driver keeps in Lua's registry, and an
object may be collected when neither leads to it. Each driver keeps its owner
alive in its own way: by a reference of its own (MySQL), by one and a count of
cursors (SQLite), by a lock count (Firebird, ODBC). `misused` records a use of
memory that was given back, `spoilt` the failures the code does not undo, and
the properties say exactly what these lead to. Behind the objects: `stranded`
are MySQL connections whose client library was ended by the `close` of their
environment, after which they are used all the same; `stmts` are Firebird's
statement handles, by database, where `<<c, "left">>` is one that nobody has
any more (`DSQL_close` ends a cursor and keeps its handle, and an `execute` that
fails frees no handle); `bound` is what an ODBC statement's parameters are bound
to, buffers that are live or that a failed `execute` has freed. An execute reads
them (`ReadParams`).

**TcpSocket, UdpSocket.** `fd` are the kernel's descriptors. A connect or bind
through a list of addresses is a call in progress (`op`) that takes a step for
each address, as `inet_tryconnect` and `inet_trybind` do. `setpeername("*")`
ignores an error of the connect with AF_UNSPEC (`udp.c:408-410`); for a datagram
socket Linux gives none, and the model has none.

**BufferedStream.** The stream the peer sends is cut into what it has sent,
what the kernel holds, and the buffer; a call in progress keeps what it has
gathered, when it began and until when it waits. The caller resumes a receive
with its partial result, or with anything else.

**HttpAsk** counts bytes. An answer has a head, a body and `fields`: the places
where the name of the length occurs in it, in one of the four spellings
`http_get_body_length` looks for, in the head or in the body, with the end of
the line and the number that follow. `Found` is what `strstr` finds first in the
bytes that have come, `Reads` what `atol` makes of it. A buffer that `recv` has
filled has no NUL (lines 495, 526-529): unless every search finds what it looks
for (`RunsOn`), it goes on behind the buffer and may find an end of the head or
a number there (`Stray`). `overread` records that it did.

**Bytes, Mime, UrlCodec, Filters.** A codec of `mime.c` is a loop over the bytes
of a chunk, so it is `Loop(body, start, chunk)`, whose body is a function from
what it has made so far (the bytes it holds, what it has put out) and a byte:
`b64encode`, `qpdecode`, `qpwrpbyte(length)` and the others. The codecs are
functions and not recursive operators, so that they can be proved about.
`Filters` feeds texts through chains of codecs in chunks of any size, and
compares with the text that went in. It assumes lines of at least 4 bytes: an
escape and the "=" of the soft line break do not fit on shorter ones.

**The composed instances.** The libraries share no state with each other, so
`MCLuaData` and `MCLuaObjects` let each behaviour run one of them: `library`
says which, and the others keep still. `MCAccountManager` does so with the
users, the administrator and the files of a user (`serves`), which are in two
tables and on the pool. The drivers use the same variables for it. This composition is a device for checking and claims no interaction.

The modules meet at few points. A create of a user sees `disk_list` and the
disks as an environment that may change at any step, which covers every
behaviour of `StoragePool`; database calls in `AccountManager` and
`StoragePool` have the outcomes `MysqlPool` shows. The part files of an upload
lie in the user's tree, where a delete of `FileTree` may remove them: an upload
sees that as a part that is missing, which `SliceUpload` brings about only
through its own faults.

## 3. What is checked

Every passing run finishes, and each property it lists is broken by a mutant.

| run | instance | distinct states | properties |
|---|---|---|---|
| `mysql_pool` | 3 rounds (the code's `MAX_RECNT`), up to 2 statements | 4,592 | `AckedExactlyOnce`, `NeverTwice`, `AffairsAtomic`, `IdleSessionAutocommits`, `FreshRequestServed`, `Terminates` |
| `account_manager` | 2 workers and 1 user, 3 passwords of which 1 refused, 2 disks; or 3 secrets, 3 moments; or 1 file and 2 faults, or 2 names and 1 fault | 1,329,979 | `RowHasAccount`, `OneCreator`, `RollbackIsHarmless`, `RemovedIsGone`, `LoginIsCurrent`, `CalmIsAtomic` |
| `storage_pool` | 2 workers racing for 1 block device (2 formats, 1 failing umount), or 1 worker with 2 devices, block or image | 1,369,235 | `LayersBounded`, `RowsAreCurrent`, `CleanApplyServesTable` |
| `slice_upload` | 2 workers, 3 slices, 2 faults | 208,007 | `CompletedIsWhole`, `MissingOnlyAfterFault`, `Uploaded` |
| `file_tree` | 2 workers, 5 paths, every tree over them | 645,579 | `QuietSucceeds`, `AnsweredIsDone`, `Terminates` |
| `redis_pool` | 2 requests at once, 2 connections of which 1 is kept, 2 rounds, 3 faults, a member that is replaced | 1,101,744 | `ReplyIsOwn`, `RunsMatchAnswer`, `OneStaleIsAbsorbed` |
| `lua_data` | a queue of 3; a ring of 4 names with 2 replicas each, two of them colliding; a stream of 2 letters in or 3 out; an HTTP call to 2 addresses at most, into a buffer of 4 bytes; texts of up to 5 bytes | 575,650 | `WindowIsFull`, `ImplementsFifo`, `TreeIsRedBlack`, `LookupIsRight`, `OnlyOneNodesObjectsMove`, `ImplementsRing`, `StreamIsExact`, `WaitsWhenDue`, `AskIsSound`, `FiltersAreExact` |
| `lua_objects` | 2 log handles; per driver 1 or 2 connections, 2 cursors, 2 statements; 2 sockets, 2 descriptors | 1,085,479 | `DescriptorsAreOwned`, `RecordInItsDay`, `HandlesAreOwned`, `FreedIsUntouched`, `SocketsAreOwned`, `DroppedIsFreed` |

The type invariants (`TypeOK`) are proved for the modules of section 5.
Deadlock is checked where a worker can always take a request; `redis_pool`,
`lua_data` and `lua_objects` end when their bounded calls and bytes are used
up, or when the last object is collected, and say so.

In words:

- A request that `cmd` reports as done took effect exactly once
  (`AckedExactlyOnce`), a retry never repeats what took effect (`NeverTwice`),
  an interrupted batch leaves a prefix (`PrefixApplied`, proved), a transaction is all
  or nothing (`AffairsAtomic`) and leaves the session in autocommit mode
  (`IdleSessionAutocommits`). A request on a dead pooled session is still
  served (`FreshRequestServed`), except a transaction, whose inner `pcall`
  hides the error from the retry.
- A registered user has an account with the right password, and the login shell
  exactly if `usermod` failed (`RowHasAccount`); no two requests set up one
  account (`OneCreator`); the rollback of a refused password deletes only the
  request's own account (`RollbackIsHarmless`); a remove that answers SUCCESS
  removed the row, and the account unless `userdel` failed, and what a failed
  `userdel` leaves, of a remove or of a rollback, is never registered or changed
  until another remove has deleted it (`RemovedIsGone`). All four exclude names of which a create and a remove
  overlapped. For those the code promises nothing: a remove between `useradd`
  and the INSERT leaves a row without an account.
- A login succeeds only with a secret that may have been in force since it
  began (`LoginIsCurrent`): once a change is answered SUCCESS and those it
  overlapped are over, only its secret logs in, also when the INSERT of an
  earlier first login is still under way. Nothing is said of the id: an INSERT
  that fails after it took one leaves no row 1 for good, after which the
  default secret logs in every time and no change succeeds.
- Requests for files are as if atomic where no other request writes to the same
  name meanwhile (`CalmIsAtomic`): a pull gives the file that was pushed or
  renamed there last, or the blocks of its range, with the right lengths; a
  rename finds what the answers before it say. A crash or a failed write is
  made good by the next push. Overlapping pushes leave a mixture, and a pull
  that overlaps one may announce a length that its body does not have.
- At most one union per worker and per failed umount is stacked on `/nfs`
  (`LayersBounded`); the table names the file system that is on the disk
  unless the disk was appended twice at once or replugged during an append
  (`RowsAreCurrent`); a request that ran alone and met no failing mount leaves
  `/nfs` showing exactly the table, whatever was left behind by earlier
  races and crashes (`CleanApplyServesTable`).
- An upload answered SUCCESS is whole (`CompletedIsWhole`) if no request
  overlapped another on a part and no write failed, which the code does not
  notice; the client is told of a missing part only after a fault
  (`MissingOnlyAfterFault`), and gets its upload through in the end by pushing
  everything again (`Uploaded`).
- A delete answered SUCCESS has removed its target and all below it, whatever
  other workers did, and an undisturbed clear has emptied its target and kept
  it (`AnsweredIsDone`); only a disturbance makes a walk answer an error
  (`QuietSucceeds`); a walk ends once the others make nothing new below it
  (`Terminates`).

- A redis request is given the reply to its own command or none
  (`ReplyIsOwn`), except that of a batch a list may have been collected from
  the weak table and an error's text may stand for data; a command runs at most
  once in each round and an answered one ran (`RunsMatchAnswer`), so a caller
  may see a command run twice; the second round absorbs one stale connection,
  but not two (`OneStaleIsAbsorbed`).
- The hash ring's tree stays a red-black search tree (`TreeIsRedBlack`) and the
  ring answers like the abstract one (`ImplementsRing`, `LookupIsRight`), with
  a replica missing only if its hash was taken or its allocation failed; one
  node's coming or going moves objects only to or from it
  (`OnlyOneNodesObjectsMove`). A ring from which `conhash_del_node` deletes is
  excepted once it follows the freed parent of a new root
  (`util_rbtree.c:182`); the Lua binding does not export that call.
- A receive, however often it was cut off and resumed, and a send give exact
  results (`StreamIsExact`); select knows of buffered bytes
  and calls keep their timeouts (`WaitsWhenDue`). An HTTP
  answer given as ok is all that its peer sent before it ended, or has the length
  its head declares, and a call that times out had no whole answer
  (`AskIsSound`). This holds of a length in a line of the head with a blank before
  it, and unless another occurrence of the name, in the head or in the part of
  the body that came with it, is found in its place, or a search ran past the end
  of a full buffer; of the other answers the rule cuts some short and waits for
  others in vain. Sockets are closed, and memory is freed but for outgrown
  blocks (also `AskIsSound`). Codecs give back what they were given
  (`FiltersAreExact`).
- Every open log file belongs to one handle (`DescriptorsAreOwned`) and a
  record goes to a file of its day (`RecordInItsDay`), unless the rotation
  failed. Handles and locks of a driver agree with its open objects
  (`HandlesAreOwned`): of Firebird's statement handles those of open cursors have
  an owner, and the others are left with their database and go with it. No
  memory is used after it was given back (`FreedIsUntouched`) but, as the
  properties of the four modules name them: the result of a MySQL cursor that
  `nextresult` has moved; the client library under MySQL connections that were
  open when their environment was closed; Firebird's cursor that could not be
  named; ODBC's parameter buffers after an `execute` that failed to bind; an
  ODBC statement after an `execute` with parameters or with columns that could
  not be described. What Lua code lets go
  of is given back in the end (`DroppedIsFreed`). Every descriptor belongs to
  one socket object (`SocketsAreOwned`); the one exception is named in
  `TcpSocket` (`tcp.c:457`).

### Bounds

- *Two workers.* The hazards are races of two requests; the properties are
  stated of one request and the others, and the theorems hold for any number.
- *Three secrets*: the default, and two that changes put in its place. *Three
  moments* let a token expire, and a key be set twice. *Two texts* of different
  length tell a truncated file, a mixture and either push apart; two ranges
  begin in the file and at its end, and reach beyond it.
- *One user, one device where two workers run.* Names are keys: no action on
  one reads or writes what belongs to another. The exception is the union on
  `/nfs`, which is why `storage_pool` also has behaviours with two devices.
- *Three slices* have a first, a middle and a last one; the three steps of a
  complete (append, remove, close) differ between these and no others.
- *Five paths*: two directories in one another with a file or directory below,
  and a sibling whose path is longer than that of the deeper directory, so
  that order by length is not order by depth. All trees over these paths are
  initial states.
- *`MaxGen`, `MaxStuck`, `MaxFaults`* bound how often a device is formatted, a
  umount of `/nfs` fails, and requests crash or time out. Two formats are what
  a disturbed append needs; two faults are a crash and a crash during the
  retry.
- *Two requests, two connections, three faults* of redis: a reply that is late
  for its own request and meets another needs two requests, a kept connection
  and a fault; two stale connections in the two rounds need two.
- *Seven hashes in the ring*: enough nodes for every case of the insertion's
  and the deletion's fixup on both sides; one hash that two names share, and
  one failing allocation.
- *Two letters in, a buffer and a step of two bytes, two ticks of time*: every
  call can end inside the buffer, at its end and beyond it, and be cut off
  after each letter.
- *Texts of five bytes in chunks of at most two*: longer than a group of three,
  an escape or a line of four.
- *An HTTP buffer of 4 bytes* in front of answers of up to 12: it fills before
  the head is there, with it, and within the body. `MCFields` has the name of
  the length once, twice in different spellings, in the body, in the last line
  of the head and without a blank.
- *Two log handles, two days (`MaxDay` = 1)*: an older and a
  newer handle of one name, and one rotation.
- *Two of each object* of a driver: the last and not the last of its owner.
  MySQL and ODBC have one connection, since neither shares anything between
  connections but the environment's count. Two sockets and two descriptors: a
  descriptor number that is reused.
- *`MaxStmts` = 2* has a first and a last statement; `MaxRecnt` is the code's.

### Fairness

A worker's code blocks on calls that return and then goes on, so every `Spec`
with a liveness property has weak fairness of the steps of a request under way
(`WF_vars(Worker)`, `WF_vars(Step(w))`, `WF_vars(Work(w))`). Crashes, server
failures and new requests are owed by nobody. `SliceUpload` also assumes a
client that keeps sending (`WF_vars` of `Send`), and its faults are bounded:
without both no upload would have to finish. `Terminates` of `FileTree` assumes
that the other workers eventually make nothing new, because a walk can be kept
busy for ever by a worker that adds directories ahead of it. `DroppedIsFreed` assumes that the collector
comes to every object it may collect (`WF` of each finalizer), which a full
cycle of Lua's collector does, and nothing of the program.

## 4. What the runs disagree with

| run | what it shows |
|---|---|
| `mysql_report` | `mysql_cmd` counts a statement that succeeded in its last permitted round as failed (`mysql_pool_api.lua:229`): it took effect, and the log and the caller are told "this request failed!" |
| `pool_appended` | a disk of devtype VHD, which the documentation allows, is entered and answered SUCCESS and never mounted (`SM_utils.lua:267`) |
| `redis_reply` | `network.read` means to raise an error when a receive fails and tests the wrong value: the error's text is answered as if redis had sent it (`redis.lua:393`) |
| `slice_stored` | a push ignores the result of its write, logs "Upload one slice complete!" and answers SUCCESS (`api_opt_slice_push.lua:96`) |

Met without a run of its own:

- `optDelete` and `optClear` answer SUCCESS for a
path that is not there (`api_opt_delete.lua:30`), where their documentation
shows 20009, "path is not exists!". `DeleteBegin` and `ClearBegin` of
  `FileTree` do what the code does.
- `userCreate` answers "user is already exist!" for any failure of `useradd` or
  of the `chown` (`api_user_create.lua:83`), and the account a failed create
  leaves behind makes every later create of that name answer so.
- The results of `userdel` and `usermod` are not looked at
  (`api_user_remove.lua:51`, `api_user_create.lua:88-89` and 94): a remove
  answers SUCCESS with the account still there, and a create registers a user
  with a login shell. `RowHasAccount` and `RemovedIsGone` say how far that goes.
- `socket.connect4` and `connect6` restrict the family only when a local address
  is given: the family asked for reaches the bind alone (`tcp.c:452-473`), where
  `luasocket/docs/socket.html:105-112` promises a connection of that family.
- `add_to_pool` of the redis pool makes no queue for the member it adds
  (`redis_pool_api.lua:441-470`): requests to it fail until a restart.
- `env:close()` of the MySQL driver ends the client library and answers true
  while connections are open (`ls_mysql.c:633`), where the manual has it "Only
  successful if all connections pertaining to it were closed first"
  (`luasql/doc/us/manual.html:177-178`); the pool does this after every connect
  (`mysql_pool_api.lua:27`, 301). `stranded` are the connections concerned, and
  `MysqlIsSafe` says that they are exactly those open at the close.
- Failures the drivers do not undo: SQLite's statement that did not bind
  (`ls_sqlite3.c:511`), Firebird's attached database (`ls_firebird.c:1000`) and
  cursor read to its end (806), ODBC's statement with parameters
  (`ls_odbc.c:688`) or undescribed columns (591). `spoilt` records them.
- Firebird's driver drops a statement handle only for a count and for a cursor
  that was read to its end. `cur_shut` closes it (`ls_firebird.c:133-134`) and
  the error paths of `execute` (348-387, 440-451, 464-467) forget it, so that
  handles gather until the database is detached (`stmts`). On the last of those
  paths a userdata that is not filled in yet goes to the collector, whose
  finalizer reads it.
- ODBC's `execute` frees the buffers of the parameters of the time before
  (`ls_odbc.c:784`, 811) while the handle is still bound to them. When binding
  stops part way, the next `execute` without parameters has `SQLExecute` (677)
  read freed memory.
- The HTTP client looks for the length in all that has come, in four spellings
  in a fixed order (`cutils.c:376-413`): an occurrence in the body, or in a line
  whose blank comes later, takes the place of the declared one; and a buffer
  that is full has no NUL for `strstr` to stop at (495, 526-529).
- A Range header of several ranges, which `api_opt_pull.lua:9` means to parse,
  has to repeat `bytes=` before each; of the usual form only the first range is
  found, and of `bytes=5-` none, which is answered 416.
- The image of a disk is made as large as `df -h` tells, less 64M
  (`SM_utils.lua:233-236`). From ten units on `df -h` rounds up to whole ones,
  mostly by more than 64M, and `fallocate` fails; of "1.5T" `parse_size` keeps
  one byte.
- A UDP receive on a closed object answers an empty datagram.
- `qpwrp` with a line length below 4 cuts escapes in two, where its comment says
  "lines can't be broken in the middle of an encoded =XX"
  (`mime.c:696-697`).

## 5. What is proved

TLAPS checks every proof to the last leaf (with Z3, Zenon and LS4). The
theorems hold for every set of workers, users, paths, devices and objects, every
number of statements, slices and requests, every stream, and every capacity.
They cover every module but `ConHash` with `RbTree`; of the hash ring, what
`ConHash` implements is covered.

- `LinkupProofs`, the two pools. `MysqlPool`: type correctness and all six
  safety properties. `IInv` is `TransactionInv` (who may have a transaction
  open), `StatementInv` (what precedes the current statement took effect once,
  what follows did not run, and the current one only if its round returned) and
  `AffairsInv` (the statements of a transaction take effect together).
  `FreshRequestServed` needs a second invariant, `FreshInv`: an undisturbed
  request spends at most one round on finding its session dead, and reconnects
  at once. It assumes `MaxRecnt >= 3`, the code's value: with fewer rounds a
  dead session uses them up.
  `RedisPool`: `ReplyIsOwn`, `RunsMatchAnswer` and `OneStaleIsAbsorbed`, each
  from an invariant of its own. `ReplyInv`: a connection is held by at most one
  request, it answers one command at a time (`ConnOK`), and what is on its way
  to a request is the rest of the reply to the command it runs (`HolderOK`,
  `StreamOK`). `CountsInv`: what ran of a command and what still waits for a
  server to get to it are together no more than the rounds that sent it.
  `FailureNeedsStale`: each failed round of an undisturbed request has used up
  one of the connections the server had left when it began. The last assumes
  `MAX_RECNT >= 2`, the code's value.
- `LuaDataProofs`, five parts. The ring queue: cursors agree with the counter,
  exactly the window holds values, and from that `Spec => Fifo!Spec`; the
  arithmetic of the wrap-around is in lemmas of its own. The HTTP call
  (`AskIsSound`): which block and descriptor is held at each step; and, as long
  as no search has left the buffer, that the head is known once all of it has
  arrived, and that the length was read from what `strstr` finds first in the
  bytes seen then, so that only another occurrence there can hide the declared
  one. The waits (`WaitsWhenDue`): a wait
  ends by itself before its call may take no longer, and a select remembers
  bytes in a buffer. The bytes (`StreamIsExact`): what a receive has given, what
  its buffer holds and what the kernel holds are the stream in order
  (`FlowInv`), what it has put together is what it took (`PartInv`), and what a
  send answers is what the kernel has (`SentInv`). That leaving out carriage
  returns goes through the pieces of a line (`NoEnds`, a recursive function) is
  by induction, which the library's theorems offer only with an operator as
  parameter: `LeastNat` and `NatInd` state it for sets, from the well-foundedness
  of the naturals. The hash ring, as `HashRing` promises it: every lookup has
  exactly one answer unless the ring is empty (`RingAnswers`), and there is one
  node that every object that changes hands goes to or comes from
  (`OneNodesObjectsMoveHolds`), because an object that finds another place found
  one that was added, or loses one that was taken away. It needs that hash
  values are bounded below, as those of a C long are. That the tree implements
  this ring (`ImplementsRing`) is model-checked.
- `FiltersProofs`: `FiltersAreExact`, for every text, every way of cutting it
  into chunks, every line length from 4 on and both line markers. `FiltersInv`
  says of each pipe what its encoder's context stands for. In the wrapped pipes
  (`Sent64`, `SentQuoted`) the text fed is what has come back followed by what
  the encoder holds, and no line is too long (`LinesOK`). The encoder knows
  nothing of the lines, and the wrapper breaks them anywhere between two bytes
  that are not of one escape; so each piece that the encoder puts out is said to
  `Means` some bytes: from any place in a line, the decoder makes these bytes of
  the wrapped piece. It does so for the code of one group or byte (`Base64Four`,
  `UnitEscape`, `UnitPlain`, `UnitMarker`) and is closed under concatenation. A
  quoted-printable encoder keeps a blank or a CR until it knows that the line
  does not end there, which `Settled` bounds by two bytes. `EolOK` says that the
  normalized text is `Uniform` of the text fed, up to a line end that may still
  be half seen; `DotOK` that the unstuffed text is the text fed and that the
  state is where in a line it is. The URL codec's part is an induction over the
  text. All inductions are over the bytes of a string, by `NatInd`.
- `LuaObjectsProofs`, the objects of the C libraries. The log: a live handle owns
  its descriptor and no other does, one in the pool can be written to
  (`KeptIsOpen`), and its file is that of the day it was opened on; from that
  `DescriptorsAreOwned` and `RecordInItsDay`, and that a free descriptor is
  always found (a pigeonhole argument over `FS_Surjection`). The sockets
  (`TcpInv`, `UdpInv`): who owns which descriptor while a call re-makes it. The
  drivers, one invariant each (`SqlInv`, `LiteInv`, `FireSafe`, `OdbcInv`):
  references and counters of an object agree with the open objects below it;
  in Firebird and ODBC up to the clean-up calls that failed. `FireStmts` says
  where each statement handle of Firebird is, `OdbcInv` that freed buffers stay bound only
  after a parameter could not be bound (`OdbcBound`), and `SqlInv` that the
  library was ended under the connections that were open then. From them
  `SocketsAreOwned`, `HandlesAreOwned` and `FreedIsUntouched`.
- `AccountProofs`, three parts. `AccountManager`: type correctness, the
  invariant and all four properties. The heart is `OwnerInv`: who sets up an
  account finds it as its own last step left it, because `useradd` fails for a
  name that exists, so it elects one of the concurrent creates; `LeftInv` adds
  that an account a failed `userdel` left has no row and no such owner.
  `AdminAuth`:
  `AdminInv` says that the secret in force (the default while there is no row)
  is one that was promised, that a login under way has heard of every promise,
  and that changes under way have heard of each other: so a change to be
  answered has been followed only by those it overlapped, and what its answer
  takes away is not in force. `FileTransfer`: `CalmIsAtomic`. Its invariant
  says that a file has one name (`OneName`), that two requests which touch one
  name, one of them writing, are both in `clash` (`ClashInv`), that a name no
  request writes to holds what the answers told of it (`KnownInv`), and what a
  request outside `clash` has found, written or read so far (`CalmInv`). A
  rename takes who has the file open to the new name, where it may meet
  requests it had nothing to do with: both had met the rename. That a new file
  finds an inode needs one for each name and each server
  (`InodesAssumption`).
- `StoragePoolProofs`: type correctness, `LayersBounded`, `RowsAreCurrent` and
  `CleanApplyServesTable`. The first counts workers that have taken a union down and not yet put one
  back; the second needs that an undisturbed disk has one appender, which
  formats it only if it holds no file system. The third rests on `CleanInv`:
  while a request is tidy the others are idle (`TidyAlone`), so the table is
  still as it was read; each UUID has one row (`OneRow`), so unmounting the row
  at hand disturbs no other; and the rows taken from the list so far, but the
  one at hand and VHDs, are exactly those to be in the union, each on its disk
  (`MountedInv`). What earlier requests left mounted does not matter, because a
  mount that is still there makes the new one fail.
- `SliceUploadProofs`: type correctness and `CompletedIsWhole`, from what a
  complete at slice `c` knows of the slices before it, and that no
  acknowledged slice is being pushed; and `MissingOnlyAfterFault`, from
  `FaultFree`: while nothing failed and no requests met, the client waits for
  every request, and what it was told is stored is in its part until a
  complete, which finds every part, has appended it.
- `FileTreeProofs`: type correctness, the invariant, `QuietSucceeds` and
  `AnsweredIsDone`, for every tree. The invariant says of an undisturbed walk
  that the directories it knows are there (`StillThere`), that it cannot find
  one twice because it has listed their parents (`FoundOnce`), that it knows
  every child of a directory it has put off (`Kept`) and that the listing
  accounts for every child of the current one (`Accounted`). When the sweep
  takes the longest path, no known directory is its child
  (`LongestIsDeepest`), and all its children are known: so it is empty. A
  delete's target is known to the end, so the last directory removed is the
  target. That `Paths` is closed under prefixes and that a path is longer than
  those above it (`PathsAssumption`) is all that is assumed of paths.

The assumptions on constants are the `ASSUME`s of the modules; TLC evaluates
them on every run.

Only model-checked: liveness (`Terminates`, `Uploaded`, `DroppedIsFreed`), which
this prover cannot treat; and the tree of the hash ring (`TreeIsRedBlack`,
`LookupIsRight`, `OnlyOneNodesObjectsMove`, `ImplementsRing`), whose insertion
and deletion loop over the nodes by recursive operators: no theorem can be
stated in a module that reaches a `RECURSIVE` operator.

## 6. What is not modelled

- Not yet: the stored-procedure path of `mysql_pool_api.lua` (lines 122-162 and
  294-399; no manager calls it, and it drops a connection in each round), the
  rename of directories, the path rules, image sizes.
- Left out for good: read-only handlers (lists, info), which are one query or
  one stat; the http pool, whose client is not in the repository; the nginx
  glue, which keeps no state the managers read back; the drivers for Oracle,
  PostgreSQL and SQLite 2, which are not built; luasocket's clients (`http.lua`,
  `ftp.lua`, `smtp.lua`), Unix sockets and Windows code, which nothing uses;
  deployment scripts, from which the models take only the schema's uniqueness
  and the number of workers.
- Inside the modelled parts: contents of files (`FileTree`), symbolic links,
  which no request can make, paths that name one place twice through `.` and
  `..`, out-of-memory in a worker, the conversion of columns in the drivers,
  socket options, the hash function of the ring, and the wording of answers and
  logs.

The properties leave out what the code gives no protection from, by history
variables, and for these cases they would catch nothing: `clash` (a pull, push
or rename that met a writer of its names), `disturbed` (a disk appended twice at
once), `tidy` (a request that did not run alone, or did not get to the end of
`data_pool_apply`), `spoiled` (an upload whose requests overlapped on a part),
`lost` (a ring that followed a freed parent), `advanced` (a MySQL cursor after
`nextresult`), `spoilt` (failures a driver does not undo), `overread` (a search
behind a full buffer). The runs reach these states; the properties then say what
still holds, if anything. Two handles of one log name, which the collection of
an older handle makes possible (`lualog.c:470`), satisfy the properties of the
log: both write to the right file.

Some other hazards are modelled without a property, because the code promises
nothing: a failed `mkfs` enters a row without a UUID, which stops every later
apply; a complete that fails has already emptied the old destination; a create
or a clear of a file may meet another worker's between its check and its open;
a remove between `useradd` and the INSERT leaves a row without an account.

## 7. Plan

In this order; each module gets theorems where it says so. The properties of a
new module join the run nearest to it.

1. **ImageSize** (`SM_utils.lua` 53-80 and 228-236): `parse_size`,
   `format_size`, `adjust_size` over bounded inputs: units, the rounding up of
   `df -h`, and the "T" that is not parsed.
2. **FileOps**: the rename of directories added to `FileTree`, with the theorem
   that `IsTree` is kept, and the path rules (`is_normalize_path`) against a
   reference definition: an accepted path stays in the user's directory.
3. The procedure path in `MysqlPool`.
4. Proofs: `RbTree` with its loops as functions, as those of the codecs are:
   that insertion and deletion keep the tree red-black and in order, and from
   that `LookupIsRight` and `ImplementsRing` of `ConHash`.
