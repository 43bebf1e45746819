------------------------------ MODULE LuaLog ------------------------------
(***************************************************************************)
(* The lualog library (lualog.c) in one Lua state: log handles are         *)
(* userdata found by name in a pool, whose entry "." is the handle that    *)
(* write() uses.  A handle opens a file of its directory for each day.     *)
(* Nothing but the collector closes a handle, and it runs at any time.     *)
(* Lua code outside the library keeps at most one handle of its own, as    *)
(* only.lua does while it logs to another file.                            *)
(***************************************************************************)
EXTENDS Integers, FiniteSets

CONSTANTS
  Names,      \* base names of logs
  Paths,      \* directories, among them the default one
  Levels,     \* what setlevel() is called with
  Handles,    \* the userdata that can be alive at once
  MaxDay,     \* bound: the last day
  Nil         \* Lua's nil, NULL, and "no descriptor"

DefaultKey == "."
DefaultPath == "."
gLevel == <<"D", "I", "W", "E", "S", "F">>

(* Descriptors count from 1, as 0 is open already in an nginx worker and   *)
(* under the lua command; a file that were opened as 0 would not be closed *)
(* by _initlog, which tests for fd > 0.                                    *)
LogFds == 1 .. Cardinality(Handles) + 1

(* struct LogHdl, and what a descriptor is open on.                        *)
LogStructs == [fd : LogFds \union {Nil}, creattm : (0 .. MaxDay) \union {Nil},
               name : Names, path : Paths]
LogFiles == Paths \X (0 .. MaxDay) \X Names

ASSUME LogHandlesAssumption == IsFiniteSet(Handles)
ASSUME LogPathsAssumption == DefaultPath \in Paths
ASSUME LogDaysAssumption == MaxDay \in Nat
ASSUME LogNilAssumption ==
  /\ Nil \notin Handles /\ Nil \notin Paths /\ Nil \notin LogFds
  /\ Nil \notin LogStructs /\ Nil \notin LogFiles

VARIABLES
  day,        \* the local date
  logpath,    \* the directory for names without one
  level,      \* the index in gLevel below which nothing is written
  pool,       \* name -> handle
  loghdl,     \* the struct of each handle, Nil when it is not allocated
  kept,       \* a handle that Lua code outside the library holds
  files,      \* descriptor -> <<directory, day, name>>
  barred,     \* the directories where a file cannot be opened
  record      \* history: where the record went that was just written

logVars == <<day, logpath, level, pool, loghdl, kept, files, barred, record>>

Allocated == {h \in Handles : loghdl[h] # Nil}

(* luaopen_lualog                                                          *)
LogInit ==
  /\ day = 0
  /\ logpath = DefaultPath
  /\ level = 1
  /\ pool = [k \in Names \union {DefaultKey} |-> Nil]
  /\ loghdl = [h \in Handles |-> Nil]
  /\ kept = Nil
  /\ files = [f \in LogFds |-> Nil]
  /\ barred = {}
  /\ record = Nil

(* Mutant: the descriptor of the file before is forgotten.                 *)
InitLogKeepsOld(hdl, today) ==
  LET fd == CHOOSE f \in LogFds : files[f] = Nil
      dated == [hdl EXCEPT !.creattm = today]
  IN IF hdl.path \in barred \/ \A f \in LogFds : files[f] # Nil
     THEN [fd |-> Nil, hdl |-> dated, files |-> files]
     ELSE [fd    |-> fd,
           hdl   |-> [dated EXCEPT !.fd = fd],
           files |-> [files EXCEPT ![fd] = <<hdl.path, today, hdl.name>>]]

(* _initlog of a struct whose name and directory are set: the date is      *)
(* stored before the file is opened, the old descriptor closed after.      *)
InitLog(hdl, today) ==
  LET fd == CHOOSE f \in LogFds : files[f] = Nil
      dated == [hdl EXCEPT !.creattm = today]
  IN IF hdl.path \in barred
     THEN [fd |-> Nil, hdl |-> dated, files |-> files]
     ELSE [fd    |-> fd,
           hdl   |-> [dated EXCEPT !.fd = fd],
           files |-> [f \in LogFds |-> CASE f = fd -> <<hdl.path, today, hdl.name>>
                                      [] f = hdl.fd -> Nil
                                      [] OTHER -> files[f]]]

(* _openlog of a file with or without a directory.  Only a bare name is    *)
(* found in the pool; a handle that cannot open its file is left to the    *)
(* collector.                                                              *)
OpenLog(dir, name) ==
  LET found == IF dir = Nil THEN pool[name] ELSE Nil
  IN \/ /\ found # Nil
        /\ pool' = [pool EXCEPT ![DefaultKey] = found]
        /\ UNCHANGED <<loghdl, files>>
     \/ /\ found = Nil
        /\ \E h \in Handles \ Allocated :
             LET r == InitLog([fd |-> Nil, creattm |-> Nil, name |-> name,
                               path |-> IF dir = Nil THEN logpath ELSE dir], day)
             IN /\ loghdl' = [loghdl EXCEPT ![h] = r.hdl]
                /\ files' = r.files
                /\ pool' = IF r.fd = Nil THEN pool
                           ELSE [pool EXCEPT ![name] = h, ![DefaultKey] = h]

(* Mutant: the years are compared as they are meant to be.                 *)
IsStaleFixed(hdl, today) == hdl.creattm # today

(* Whether a record of today needs a file of its own: the year is compared *)
(* with twelve times the year of the file, so every record does.           *)
IsStale(hdl, today) == TRUE

(* _checklevel                                                             *)
Passes(lv) == \E i \in DOMAIN gLevel : gLevel[i] = lv /\ i >= level

(* _writelogbyhdlwrap and _writelogtofile.  The time of the record is      *)
(* taken first, _initlog takes its own: midnight may fall between.         *)
WriteLogToFile(h, lv) ==
  /\ Passes(lv)
  /\ \E today \in {day, day + 1} \intersect 0 .. MaxDay :
       /\ day' = today
       /\ IF h = Nil
          THEN /\ record' = [file |-> Nil, stamp |-> day, by |-> today]
               /\ UNCHANGED <<loghdl, files>>
          ELSE LET r == IF IsStale(loghdl[h], day) THEN InitLog(loghdl[h], today)
                        ELSE [fd |-> loghdl[h].fd, hdl |-> loghdl[h], files |-> files]
               IN /\ loghdl' = [loghdl EXCEPT ![h] = r.hdl]
                  /\ files' = r.files
                  /\ record' = [stamp |-> day, by |-> today,
                                file |-> IF r.fd = Nil THEN Nil ELSE r.files[r.fd]]

(* _writelog and _writefulllog: to the default handle, if there is one.    *)
WriteLog(lv) ==
  /\ WriteLogToFile(pool[DefaultKey], lv)
  /\ UNCHANGED <<logpath, level, pool, kept, barred>>

(* _writelogbyhdl and _writefulllogbyhdl                                   *)
WriteLogByHdl(lv) ==
  /\ kept # Nil
  /\ WriteLogToFile(kept, lv)
  /\ UNCHANGED <<logpath, level, pool, kept, barred>>

(* _flushlog: the file is opened again.                                    *)
FlushLog ==
  /\ kept # Nil
  /\ LET r == InitLog(loghdl[kept], day)
     IN loghdl' = [loghdl EXCEPT ![kept] = r.hdl] /\ files' = r.files
  /\ UNCHANGED <<day, logpath, level, pool, kept, barred>>

Open ==
  /\ \E dir \in Paths \union {Nil}, name \in Names : OpenLog(dir, name)
  /\ UNCHANGED <<day, logpath, level, kept, barred>>

(* _closelog, which the collector calls.  The entry of the handle's name   *)
(* goes, whichever handle it is by now.                                    *)
CloseLog(h) ==
  /\ loghdl[h] # Nil
  /\ h \notin {pool[k] : k \in DOMAIN pool} \union {kept}
  /\ pool' = [pool EXCEPT ![loghdl[h].name] = Nil,
                          ![DefaultKey] = IF @ = h THEN Nil ELSE @]
  /\ files' = [f \in LogFds |-> IF f = loghdl[h].fd THEN Nil ELSE files[f]]
  /\ loghdl' = [loghdl EXCEPT ![h] = Nil]
  /\ UNCHANGED <<day, logpath, level, kept, barred>>

(* _closeall without a name: a new pool.                                   *)
CloseAll ==
  /\ pool' = [k \in DOMAIN pool |-> Nil]
  /\ UNCHANGED <<day, logpath, level, loghdl, kept, files, barred>>

(* _closeall of a name: its entry goes, and nothing else.                  *)
CloseName(k) ==
  /\ pool' = [pool EXCEPT ![k] = Nil]
  /\ UNCHANGED <<day, logpath, level, loghdl, kept, files, barred>>

Clamp(n) == IF n < 0 THEN 0 ELSE IF n > 5 THEN 5 ELSE n

(* _setlevel                                                               *)
SetLevel(n) ==
  /\ level' = Clamp(n) + 1
  /\ UNCHANGED <<day, logpath, pool, loghdl, kept, files, barred>>

(* _setpath                                                                *)
SetPath(p) ==
  /\ logpath' = p
  /\ UNCHANGED <<day, level, pool, loghdl, kept, files, barred>>

(* only.lua, while it logs elsewhere: obj = pool["."], and back again.     *)
Keep ==
  /\ kept' = pool[DefaultKey]
  /\ UNCHANGED <<day, logpath, level, pool, loghdl, files, barred>>

PutBack ==
  /\ pool' = [pool EXCEPT ![DefaultKey] = kept]
  /\ kept' = Nil
  /\ UNCHANGED <<day, logpath, level, loghdl, files, barred>>

Midnight ==
  /\ day < MaxDay
  /\ day' = day + 1
  /\ UNCHANGED <<logpath, level, pool, loghdl, kept, files, barred>>

(* A directory can no longer be written to, or can be again.               *)
Permissions ==
  /\ \E p \in Paths : barred' = (barred \ {p}) \union ({p} \ barred)
  /\ UNCHANGED <<day, logpath, level, pool, loghdl, kept, files>>

LogNext ==
  \/ \E lv \in {"D", "F"} : WriteLog(lv) \/ WriteLogByHdl(lv)
  \/ /\ record' = Nil
     /\ \/ Open \/ FlushLog \/ CloseAll \/ Keep \/ PutBack \/ Midnight \/ Permissions
        \/ \E h \in Handles : CloseLog(h)
        \/ \E k \in DOMAIN pool : CloseName(k)
        \/ \E n \in Levels : SetLevel(n)
        \/ \E p \in Paths : SetPath(p)
-----------------------------------------------------------------------------
(* However opens, rotations, failures and the collector interleave, no     *)
(* descriptor is lost or shared: each belongs to one allocated handle and  *)
(* is open on a file of that handle's name and directory; and what the     *)
(* pool holds is allocated and open.                                       *)
DescriptorsAreOwned ==
  /\ \A f \in LogFds : files[f] # Nil => \E h \in Allocated : loghdl[h].fd = f
  /\ \A h \in Allocated : loghdl[h].fd # Nil =>
       /\ files[loghdl[h].fd] # Nil
       /\ files[loghdl[h].fd][1] = loghdl[h].path
       /\ files[loghdl[h].fd][3] = loghdl[h].name
       /\ \A g \in Allocated \ {h} : loghdl[g].fd # loghdl[h].fd
  /\ \A k \in DOMAIN pool : pool[k] # Nil =>
       pool[k] \in Allocated /\ loghdl[pool[k]].fd # Nil

(* A record goes to the file of its own day, or of the day that began      *)
(* while it was written, whatever openings failed before; it is never in   *)
(* the file the handle was left with by a rotation that failed.            *)
RecordInItsDay ==
  record # Nil /\ record.file # Nil => record.file[2] \in record.stamp .. record.by
=============================================================================
