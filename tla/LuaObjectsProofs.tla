-------------------------- MODULE LuaObjectsProofs --------------------------
(***************************************************************************)
(* Proofs about the libraries whose objects Lua code or the collector      *)
(* closes: log handles, the objects of the database drivers, sockets.      *)
(***************************************************************************)
EXTENDS MCLuaObjects, FiniteSetTheorems, TLAPS

-----------------------------------------------------------------------------
(* Log handles.                                                            *)

LogTypeOK ==
  /\ day \in 0 .. MaxDay
  /\ logpath \in Paths
  /\ pool \in [Names \union {DefaultKey} -> Handles \union {Nil}]
  /\ loghdl \in [Handles -> LogStructs \union {Nil}]
  /\ kept \in Handles \union {Nil}
  /\ files \in [LogFds -> LogFiles \union {Nil}]

(* A handle that Lua code keeps is one that could be opened.               *)
KeptIsOpen == kept # Nil => kept \in Allocated /\ loghdl[kept].fd # Nil

LogInv == LogTypeOK /\ DescriptorsAreOwned /\ KeptIsOpen /\ RecordInItsDay

(* There are more descriptors than handles, and no handle has two: one is  *)
(* free.                                                                   *)
LEMMA FreeDescriptor ==
  ASSUME LogTypeOK, DescriptorsAreOwned
  PROVE  \E f \in LogFds : files[f] = Nil
<1> SUFFICES ASSUME \A f \in LogFds : files[f] # Nil
             PROVE  FALSE
  OBVIOUS
<1> DEFINE owner == [f \in LogFds |-> CHOOSE h \in Allocated : loghdl[h].fd = f]
<1>1. \A f \in LogFds : owner[f] \in Handles /\ loghdl[owner[f]].fd = f
  BY DEF DescriptorsAreOwned, Allocated
<1>2. Cardinality(Handles) \in Nat
  BY LogHandlesAssumption, FS_CardinalityType DEF LogHandlesAssumption
<1>3. IsFiniteSet(LogFds) /\ Cardinality(LogFds) = Cardinality(Handles) + 1
  BY <1>2, FS_Interval DEF LogFds
<1>4. owner \in [LogFds -> Handles]
  BY <1>1
<1> HIDE DEF owner
<1>5. \E f, g \in LogFds : f # g /\ owner[f] = owner[g]
  BY <1>2, <1>3, <1>4, LogHandlesAssumption, FS_PigeonHole DEF LogHandlesAssumption
<1>6. QED
  BY <1>1, <1>5

(* _initlog, of a handle that has a descriptor or of a new struct.         *)
Initialized(h, hdl, today) ==
  LET r == InitLog(hdl, today)
  IN loghdl' = [loghdl EXCEPT ![h] = r.hdl] /\ files' = r.files

LEMMA InitLogOwns ==
  ASSUME LogTypeOK, DescriptorsAreOwned, NEW h \in Handles, NEW hdl \in LogStructs,
         NEW today \in 0 .. MaxDay,
         IF h \in Allocated THEN hdl = loghdl[h] ELSE hdl.fd = Nil,
         Initialized(h, hdl, today)
  PROVE  /\ loghdl' \in [Handles -> LogStructs \union {Nil}]
         /\ files' \in [LogFds -> LogFiles \union {Nil}]
         /\ Allocated' = Allocated \union {h}
         /\ \A g \in Handles \ {h} : loghdl'[g] = loghdl[g]
         /\ hdl.fd # Nil \/ InitLog(hdl, today).fd # Nil => loghdl'[h].fd # Nil
         /\ InitLog(hdl, today).fd # Nil =>
              files'[InitLog(hdl, today).fd] = <<hdl.path, today, hdl.name>>
         /\ \A f \in LogFds : files'[f] # Nil => \E g \in Allocated' : loghdl'[g].fd = f
         /\ \A x \in Allocated' : loghdl'[x].fd # Nil =>
              /\ files'[loghdl'[x].fd] # Nil
              /\ files'[loghdl'[x].fd][1] = loghdl'[x].path
              /\ files'[loghdl'[x].fd][3] = loghdl'[x].name
              /\ \A g \in Allocated' \ {x} : loghdl'[g].fd # loghdl'[x].fd
<1> DEFINE free == CHOOSE f \in LogFds : files[f] = Nil
           dated == [hdl EXCEPT !.creattm = today]
           new == <<hdl.path, today, hdl.name>>
<1>1. free \in LogFds /\ files[free] = Nil
  BY FreeDescriptor
<1>2. new \in LogFiles /\ new # Nil /\ new[1] = hdl.path /\ new[3] = hdl.name
  BY LogNilAssumption DEF LogNilAssumption, LogFiles, LogStructs
<1>3. /\ dated \in LogStructs /\ dated # Nil
      /\ dated.fd = hdl.fd /\ dated.path = hdl.path /\ dated.name = hdl.name
  BY LogNilAssumption DEF LogNilAssumption, LogStructs
<1>4. free # Nil
  BY <1>1, LogNilAssumption DEF LogNilAssumption
<1>5. CASE hdl.path \in barred
  <2>1. InitLog(hdl, today) = [fd |-> Nil, hdl |-> dated, files |-> files]
    BY <1>5 DEF InitLog
  <2>2. /\ loghdl' = [loghdl EXCEPT ![h] = dated]
        /\ files' = files /\ InitLog(hdl, today).fd = Nil
    BY <2>1 DEF Initialized
  <2> HIDE DEF dated, free, new
  <2>3. Allocated' = Allocated \union {h}
    BY <2>2, <1>3 DEF Allocated, LogTypeOK
  <2>4. h \notin Allocated => loghdl'[h].fd = Nil
    BY <2>2, <1>3 DEF LogTypeOK
  <2>5. h \in Allocated =>
          /\ loghdl'[h].fd = loghdl[h].fd /\ loghdl'[h].path = loghdl[h].path
          /\ loghdl'[h].name = loghdl[h].name
    BY <2>2, <1>3 DEF LogTypeOK
  <2>6. \A g \in Handles \ {h} : loghdl'[g] = loghdl[g]
    BY <2>2 DEF LogTypeOK
  <2>7. /\ loghdl' \in [Handles -> LogStructs \union {Nil}]
        /\ files' \in [LogFds -> LogFiles \union {Nil}]
        /\ loghdl'[h].fd = hdl.fd
    BY <2>2, <1>3 DEF LogTypeOK
  <2>8. QED
    BY <2>2, <2>3, <2>4, <2>5, <2>6, <2>7 DEF DescriptorsAreOwned, Allocated
<1>6. CASE hdl.path \notin barred
  <2> DEFINE opened == [dated EXCEPT !.fd = free]
             table == [f \in LogFds |-> CASE f = free -> new
                                          [] f = hdl.fd -> Nil
                                          [] OTHER -> files[f]]
  <2>1. InitLog(hdl, today) = [fd |-> free, hdl |-> opened, files |-> table]
    BY <1>6 DEF InitLog
  <2>2. /\ loghdl' = [loghdl EXCEPT ![h] = opened]
        /\ files' = table /\ InitLog(hdl, today).fd = free
    BY <2>1 DEF Initialized
  <2>3. /\ opened \in LogStructs /\ opened # Nil /\ opened.fd = free
        /\ opened.path = hdl.path /\ opened.name = hdl.name
    BY <1>1, <1>3, LogNilAssumption DEF LogNilAssumption, LogStructs
  <2>4. free # hdl.fd
    BY <1>1, <1>4 DEF DescriptorsAreOwned
  <2> HIDE DEF opened, dated, new, free
  <2>5. /\ files'[free] = new
        /\ hdl.fd \in LogFds => files'[hdl.fd] = Nil
        /\ \A f \in LogFds \ {free, hdl.fd} : files'[f] = files[f]
        /\ files' \in [LogFds -> LogFiles \union {Nil}]
    BY <2>2, <2>4, <1>1, <1>2 DEF LogTypeOK
  <2> HIDE DEF table
  <2>6. /\ loghdl'[h] = opened
        /\ \A g \in Handles \ {h} : loghdl'[g] = loghdl[g]
        /\ loghdl' \in [Handles -> LogStructs \union {Nil}]
    BY <2>2, <2>3 DEF LogTypeOK
  <2>7. Allocated' = Allocated \union {h}
    BY <2>6, <2>3 DEF Allocated, LogTypeOK
  <2>8. \A g \in Allocated \ {h} : loghdl[g].fd # free
    BY <1>1, <1>4 DEF DescriptorsAreOwned
  <2>9. \A g \in Allocated \ {h} : hdl.fd # Nil => loghdl[g].fd # hdl.fd
    BY DEF DescriptorsAreOwned
  <2>10. hdl.fd # Nil => hdl.fd \in LogFds
    BY DEF LogStructs
  <2>11. \A f \in LogFds : files'[f] # Nil => \E g \in Allocated' : loghdl'[g].fd = f
    <3> SUFFICES ASSUME NEW f \in LogFds, files'[f] # Nil
                 PROVE  \E g \in Allocated' : loghdl'[g].fd = f
      OBVIOUS
    <3>1. CASE f = free
      BY <3>1, <2>3, <2>6, <2>7
    <3>2. CASE f # free
      <4>1. f # hdl.fd /\ files[f] # Nil
        BY <3>2, <2>5
      <4>2. PICK g \in Allocated : loghdl[g].fd = f
        BY <4>1 DEF DescriptorsAreOwned
      <4>3. g # h
        BY <4>1, <4>2
      <4>4. QED
        BY <4>2, <4>3, <2>6, <2>7 DEF Allocated
    <3>3. QED
      BY <3>1, <3>2
  <2>12. ASSUME NEW x \in Allocated', loghdl'[x].fd # Nil
         PROVE  /\ files'[loghdl'[x].fd] # Nil
                /\ files'[loghdl'[x].fd][1] = loghdl'[x].path
                /\ files'[loghdl'[x].fd][3] = loghdl'[x].name
                /\ \A g \in Allocated' \ {x} : loghdl'[g].fd # loghdl'[x].fd
    <3>1. CASE x = h
      BY <3>1, <2>3, <2>5, <2>6, <2>7, <2>8, <1>2 DEF Allocated
    <3>2. CASE x # h
      <4>1. x \in Allocated /\ loghdl'[x] = loghdl[x]
        BY <3>2, <2>6, <2>7 DEF Allocated
      <4>2. loghdl[x] \in LogStructs
        BY <4>1 DEF LogTypeOK, Allocated
      <4>3. loghdl[x].fd \in LogFds
        BY <2>12, <4>1, <4>2 DEF LogStructs
      <4>4. files'[loghdl[x].fd] = files[loghdl[x].fd]
        BY <4>1, <4>3, <3>2, <2>5, <2>8, <2>9, <2>12 DEF Allocated
      <4>5. \A g \in Allocated' \ {x} : loghdl'[g].fd # loghdl'[x].fd
        BY <4>1, <3>2, <2>12, <2>3, <2>6, <2>7, <2>8 DEF Allocated, DescriptorsAreOwned
      <4>6. QED
        BY <4>1, <4>4, <4>5, <2>12 DEF DescriptorsAreOwned
    <3>3. QED
      BY <3>1, <3>2
  <2>13. InitLog(hdl, today).fd # Nil =>
           files'[InitLog(hdl, today).fd] = <<hdl.path, today, hdl.name>>
    BY <2>2, <2>5 DEF new
  <2>14. loghdl'[h].fd # Nil
    BY <2>3, <2>6, <1>4
  <2>15. QED
    BY <2>5, <2>6, <2>7, <2>11, <2>12, <2>13, <2>14
<1>7. QED
  BY <1>5, <1>6

LEMMA LogInit0 == LogInit => LogInv
<1> SUFFICES ASSUME LogInit
             PROVE  LogInv
  OBVIOUS
<1>1. LogTypeOK
  BY LogPathsAssumption, LogDaysAssumption
  DEF LogInit, LogTypeOK, LogPathsAssumption, LogDaysAssumption
<1>2. DescriptorsAreOwned
  BY DEF LogInit, DescriptorsAreOwned, Allocated
<1>3. QED
  BY <1>1, <1>2 DEF LogInit, LogInv, KeptIsOpen, RecordInItsDay

(* A handle in the pool, or kept by Lua code, can be opened again.         *)
LEMMA WriteKeeps ==
  ASSUME LogInv, NEW h \in Handles \union {Nil}, NEW lv,
         h # Nil => h \in Allocated /\ loghdl[h].fd # Nil,
         WriteLogToFile(h, lv), UNCHANGED <<logpath, level, pool, kept, barred>>
  PROVE  LogInv'
<1> USE DEF LogInv
<1>1. PICK today \in {day, day + 1} \intersect 0 .. MaxDay :
        /\ day' = today
        /\ IF h = Nil
           THEN /\ record' = [file |-> Nil, stamp |-> day, by |-> today]
                /\ UNCHANGED <<loghdl, files>>
           ELSE LET r == IF IsStale(loghdl[h], day) THEN InitLog(loghdl[h], today)
                         ELSE [fd |-> loghdl[h].fd, hdl |-> loghdl[h], files |-> files]
                IN /\ loghdl' = [loghdl EXCEPT ![h] = r.hdl]
                   /\ files' = r.files
                   /\ record' = [stamp |-> day, by |-> today,
                                 file |-> IF r.fd = Nil THEN Nil ELSE r.files[r.fd]]
  BY DEF WriteLogToFile
<1>2. CASE h = Nil
  <2>1. LogTypeOK'
    BY <1>1, <1>2 DEF LogTypeOK
  <2>2. DescriptorsAreOwned' /\ KeptIsOpen'
    BY <1>1, <1>2 DEF DescriptorsAreOwned, KeptIsOpen, Allocated
  <2>3. RecordInItsDay'
    BY <1>1, <1>2 DEF RecordInItsDay
  <2>4. QED
    BY <2>1, <2>2, <2>3
<1>3. CASE h # Nil
  <2> DEFINE r == InitLog(loghdl[h], today)
  <2>1. /\ loghdl' = [loghdl EXCEPT ![h] = r.hdl] /\ files' = r.files
        /\ record' = [stamp |-> day, by |-> today,
                      file |-> IF r.fd = Nil THEN Nil ELSE r.files[r.fd]]
    BY <1>1, <1>3 DEF IsStale
  <2>2. h \in Handles /\ h \in Allocated /\ loghdl[h].fd # Nil
    BY <1>3
  <2>3. loghdl[h] \in LogStructs
    BY <2>2 DEF LogTypeOK, Allocated
  <2>4. Initialized(h, loghdl[h], today)
    BY <2>1 DEF Initialized
  <2>5. today \in 0 .. MaxDay /\ (today = day \/ today = day + 1)
    OBVIOUS
  <2>6. /\ loghdl' \in [Handles -> LogStructs \union {Nil}]
        /\ files' \in [LogFds -> LogFiles \union {Nil}]
        /\ Allocated' = Allocated \union {h}
        /\ \A g \in Handles \ {h} : loghdl'[g] = loghdl[g]
        /\ loghdl'[h].fd # Nil
        /\ r.fd # Nil => files'[r.fd] = <<loghdl[h].path, today, loghdl[h].name>>
        /\ \A f \in LogFds : files'[f] # Nil => \E g \in Allocated' : loghdl'[g].fd = f
        /\ \A x \in Allocated' : loghdl'[x].fd # Nil =>
             /\ files'[loghdl'[x].fd] # Nil
             /\ files'[loghdl'[x].fd][1] = loghdl'[x].path
             /\ files'[loghdl'[x].fd][3] = loghdl'[x].name
             /\ \A g \in Allocated' \ {x} : loghdl'[g].fd # loghdl'[x].fd
    <3>1. LogTypeOK /\ DescriptorsAreOwned
      OBVIOUS
    <3>2. today \in 0 .. MaxDay
      BY <2>5
    <3>3. IF h \in Allocated THEN loghdl[h] = loghdl[h] ELSE loghdl[h].fd = Nil
      BY <2>2
    <3> HIDE DEF LogInv
    <3>4. PICK hdl \in LogStructs : hdl = loghdl[h]
      BY <2>3
    <3>5. /\ IF h \in Allocated THEN hdl = loghdl[h] ELSE hdl.fd = Nil
          /\ Initialized(h, hdl, today) /\ r = InitLog(hdl, today)
      BY <2>4, <3>3, <3>4
    <3>6. hdl.fd # Nil
      BY <2>2, <3>4
    <3> HIDE DEF r
    <3>7. /\ loghdl' \in [Handles -> LogStructs \union {Nil}]
          /\ files' \in [LogFds -> LogFiles \union {Nil}]
          /\ Allocated' = Allocated \union {h}
          /\ \A g \in Handles \ {h} : loghdl'[g] = loghdl[g]
          /\ hdl.fd # Nil \/ InitLog(hdl, today).fd # Nil => loghdl'[h].fd # Nil
          /\ InitLog(hdl, today).fd # Nil =>
               files'[InitLog(hdl, today).fd] = <<hdl.path, today, hdl.name>>
          /\ \A f \in LogFds : files'[f] # Nil => \E g \in Allocated' : loghdl'[g].fd = f
          /\ \A x \in Allocated' : loghdl'[x].fd # Nil =>
               /\ files'[loghdl'[x].fd] # Nil
               /\ files'[loghdl'[x].fd][1] = loghdl'[x].path
               /\ files'[loghdl'[x].fd][3] = loghdl'[x].name
               /\ \A g \in Allocated' \ {x} : loghdl'[g].fd # loghdl'[x].fd
      <4>1. h \in Handles /\ hdl \in LogStructs
        BY <2>2, <3>4
      <4>2. IF h \in Allocated THEN hdl = loghdl[h] ELSE hdl.fd = Nil
        BY <3>5
      <4>3. Initialized(h, hdl, today)
        BY <3>5
      <4>4. QED
        BY <3>1, <3>2, <4>1, <4>2, <4>3, InitLogOwns, Zenon
    <3>8. loghdl'[h].fd # Nil
      BY <3>6, <3>7
    <3>9. r.fd # Nil => files'[r.fd] = <<loghdl[h].path, today, loghdl[h].name>>
      BY <3>4, <3>5, <3>7
    <3>10. QED
      BY <3>7, <3>8, <3>9
  <2> HIDE DEF r
  <2>7. LogTypeOK'
    BY <1>1, <2>6 DEF LogTypeOK
  <2>8. \A k \in DOMAIN pool : pool[k] # Nil =>
          pool[k] \in Allocated' /\ loghdl'[pool[k]].fd # Nil
    BY <2>6 DEF DescriptorsAreOwned, Allocated, LogTypeOK
  <2>9. DescriptorsAreOwned'
    BY <2>6, <2>8 DEF DescriptorsAreOwned
  <2>10. KeptIsOpen'
    BY <2>6 DEF KeptIsOpen, Allocated
  <2>11. RecordInItsDay'
    <3>1. /\ record'.stamp = day /\ record'.by = today
          /\ record'.file = IF r.fd = Nil THEN Nil ELSE files'[r.fd]
      BY <2>1
    <3>2. record'.file # Nil => record'.file[2] = today
      BY <3>1, <2>6
    <3>3. today \in day .. today
      BY <2>5 DEF LogTypeOK
    <3>4. QED
      BY <3>1, <3>2, <3>3 DEF RecordInItsDay
  <2>12. QED
    BY <2>7, <2>9, <2>10, <2>11
<1>4. QED
  BY <1>2, <1>3

LEMMA FlushKeeps ==
  ASSUME LogInv, FlushLog, record' = Nil
  PROVE  LogInv'
<1> USE DEF LogInv
<1> DEFINE h == kept
           r == InitLog(loghdl[h], day)
<1>1. h \in Handles /\ h \in Allocated /\ loghdl[h].fd # Nil
  BY DEF FlushLog, LogTypeOK, KeptIsOpen
<1>2. loghdl[h] \in LogStructs /\ day \in 0 .. MaxDay
  BY <1>1 DEF LogTypeOK, Allocated
<1>3. Initialized(h, loghdl[h], day)
  BY DEF FlushLog, Initialized
<1> HIDE DEF h
<1>4. /\ loghdl' \in [Handles -> LogStructs \union {Nil}]
      /\ files' \in [LogFds -> LogFiles \union {Nil}]
      /\ Allocated' = Allocated \union {h}
      /\ \A g \in Handles \ {h} : loghdl'[g] = loghdl[g]
      /\ loghdl'[h].fd # Nil
      /\ \A f \in LogFds : files'[f] # Nil => \E g \in Allocated' : loghdl'[g].fd = f
      /\ \A x \in Allocated' : loghdl'[x].fd # Nil =>
           /\ files'[loghdl'[x].fd] # Nil
           /\ files'[loghdl'[x].fd][1] = loghdl'[x].path
           /\ files'[loghdl'[x].fd][3] = loghdl'[x].name
           /\ \A g \in Allocated' \ {x} : loghdl'[g].fd # loghdl'[x].fd
  BY <1>1, <1>2, <1>3, InitLogOwns
<1>5. UNCHANGED <<day, logpath, level, pool, kept, barred>>
  BY DEF FlushLog
<1>6. LogTypeOK'
  BY <1>4, <1>5 DEF LogTypeOK
<1>7. \A k \in DOMAIN pool : pool[k] # Nil =>
        pool[k] \in Allocated' /\ loghdl'[pool[k]].fd # Nil
  BY <1>4 DEF DescriptorsAreOwned, Allocated, LogTypeOK
<1>8. DescriptorsAreOwned'
  BY <1>4, <1>5, <1>7 DEF DescriptorsAreOwned
<1>9. KeptIsOpen'
  BY <1>4, <1>5 DEF KeptIsOpen, Allocated
<1>10. QED
  BY <1>6, <1>8, <1>9 DEF RecordInItsDay

LEMMA OpenKeeps ==
  ASSUME LogInv, Open, record' = Nil
  PROVE  LogInv'
<1> USE DEF LogInv
<1>1. PICK dir \in Paths \union {Nil}, name \in Names : OpenLog(dir, name)
  BY DEF Open
<1>2. UNCHANGED <<day, logpath, level, kept, barred>>
  BY DEF Open
<1> DEFINE found == IF dir = Nil THEN pool[name] ELSE Nil
<1>3. CASE /\ found # Nil
           /\ pool' = [pool EXCEPT ![DefaultKey] = found]
           /\ UNCHANGED <<loghdl, files>>
  <2>1. found \in Handles /\ found \in Allocated /\ loghdl[found].fd # Nil
    BY <1>3 DEF LogTypeOK, DescriptorsAreOwned
  <2> HIDE DEF found
  <2>2. LogTypeOK'
    BY <1>2, <1>3, <2>1 DEF LogTypeOK
  <2>3. DescriptorsAreOwned'
    BY <1>3, <2>1 DEF LogTypeOK, DescriptorsAreOwned, Allocated
  <2>4. QED
    BY <1>2, <1>3, <2>2, <2>3 DEF KeptIsOpen, RecordInItsDay, Allocated
<1>4. CASE \E h \in Handles \ Allocated :
             LET r == InitLog([fd |-> Nil, creattm |-> Nil, name |-> name,
                               path |-> IF dir = Nil THEN logpath ELSE dir], day)
             IN /\ loghdl' = [loghdl EXCEPT ![h] = r.hdl]
                /\ files' = r.files
                /\ pool' = IF r.fd = Nil THEN pool
                           ELSE [pool EXCEPT ![name] = h, ![DefaultKey] = h]
  <2> DEFINE hdl == [fd |-> Nil, creattm |-> Nil, name |-> name,
                     path |-> IF dir = Nil THEN logpath ELSE dir]
             r == InitLog(hdl, day)
  <2>1. PICK h \in Handles \ Allocated :
               /\ loghdl' = [loghdl EXCEPT ![h] = r.hdl]
               /\ files' = r.files
               /\ pool' = IF r.fd = Nil THEN pool
                          ELSE [pool EXCEPT ![name] = h, ![DefaultKey] = h]
    BY <1>4
  <2>2. hdl \in LogStructs /\ hdl.fd = Nil /\ day \in 0 .. MaxDay
    BY DEF LogTypeOK, LogStructs
  <2>3. Initialized(h, hdl, day)
    BY <2>1 DEF Initialized
  <2> HIDE DEF hdl
  <2>4. /\ loghdl' \in [Handles -> LogStructs \union {Nil}]
        /\ files' \in [LogFds -> LogFiles \union {Nil}]
        /\ Allocated' = Allocated \union {h}
        /\ \A g \in Handles \ {h} : loghdl'[g] = loghdl[g]
        /\ r.fd # Nil => loghdl'[h].fd # Nil
        /\ \A f \in LogFds : files'[f] # Nil => \E g \in Allocated' : loghdl'[g].fd = f
        /\ \A x \in Allocated' : loghdl'[x].fd # Nil =>
             /\ files'[loghdl'[x].fd] # Nil
             /\ files'[loghdl'[x].fd][1] = loghdl'[x].path
             /\ files'[loghdl'[x].fd][3] = loghdl'[x].name
             /\ \A g \in Allocated' \ {x} : loghdl'[g].fd # loghdl'[x].fd
    BY <2>1, <2>2, <2>3, InitLogOwns
  <2> HIDE DEF r
  <2>5. LogTypeOK'
    BY <1>2, <2>1, <2>4 DEF LogTypeOK
  <2>6. \A k \in DOMAIN pool : pool[k] # Nil =>
          pool[k] \in Allocated' /\ loghdl'[pool[k]].fd # Nil
    BY <2>4 DEF DescriptorsAreOwned, Allocated, LogTypeOK
  <2>7. \A k \in DOMAIN pool' : pool'[k] # Nil =>
          pool'[k] \in Allocated' /\ loghdl'[pool'[k]].fd # Nil
    BY <2>1, <2>4, <2>6 DEF LogTypeOK
  <2>8. DescriptorsAreOwned'
    BY <2>4, <2>7 DEF DescriptorsAreOwned
  <2>9. KeptIsOpen'
    BY <1>2, <2>4 DEF KeptIsOpen, Allocated
  <2>10. QED
    BY <2>5, <2>8, <2>9 DEF RecordInItsDay
<1>5. QED
  BY <1>1, <1>3, <1>4 DEF OpenLog

LEMMA CloseKeeps ==
  ASSUME LogInv, NEW h \in Handles, CloseLog(h), record' = Nil
  PROVE  LogInv'
<1> USE DEF LogInv
<1>1. /\ h \in Allocated /\ loghdl[h] \in LogStructs
      /\ h # kept /\ \A k \in DOMAIN pool : pool[k] # h
  BY DEF CloseLog, Allocated, LogTypeOK
<1>2. /\ pool' = [pool EXCEPT ![loghdl[h].name] = Nil,
                              ![DefaultKey] = IF @ = h THEN Nil ELSE @]
      /\ files' = [f \in LogFds |-> IF f = loghdl[h].fd THEN Nil ELSE files[f]]
      /\ loghdl' = [loghdl EXCEPT ![h] = Nil]
      /\ UNCHANGED <<day, logpath, level, kept, barred>>
  BY DEF CloseLog
<1>3. \A k \in DOMAIN pool : pool'[k] \in {pool[k], Nil}
  BY <1>2 DEF LogTypeOK
<1>4. pool' \in [Names \union {DefaultKey} -> Handles \union {Nil}]
  BY <1>2 DEF LogTypeOK
<1>5. LogTypeOK'
  BY <1>2, <1>4 DEF LogTypeOK
<1>6. Allocated' = Allocated \ {h} /\ \A g \in Handles \ {h} : loghdl'[g] = loghdl[g]
  BY <1>2 DEF LogTypeOK, Allocated
<1>7. \A f \in LogFds : files'[f] = IF f = loghdl[h].fd THEN Nil ELSE files[f]
  BY <1>2
<1>8. ASSUME NEW f \in LogFds, files'[f] # Nil
      PROVE  \E g \in Allocated' : loghdl'[g].fd = f
  <2>1. f # loghdl[h].fd /\ files[f] # Nil
    BY <1>7, <1>8
  <2>2. PICK g \in Allocated : loghdl[g].fd = f
    BY <2>1 DEF DescriptorsAreOwned
  <2>3. QED
    BY <2>1, <2>2, <1>6 DEF Allocated
<1>9. ASSUME NEW x \in Allocated', loghdl'[x].fd # Nil
      PROVE  /\ files'[loghdl'[x].fd] # Nil
             /\ files'[loghdl'[x].fd][1] = loghdl'[x].path
             /\ files'[loghdl'[x].fd][3] = loghdl'[x].name
             /\ \A g \in Allocated' \ {x} : loghdl'[g].fd # loghdl'[x].fd
  <2>1. x \in Allocated /\ x # h /\ loghdl'[x] = loghdl[x] /\ x \in Handles
    BY <1>6 DEF Allocated
  <2>2. loghdl[x] \in LogStructs
    BY <2>1 DEF Allocated, LogTypeOK
  <2>3. loghdl[x].fd \in LogFds /\ loghdl[x].fd # loghdl[h].fd
    BY <2>1, <2>2, <1>1, <1>9 DEF LogStructs, DescriptorsAreOwned
  <2>4. files'[loghdl[x].fd] = files[loghdl[x].fd]
    BY <2>3, <1>7
  <2>5. QED
    BY <2>1, <2>4, <1>6, <1>9 DEF DescriptorsAreOwned, Allocated
<1>10. \A k \in DOMAIN pool' : pool'[k] # Nil =>
         pool'[k] \in Allocated' /\ loghdl'[pool'[k]].fd # Nil
  BY <1>1, <1>3, <1>4, <1>6 DEF DescriptorsAreOwned, Allocated, LogTypeOK
<1>11. DescriptorsAreOwned'
  BY <1>8, <1>9, <1>10 DEF DescriptorsAreOwned
<1>12. KeptIsOpen'
  BY <1>1, <1>2, <1>6 DEF KeptIsOpen, Allocated
<1>13. QED
  BY <1>5, <1>11, <1>12 DEF RecordInItsDay

(* The steps that leave handles and files alone.                           *)
LEMMA LogTablesKept ==
  ASSUME LogInv, UNCHANGED <<loghdl, files>>, record' = Nil,
         day' \in 0 .. MaxDay, logpath' \in Paths,
         kept' \in {kept, Nil, pool[DefaultKey]},
         pool' \in [Names \union {DefaultKey} -> Handles \union {Nil}],
         \A k \in Names \union {DefaultKey} : pool'[k] \in {pool[k], Nil, kept}
  PROVE  LogInv'
<1> USE DEF LogInv
<1>1. pool[DefaultKey] \in Handles \union {Nil}
  BY DEF LogTypeOK
<1>2. LogTypeOK'
  BY <1>1 DEF LogTypeOK
<1>3. pool[DefaultKey] # Nil =>
        pool[DefaultKey] \in Allocated /\ loghdl[pool[DefaultKey]].fd # Nil
  BY DEF LogTypeOK, DescriptorsAreOwned
<1>4. \A k \in DOMAIN pool' : pool'[k] # Nil =>
        pool'[k] \in Allocated /\ loghdl[pool'[k]].fd # Nil
  BY DEF LogTypeOK, DescriptorsAreOwned, KeptIsOpen
<1>5. DescriptorsAreOwned'
  BY <1>4 DEF DescriptorsAreOwned, Allocated
<1>6. KeptIsOpen'
  BY <1>3 DEF KeptIsOpen, Allocated
<1>7. QED
  BY <1>2, <1>5, <1>6 DEF RecordInItsDay

LEMMA LogStep == LogInv /\ [LogNext]_logVars => LogInv'
<1> SUFFICES ASSUME LogInv, [LogNext]_logVars
             PROVE  LogInv'
  OBVIOUS
<1>0. LogTypeOK /\ DescriptorsAreOwned /\ KeptIsOpen
  BY DEF LogInv
<1>1. ASSUME NEW lv \in {"D", "F"}, WriteLog(lv)
      PROVE  LogInv'
  <2>1. /\ pool[DefaultKey] \in Handles \union {Nil}
        /\ pool[DefaultKey] # Nil =>
             pool[DefaultKey] \in Allocated /\ loghdl[pool[DefaultKey]].fd # Nil
    BY <1>0 DEF LogTypeOK, DescriptorsAreOwned
  <2>2. /\ WriteLogToFile(pool[DefaultKey], lv)
        /\ UNCHANGED <<logpath, level, pool, kept, barred>>
    BY <1>1 DEF WriteLog
  <2>3. QED
    BY <2>1, <2>2, WriteKeeps
<1>2. ASSUME NEW lv \in {"D", "F"}, WriteLogByHdl(lv)
      PROVE  LogInv'
  <2>1. kept \in Handles \union {Nil} /\ (kept # Nil => kept \in Allocated /\ loghdl[kept].fd # Nil)
    BY <1>0 DEF LogTypeOK, KeptIsOpen
  <2>2. WriteLogToFile(kept, lv) /\ UNCHANGED <<logpath, level, pool, kept, barred>>
    BY <1>2 DEF WriteLogByHdl
  <2>3. QED
    BY <2>1, <2>2, WriteKeeps
<1>3. ASSUME record' = Nil,
             CloseAll \/ Keep \/ PutBack \/ Midnight \/ Permissions
               \/ (\E k \in DOMAIN pool : CloseName(k))
               \/ (\E n \in Levels : SetLevel(n)) \/ (\E p \in Paths : SetPath(p))
      PROVE  LogInv'
  <2> USE DEF LogTypeOK
  <2>1. day' \in 0 .. MaxDay /\ logpath' \in Paths /\ UNCHANGED <<loghdl, files>>
    BY <1>0, <1>3, LogDaysAssumption
    DEF CloseAll, Keep, PutBack, Midnight, Permissions, CloseName, SetLevel, SetPath,
        LogDaysAssumption
  <2>2. kept' \in {kept, Nil, pool[DefaultKey]}
    BY <1>0, <1>3
    DEF CloseAll, Keep, PutBack, Midnight, Permissions, CloseName, SetLevel, SetPath
  <2>3. pool' \in [Names \union {DefaultKey} -> Handles \union {Nil}]
    BY <1>0, <1>3
    DEF CloseAll, Keep, PutBack, Midnight, Permissions, CloseName, SetLevel, SetPath
  <2>4. \A k \in Names \union {DefaultKey} : pool'[k] \in {pool[k], Nil, kept}
    BY <1>0, <1>3
    DEF CloseAll, Keep, PutBack, Midnight, Permissions, CloseName, SetLevel, SetPath
  <2>5. QED
    BY <1>3, <2>1, <2>2, <2>3, <2>4, LogTablesKept
<1>4. CASE UNCHANGED logVars
  BY <1>4, <1>0
  DEF logVars, LogInv, LogTypeOK, DescriptorsAreOwned, KeptIsOpen, RecordInItsDay, Allocated
<1>5. QED
  BY <1>1, <1>2, <1>3, <1>4, OpenKeeps, FlushKeeps, CloseKeeps DEF LogNext

(* The inductive invariant of the log handles, for any number of them and  *)
(* any names, directories and days.                                        *)
THEOREM LogInvariance == MCSpec => []LogInv
<1>1. MCInit => LogInv
  BY LogInit0 DEF MCInit
<1>2. LogInv /\ [MCNext]_vars => LogInv'
  <2>1. [MCNext]_vars => [LogNext]_logVars
    BY DEF MCNext, vars
  <2>2. QED
    BY <2>1, LogStep
<1>3. MCSpec => MCInit /\ [][MCNext]_vars
  BY PTL DEF MCSpec
<1>4. QED
  BY <1>1, <1>2, <1>3, PTL

(* No descriptor of a log is lost or shared, however opens, rotations,     *)
(* failures and collections interleave.                                    *)
THEOREM DescriptorsAreOwnedHolds == MCSpec => []DescriptorsAreOwned
<1>1. LogInv => DescriptorsAreOwned
  BY DEF LogInv
<1>2. QED
  BY <1>1, LogInvariance, PTL

(* A record goes to a file of its day, or of the day that began while it   *)
(* was written.                                                            *)
THEOREM RecordInItsDayHolds == MCSpec => []RecordInItsDay
<1>1. LogInv => RecordInItsDay
  BY DEF LogInv
<1>2. QED
  BY <1>1, LogInvariance, PTL

-----------------------------------------------------------------------------
(* Sockets.                                                                *)

AnyFamily == Families \union {"unspec"}
SocketObjects ==
  [class : {"free", "none", "master", "client", "server", "unconnected", "connected"},
   family : AnyFamily, sock : Fds \union {Invalid}, zero : BOOLEAN]
Descriptors ==
  [family : AnyFamily,
   state : {"closed", "fresh", "bound", "connecting", "connected", "listening", "open", "peer"}]

SocketTypeOK ==
  /\ obj \in [Objs -> SocketObjects]
  /\ held \subseteq Objs
  /\ fd \in [Fds -> Descriptors]
  /\ lost \subseteq Fds

(* Each object's descriptor is open, its own, and of its family; each open *)
(* descriptor is some object's, or lost.                                   *)
SocketInv ==
  /\ \A o \in Objs : obj[o].sock # Invalid =>
       /\ fd[obj[o].sock].state # "closed"
       /\ obj[o].family \in {"unspec", fd[obj[o].sock].family}
  /\ \A o, p \in Objs : obj[o].sock # Invalid /\ obj[o].sock = obj[p].sock => o = p
  /\ \A f \in Fds : fd[f].state # "closed" => f \in lost \/ \E o \in Objs : obj[o].sock = f
  /\ \A f \in lost : fd[f].state = "fresh" /\ \A o \in Objs : obj[o].sock # f

(* An object changes, and its descriptor or what is known of it.           *)
Changes(o) ==
  LET old == obj[o].sock
      new == obj'[o].sock
  IN /\ \A p \in Objs \ {o} : obj'[p] = obj[p]
     /\ \A f \in Fds \ {old, new} : fd'[f] = fd[f]
     /\ old # Invalid /\ old # new => fd'[old].state = "closed"
     /\ new # Invalid =>
          /\ fd'[new].state # "closed"
          /\ obj'[o].family \in {"unspec", fd'[new].family}
     /\ new # Invalid /\ new # old => fd[new].state = "closed"
     /\ lost' = lost

LEMMA SocketChange ==
  ASSUME SocketTypeOK, SocketInv, SocketTypeOK', NEW o \in Objs, Changes(o)
  PROVE  SocketInv'
<1> DEFINE old == obj[o].sock
           new == obj'[o].sock
<1>1. old \in Fds \union {Invalid} /\ new \in Fds \union {Invalid}
  BY DEF SocketTypeOK, SocketObjects
<1>2. \A p \in Objs \ {o} : obj'[p] = obj[p]
  BY DEF Changes
<1>3. \A f \in Fds \ {old, new} : fd'[f] = fd[f]
  BY DEF Changes
<1>4. /\ old # Invalid /\ old # new => fd'[old].state = "closed"
      /\ new # Invalid => fd'[new].state # "closed"
                          /\ obj'[o].family \in {"unspec", fd'[new].family}
      /\ new # Invalid /\ new # old => fd[new].state = "closed"
      /\ lost' = lost
  BY DEF Changes
<1>5. \A p \in Objs \ {o} : obj[p].sock # Invalid =>
        obj[p].sock \in Fds /\ obj[p].sock # old /\ obj[p].sock # new
  BY <1>4 DEF SocketInv, SocketTypeOK, SocketObjects
<1>6. \A f \in lost : f # old /\ (new # Invalid => f # new)
  BY <1>4, InvalidAssumption DEF SocketInv, SocketTypeOK, InvalidAssumption
<1> HIDE DEF old, new
<1>7. \A p \in Objs : obj'[p].sock # Invalid =>
        /\ fd'[obj'[p].sock].state # "closed"
        /\ obj'[p].family \in {"unspec", fd'[obj'[p].sock].family}
  <2> SUFFICES ASSUME NEW p \in Objs, obj'[p].sock # Invalid
               PROVE  /\ fd'[obj'[p].sock].state # "closed"
                      /\ obj'[p].family \in {"unspec", fd'[obj'[p].sock].family}
    OBVIOUS
  <2>1. CASE p = o
    BY <2>1, <1>4 DEF new
  <2>2. CASE p # o
    <3>1. obj'[p] = obj[p]
      BY <2>2, <1>2
    <3>2. fd'[obj[p].sock] = fd[obj[p].sock]
      BY <2>2, <3>1, <1>3, <1>5
    <3>3. QED
      BY <3>1, <3>2 DEF SocketInv
  <2>3. QED
    BY <2>1, <2>2
<1>8. \A p, q \in Objs : obj'[p].sock # Invalid /\ obj'[p].sock = obj'[q].sock => p = q
  BY <1>2, <1>5 DEF SocketInv, new
<1>9. \A f \in Fds : fd'[f].state # "closed" => f \in lost' \/ \E p \in Objs : obj'[p].sock = f
  <2> SUFFICES ASSUME NEW f \in Fds, fd'[f].state # "closed", f \notin lost'
               PROVE  \E p \in Objs : obj'[p].sock = f
    OBVIOUS
  <2>1. CASE f = new
    BY <2>1 DEF new
  <2>2. CASE f # new
    <3>1. f # old
      BY <2>2, <1>4, InvalidAssumption DEF InvalidAssumption
    <3>2. fd[f].state # "closed" /\ f \notin lost
      BY <2>2, <3>1, <1>3, <1>4
    <3>3. PICK p \in Objs : obj[p].sock = f
      BY <3>2 DEF SocketInv
    <3>4. QED
      BY <3>1, <3>3, <1>2 DEF old
  <2>3. QED
    BY <2>1, <2>2
<1>10. \A f \in lost' : fd'[f].state = "fresh" /\ \A p \in Objs : obj'[p].sock # f
  BY <1>1, <1>2, <1>3, <1>4, <1>6, InvalidAssumption
  DEF SocketInv, SocketTypeOK, new, InvalidAssumption
<1>11. QED
  BY <1>7, <1>8, <1>9, <1>10 DEF SocketInv

(* The owners of a descriptor, as the properties count them.               *)
LEMMA OwnersCounted ==
  ASSUME SocketTypeOK, SocketInv, NEW f \in Fds, fd[f].state # "closed"
  PROVE  Cardinality({o \in Objs : obj[o].sock = f}) = IF f \in lost THEN 0 ELSE 1
<1>1. CASE f \in lost
  <2>1. {o \in Objs : obj[o].sock = f} = {}
    BY <1>1 DEF SocketInv
  <2>2. QED
    BY <2>1, <1>1, FS_EmptySet
<1>2. CASE f \notin lost
  <2>1. PICK o \in Objs : obj[o].sock = f
    BY <1>2 DEF SocketInv
  <2>2. {p \in Objs : obj[p].sock = f} = {o}
    BY <2>1, InvalidAssumption DEF SocketInv, InvalidAssumption
  <2>3. QED
    BY <2>2, <1>2, FS_Singleton
<1>3. QED
  BY <1>1, <1>2

TcpCalls == [do : {"idle", "bind", "connect"}, o : Objs \union {Invalid}, fresh : BOOLEAN,
             list : Seq(Families), current : AnyFamily]

(* Of the call in progress: socket.connect works on an object that Lua     *)
(* code does not have yet, the methods on one it holds; the addresses left *)
(* are of the object's family, and the descriptor is of the current one.   *)
TcpOpInv ==
  /\ op \in TcpCalls
  /\ op.do = "idle" => op = NoOp
  /\ op.do # "idle" =>
       /\ op.o \in Objs
       /\ op.o \in held <=> ~op.fresh
       /\ op.fresh => obj[op.o].class = "none"
       /\ Fits(op.list, obj[op.o].family)
       /\ Sock # Invalid => op.current \in {"unspec", fd[Sock].family}
       /\ op.do = "bind" /\ op.fresh /\ Sock # Invalid => fd[Sock].state = "fresh"

(* An object without a class is never handed out, and what it has left of  *)
(* a bind that failed was never bound.                                     *)
TcpClassInv ==
  /\ \A o \in held : obj[o].class \notin {"free", "none"}
  /\ \A o \in Objs : obj[o].class = "none" /\ op.o # o /\ obj[o].sock # Invalid =>
       fd[obj[o].sock].state = "fresh"

TcpInv == SocketTypeOK /\ SocketInv /\ TcpOpInv /\ TcpClassInv

LEMMA NothingChanges ==
  ASSUME SocketTypeOK, SocketInv, UNCHANGED <<obj, fd, lost>>, NEW o \in Objs
  PROVE  Changes(o)
BY DEF SocketInv, SocketTypeOK, Changes

(* A step of one object keeps the invariant if what it does to the object  *)
(* and to the call does.                                                   *)
LEMMA TcpChange ==
  ASSUME TcpInv, SocketTypeOK', NEW o \in Objs, Changes(o),
         held' \subseteq held \union {o},
         o \in held' => obj'[o].class \notin {"free", "none"},
         obj'[o].class = "none" /\ op'.o # o /\ obj'[o].sock # Invalid =>
           fd'[obj'[o].sock].state = "fresh",
         op.o \in {o, Invalid, op'.o},
         TcpOpInv'
  PROVE  TcpInv'
<1> USE DEF TcpInv
<1>1. SocketInv'
  BY SocketChange
<1>2. \A p \in Objs \ {o} : obj'[p] = obj[p]
  BY DEF Changes
<1>3. \A p \in Objs \ {o} : obj[p].sock # Invalid => fd'[obj[p].sock] = fd[obj[p].sock]
  <2> SUFFICES ASSUME NEW p \in Objs \ {o}, obj[p].sock # Invalid
               PROVE  fd'[obj[p].sock] = fd[obj[p].sock]
    OBVIOUS
  <2>1. obj[p].sock \in Fds
    BY DEF SocketTypeOK, SocketObjects
  <2>2. obj[p].sock # obj[o].sock
    BY DEF SocketInv
  <2>3. obj[p].sock # obj'[o].sock
    BY <2>2 DEF SocketInv, Changes
  <2>4. QED
    BY <2>1, <2>2, <2>3 DEF Changes
<1>4. \A p \in held' : obj'[p].class \notin {"free", "none"}
  BY <1>2 DEF TcpClassInv, SocketTypeOK
<1>5. \A p \in Objs : obj'[p].class = "none" /\ op'.o # p /\ obj'[p].sock # Invalid =>
        fd'[obj'[p].sock].state = "fresh"
  <2> SUFFICES ASSUME NEW p \in Objs,
                      obj'[p].class = "none" /\ op'.o # p /\ obj'[p].sock # Invalid
               PROVE  fd'[obj'[p].sock].state = "fresh"
    OBVIOUS
  <2>1. CASE p = o
    BY <2>1
  <2>2. CASE p # o
    <3>1. obj'[p] = obj[p] /\ op.o # p
      BY <2>2, <1>2, InvalidAssumption DEF InvalidAssumption
    <3>2. QED
      BY <3>1, <2>2, <1>3 DEF TcpClassInv
  <2>3. QED
    BY <2>1, <2>2
<1>6. TcpClassInv'
  BY <1>4, <1>5 DEF TcpClassInv
<1>7. QED
  BY <1>1, <1>6

(* A step of another object leaves the call alone.                         *)
LEMMA TcpCallKept ==
  ASSUME TcpInv, SocketTypeOK', NEW o \in Objs, Changes(o), op' = op, op.o # o,
         held' \ {o} = held \ {o}
  PROVE  TcpOpInv'
<1> USE DEF TcpInv
<1>1. CASE op.do = "idle"
  BY <1>1 DEF TcpOpInv
<1>2. CASE op.do # "idle"
  <2>1. op.o \in Objs /\ obj'[op.o] = obj[op.o]
    BY <1>2 DEF TcpOpInv, Changes
  <2>2. Sock # Invalid => fd'[Sock] = fd[Sock]
    <3> SUFFICES ASSUME Sock # Invalid
                 PROVE  fd'[Sock] = fd[Sock]
      OBVIOUS
    <3>1. Sock \in Fds
      BY <2>1 DEF SocketTypeOK, SocketObjects, Sock
    <3>2. Sock # obj[o].sock /\ Sock # obj'[o].sock
      BY <2>1 DEF SocketInv, Changes, Sock
    <3>3. QED
      BY <3>1, <3>2 DEF Changes
  <2>3. Sock' = Sock
    BY <2>1 DEF Sock
  <2>4. op.o \in held' <=> op.o \in held
    BY <2>1
  <2>5. Fits(op.list, obj[op.o].family)' = Fits(op.list, obj[op.o].family)
    BY <2>1 DEF Fits
  <2>6. op \in TcpCalls /\ op'.do = op.do /\ op'.fresh = op.fresh
    BY DEF TcpOpInv
  <2>7. QED
    BY <1>2, <2>1, <2>2, <2>3, <2>4, <2>5, <2>6 DEF TcpOpInv
<1>3. QED
  BY <1>1, <1>2

LEMMA TcpNoCall ==
  ASSUME op' = NoOp
  PROVE  TcpOpInv'
BY DEF NoOp, TcpOpInv, TcpCalls, AnyFamily

LEMMA TcpIdle == ASSUME TcpInv, Idle PROVE op = NoOp /\ op.o = Invalid /\ op.do = "idle"
BY DEF Idle, NoOp

LEMMA TcpCreateKeeps ==
  ASSUME TcpInv, NEW o \in Objs, NEW family \in AnyFamily, TcpCreate(o, family)
  PROVE  TcpInv'
<1> USE DEF TcpInv
<1>1. Idle /\ obj[o] = NoObj /\ UNCHANGED <<op, lost>>
  BY DEF TcpCreate
<1>2. op.o = Invalid /\ op'.o = Invalid /\ TcpOpInv'
  BY <1>1, TcpIdle, TcpNoCall
<1>3. obj[o].sock = Invalid
  BY <1>1 DEF NoObj
<1>4. CASE /\ obj' = [obj EXCEPT ![o] = [NoObj EXCEPT !.class = "master"]]
           /\ held' = held \cup {o}
           /\ UNCHANGED fd
  <2>1. SocketTypeOK'
    BY <1>1, <1>4 DEF SocketTypeOK, SocketObjects, NoObj, AnyFamily
  <2>2. /\ obj'[o].sock = Invalid /\ obj'[o].class = "master"
        /\ \A p \in Objs \ {o} : obj'[p] = obj[p]
    BY <1>4 DEF SocketTypeOK, NoObj
  <2>3. Changes(o)
    BY <1>1, <1>3, <1>4, <2>2 DEF Changes
  <2>4. QED
    BY <1>2, <1>4, <2>1, <2>2, <2>3, TcpChange
<1>5. CASE /\ \E f \in Fds :
                /\ Free(f)
                /\ fd' = [fd EXCEPT ![f] = [family |-> family, state |-> "fresh"]]
                /\ obj' = [obj EXCEPT ![o] = [class |-> "master", family |-> family,
                                              sock |-> f, zero |-> FALSE]]
           /\ held' = held \cup {o}
  <2>1. PICK f \in Fds :
             /\ Free(f)
             /\ fd' = [fd EXCEPT ![f] = [family |-> family, state |-> "fresh"]]
             /\ obj' = [obj EXCEPT ![o] = [class |-> "master", family |-> family,
                                           sock |-> f, zero |-> FALSE]]
    BY <1>5
  <2>2. SocketTypeOK'
    <3>1. obj' \in [Objs -> SocketObjects]
      BY <2>1 DEF SocketTypeOK, SocketObjects
    <3>2. fd' \in [Fds -> Descriptors]
      BY <2>1 DEF SocketTypeOK, Descriptors
    <3>3. QED
      BY <3>1, <3>2, <1>1, <1>5 DEF SocketTypeOK
  <2>3. /\ obj'[o].sock = f /\ obj'[o].class = "master" /\ obj'[o].family = family
        /\ \A p \in Objs \ {o} : obj'[p] = obj[p]
        /\ fd'[f].state = "fresh" /\ fd'[f].family = family
        /\ \A g \in Fds \ {f} : fd'[g] = fd[g]
    BY <2>1 DEF SocketTypeOK
  <2>4. Changes(o)
    BY <1>1, <1>3, <2>1, <2>3 DEF Changes, Free
  <2>5. QED
    BY <1>2, <1>5, <2>2, <2>3, <2>4, TcpChange
<1>6. CASE /\ obj' = [obj EXCEPT ![o] = [NoObj EXCEPT !.class = "master", !.family = family]]
           /\ UNCHANGED <<held, fd>>
  <2>1. SocketTypeOK'
    BY <1>1, <1>6 DEF SocketTypeOK, SocketObjects, NoObj
  <2>2. /\ obj'[o].sock = Invalid /\ obj'[o].class = "master"
        /\ \A p \in Objs \ {o} : obj'[p] = obj[p]
    BY <1>6 DEF SocketTypeOK, NoObj
  <2>3. Changes(o)
    BY <1>1, <1>3, <1>6, <2>2 DEF Changes
  <2>4. QED
    BY <1>2, <1>6, <2>1, <2>2, <2>3, TcpChange
<1>7. QED
  BY <1>4, <1>5, <1>6 DEF TcpCreate

(* Methods that change the object's own record, and close.                 *)
LEMMA TcpMethodKeeps ==
  ASSUME TcpInv, NEW o \in Objs,
         TcpClose(o) \/ TcpListen(o) \/ TcpDrop(o) \/ \E zero \in BOOLEAN : TcpTimeout(o, zero)
  PROVE  TcpInv'
<1> USE DEF TcpInv
<1>1. Idle /\ o \in held /\ UNCHANGED <<op, lost>>
  BY DEF TcpClose, TcpListen, TcpDrop, TcpTimeout
<1>2. op.o = Invalid /\ op'.o = Invalid /\ TcpOpInv'
  BY <1>1, TcpIdle, TcpNoCall
<1>3. obj[o].class \notin {"free", "none"}
  BY <1>1 DEF TcpClassInv
<1>4. CASE TcpClose(o)
  <2>1. /\ fd' = Destroyed(obj[o].sock) /\ obj' = [obj EXCEPT ![o].sock = Invalid]
        /\ UNCHANGED held
    BY <1>4 DEF TcpClose
  <2>2. SocketTypeOK'
    <3>1. obj' \in [Objs -> SocketObjects]
      BY <2>1 DEF SocketTypeOK, SocketObjects
    <3>2. fd' \in [Fds -> Descriptors]
      BY <2>1 DEF SocketTypeOK, Descriptors, Destroyed, Closed, AnyFamily
    <3>3. QED
      BY <3>1, <3>2, <1>1, <2>1 DEF SocketTypeOK
  <2>3. /\ obj'[o].sock = Invalid /\ obj'[o].class = obj[o].class
        /\ \A p \in Objs \ {o} : obj'[p] = obj[p]
    BY <2>1 DEF SocketTypeOK, SocketObjects
  <2>4. \A f \in Fds : fd'[f] = IF f = obj[o].sock THEN Closed ELSE fd[f]
    BY <2>1 DEF Destroyed
  <2>5. Changes(o)
    BY <1>1, <2>3, <2>4 DEF Changes, Closed, SocketTypeOK, SocketObjects
  <2>6. QED
    BY <1>2, <1>3, <2>1, <2>2, <2>3, <2>5, TcpChange
<1>5. CASE TcpListen(o)
  <2> DEFINE f == obj[o].sock
  <2>1. /\ f # Invalid /\ f \in Fds
        /\ fd' = [fd EXCEPT ![f].state = "listening"]
        /\ obj' = [obj EXCEPT ![o].class = "server"]
        /\ UNCHANGED held
    BY <1>5 DEF TcpListen, SocketTypeOK, SocketObjects
  <2>2. SocketTypeOK'
    <3>1. obj' \in [Objs -> SocketObjects]
      BY <2>1 DEF SocketTypeOK, SocketObjects
    <3>2. fd' \in [Fds -> Descriptors]
      BY <2>1 DEF SocketTypeOK, Descriptors
    <3>3. QED
      BY <3>1, <3>2, <1>1, <2>1 DEF SocketTypeOK
  <2>3. /\ obj'[o].sock = f /\ obj'[o].class = "server" /\ obj'[o].family = obj[o].family
        /\ \A p \in Objs \ {o} : obj'[p] = obj[p]
        /\ fd'[f].state = "listening" /\ fd'[f].family = fd[f].family
        /\ \A g \in Fds \ {f} : fd'[g] = fd[g]
    BY <2>1 DEF SocketTypeOK, SocketObjects, Descriptors
  <2>4. Changes(o)
    BY <1>1, <2>1, <2>3 DEF Changes, SocketInv
  <2>5. QED
    BY <1>2, <2>1, <2>2, <2>3, <2>4, TcpChange
<1>6. CASE TcpDrop(o)
  <2>1. held' = held \ {o} /\ UNCHANGED <<obj, fd>>
    BY <1>6 DEF TcpDrop
  <2>2. SocketTypeOK' /\ Changes(o)
    BY <1>1, <2>1, NothingChanges DEF SocketTypeOK
  <2>3. QED
    BY <1>2, <1>3, <2>1, <2>2, TcpChange
<1>7. ASSUME NEW zero \in BOOLEAN, TcpTimeout(o, zero)
      PROVE  TcpInv'
  <2>1. obj' = [obj EXCEPT ![o].zero = zero] /\ UNCHANGED <<held, fd>>
    BY <1>7 DEF TcpTimeout
  <2>2. SocketTypeOK'
    BY <1>1, <2>1 DEF SocketTypeOK, SocketObjects
  <2>3. /\ obj'[o].sock = obj[o].sock /\ obj'[o].class = obj[o].class
        /\ obj'[o].family = obj[o].family
        /\ \A p \in Objs \ {o} : obj'[p] = obj[p]
    BY <2>1 DEF SocketTypeOK, SocketObjects
  <2>4. Changes(o)
    BY <1>1, <2>1, <2>3 DEF Changes, SocketInv
  <2>5. QED
    BY <1>2, <1>3, <2>1, <2>2, <2>3, <2>4, TcpChange
<1>8. QED
  BY <1>4, <1>5, <1>6, <1>7

LEMMA TcpAcceptKeeps ==
  ASSUME TcpInv, NEW o \in Objs, NEW client \in Objs, TcpAccept(o, client)
  PROVE  TcpInv'
<1> USE DEF TcpInv
<1>1. /\ Idle /\ obj[o].sock # Invalid /\ obj[client] = NoObj
      /\ held' = held \cup {client} /\ UNCHANGED <<op, lost>>
  BY DEF TcpAccept
<1>2. op.o = Invalid /\ op'.o = Invalid /\ TcpOpInv'
  BY <1>1, TcpIdle, TcpNoCall
<1>3. PICK f \in Fds :
        /\ Free(f)
        /\ fd' = [fd EXCEPT ![f] = [family |-> fd[obj[o].sock].family, state |-> "connected"]]
        /\ obj' = [obj EXCEPT ![client] = [class |-> "client", family |-> obj[o].family,
                                           sock |-> f, zero |-> FALSE]]
  BY DEF TcpAccept
<1>4. /\ obj[o].sock \in Fds /\ obj[o].family \in AnyFamily
      /\ fd[obj[o].sock].family \in AnyFamily
  BY <1>1 DEF SocketTypeOK, SocketObjects, Descriptors
<1>5. SocketTypeOK'
  <2>1. obj' \in [Objs -> SocketObjects]
    BY <1>3, <1>4 DEF SocketTypeOK, SocketObjects
  <2>2. fd' \in [Fds -> Descriptors]
    BY <1>3, <1>4 DEF SocketTypeOK, Descriptors
  <2>3. QED
    BY <2>1, <2>2, <1>1 DEF SocketTypeOK
<1>6. /\ obj'[client].sock = f /\ obj'[client].class = "client"
      /\ obj'[client].family = obj[o].family
      /\ \A p \in Objs \ {client} : obj'[p] = obj[p]
      /\ fd'[f].state = "connected" /\ fd'[f].family = fd[obj[o].sock].family
      /\ \A g \in Fds \ {f} : fd'[g] = fd[g]
  BY <1>3 DEF SocketTypeOK
<1>7. obj[o].family \in {"unspec", fd[obj[o].sock].family} /\ fd[f].state = "closed"
  BY <1>1, <1>3 DEF SocketInv, Free
<1>8. Changes(client)
  BY <1>1, <1>6, <1>7 DEF Changes, NoObj
<1>9. QED
  BY <1>1, <1>2, <1>5, <1>6, <1>8, TcpChange

(* bind and connect of an object that Lua code holds start their call.     *)
LEMMA TcpCallKeeps ==
  ASSUME TcpInv, NEW o \in Objs, TcpBind(o) \/ TcpConnect(o)
  PROVE  TcpInv'
<1> USE DEF TcpInv
<1>1. /\ Idle /\ o \in held /\ UNCHANGED <<obj, held, fd, lost>>
      /\ \E list \in Lists, what \in {"bind", "connect"} :
           /\ Fits(list, obj[o].family)
           /\ op' = [do |-> what, o |-> o, fresh |-> FALSE, list |-> list,
                     current |-> obj[o].family]
  BY DEF TcpBind, TcpConnect
<1>2. op.o = Invalid
  BY <1>1, TcpIdle
<1>3. SocketTypeOK' /\ Changes(o)
  BY <1>1, NothingChanges DEF SocketTypeOK
<1>4. obj[o].class \notin {"free", "none"}
  BY <1>1 DEF TcpClassInv
<1>5. PICK list \in Lists, what \in {"bind", "connect"} :
        /\ Fits(list, obj[o].family)
        /\ op' = [do |-> what, o |-> o, fresh |-> FALSE, list |-> list,
                  current |-> obj[o].family]
  BY <1>1
<1>6. TcpOpInv'
  <2>1. /\ op'.do = what /\ op'.o = o /\ op'.fresh = FALSE /\ op'.list = list
        /\ op'.current = obj[o].family
    BY <1>5
  <2>2. op' \in TcpCalls
    BY <1>5, ListsAssumption DEF TcpCalls, ListsAssumption, SocketTypeOK, SocketObjects
  <2>3. Sock' = obj[o].sock
    BY <1>1, <2>1 DEF Sock
  <2>4. Fits(op'.list, obj'[op'.o].family)
    BY <1>1, <1>5, <2>1
  <2>5. Sock' # Invalid => op'.current \in {"unspec", fd'[Sock'].family}
    BY <1>1, <2>1, <2>3 DEF SocketInv
  <2>6. QED
    BY <1>1, <2>1, <2>2, <2>4, <2>5 DEF TcpOpInv, Fits
<1>7. QED
  BY <1>1, <1>2, <1>3, <1>4, <1>6, TcpChange

LEMMA SocketConnectKeeps ==
  ASSUME TcpInv, NEW o \in Objs, NEW local \in BOOLEAN, NEW family,
         SocketConnect(o, local, family)
  PROVE  TcpInv'
<1> USE DEF TcpInv
<1>1. /\ Idle /\ obj[o] = NoObj /\ UNCHANGED <<held, fd, lost>>
      /\ obj' = [obj EXCEPT ![o] = [NoObj EXCEPT !.class = "none"]]
  BY DEF SocketConnect
<1>2. op.o = Invalid
  BY <1>1, TcpIdle
<1>3. PICK list \in Lists :
        op' = [do |-> IF local THEN "bind" ELSE "connect", o |-> o, fresh |-> TRUE,
               list |-> list, current |-> "unspec"]
  BY DEF SocketConnect
<1>4. /\ obj'[o].class = "none" /\ obj'[o].sock = Invalid /\ obj'[o].family = "unspec"
      /\ \A p \in Objs \ {o} : obj'[p] = obj[p]
  BY <1>1 DEF SocketTypeOK, NoObj
<1>5. SocketTypeOK'
  BY <1>1 DEF SocketTypeOK, SocketObjects, NoObj, AnyFamily
<1>6. obj[o].sock = Invalid /\ o \notin held
  BY <1>1 DEF NoObj, TcpClassInv
<1>7. Changes(o)
  BY <1>1, <1>4, <1>6 DEF Changes
<1>8. TcpOpInv'
  <2>1. /\ op'.do \in {"bind", "connect"} /\ op'.o = o /\ op'.fresh = TRUE /\ op'.list = list
        /\ op'.current = "unspec"
    BY <1>3
  <2>2. op' \in TcpCalls
    BY <1>3, ListsAssumption DEF TcpCalls, ListsAssumption, AnyFamily
  <2>3. Sock' = Invalid
    BY <1>4, <2>1 DEF Sock
  <2>4. Fits(op'.list, obj'[op'.o].family)
    BY <1>4, <2>1 DEF Fits
  <2>5. QED
    BY <1>1, <1>4, <1>6, <2>1, <2>2, <2>3, <2>4 DEF TcpOpInv, Fits
<1>9. QED
  BY <1>1, <1>2, <1>3, <1>4, <1>5, <1>6, <1>7, <1>8, TcpChange

(* What is known in the middle of a call.                                  *)
LEMMA TcpInCall ==
  ASSUME TcpInv, op # NoOp
  PROVE  /\ op \in TcpCalls /\ op.do \in {"bind", "connect"}
         /\ op.o \in Objs /\ (op.o \in held <=> ~op.fresh)
         /\ op.fresh => obj[op.o].class = "none"
         /\ ~op.fresh => obj[op.o].class \notin {"free", "none"}
         /\ Fits(op.list, obj[op.o].family)
         /\ Sock \in Fds \union {Invalid}
         /\ Sock # Invalid =>
              /\ op.current \in {"unspec", fd[Sock].family}
              /\ obj[op.o].family \in {"unspec", fd[Sock].family}
              /\ fd[Sock].state # "closed"
         /\ op.do = "bind" /\ op.fresh /\ Sock # Invalid => fd[Sock].state = "fresh"
BY DEF TcpInv, TcpOpInv, TcpClassInv, TcpCalls, SocketTypeOK, SocketObjects, SocketInv, Sock

LEMMA FitsTail ==
  ASSUME NEW list \in Seq(Families), NEW family, Fits(list, family), list # << >>
  PROVE  /\ Tail(list) \in Seq(Families) /\ Fits(Tail(list), family)
         /\ list[1] \in Families /\ family \in {"unspec", list[1]}
BY DEF Fits

LEMMA SetSock ==
  ASSUME obj \in [Objs -> SocketObjects], NEW o \in Objs, NEW f \in Fds \union {Invalid},
         obj' = [obj EXCEPT ![o].sock = f]
  PROVE  /\ obj' \in [Objs -> SocketObjects]
         /\ obj'[o].sock = f /\ obj'[o].family = obj[o].family
         /\ obj'[o].class = obj[o].class /\ obj'[o].zero = obj[o].zero
         /\ \A p \in Objs \ {o} : obj'[p] = obj[p]
BY DEF SocketObjects

LEMMA NewSocketKeeps ==
  ASSUME TcpInv, NewSocket
  PROVE  TcpInv'
<1> USE DEF TcpInv
<1> DEFINE o == op.o
           old == Sock
<1>1. op # NoOp
  BY DEF NewSocket, NoOp
<1>2. /\ op \in TcpCalls /\ op.do \in {"bind", "connect"}
      /\ o \in Objs /\ (o \in held <=> ~op.fresh)
      /\ op.fresh => obj[o].class = "none"
      /\ ~op.fresh => obj[o].class \notin {"free", "none"}
      /\ Fits(op.list, obj[o].family)
      /\ old \in Fds \union {Invalid} /\ old = obj[o].sock
  BY <1>1, TcpInCall DEF Sock
<1>3. /\ Tail(op.list) \in Seq(Families) /\ Fits(Tail(op.list), obj[o].family)
      /\ Target \in Families /\ obj[o].family \in {"unspec", Target}
  BY <1>2, FitsTail DEF NewSocket, Target, TcpCalls
<1>4. UNCHANGED <<held, lost>>
  BY DEF NewSocket
<1>5. CASE \E f \in Fds :
             /\ Destroyed(Sock)[f] = Closed
             /\ fd' = [Destroyed(Sock) EXCEPT ![f] = [family |-> Target, state |-> "fresh"]]
             /\ obj' = [obj EXCEPT ![op.o].sock = f]
             /\ op' = [op EXCEPT !.current = Target]
  <2>1. PICK f \in Fds :
             /\ Destroyed(old)[f] = Closed
             /\ fd' = [Destroyed(old) EXCEPT ![f] = [family |-> Target, state |-> "fresh"]]
             /\ obj' = [obj EXCEPT ![o].sock = f]
             /\ op' = [op EXCEPT !.current = Target]
    BY <1>5
  <2>2. /\ fd'[f] = [family |-> Target, state |-> "fresh"]
        /\ \A g \in Fds \ {f} : fd'[g] = IF g = old THEN Closed ELSE fd[g]
        /\ f = old \/ fd[f] = Closed
    BY <2>1 DEF Destroyed
  <2>3. fd' \in [Fds -> Descriptors]
    BY <2>1, <1>3 DEF SocketTypeOK, Descriptors, Destroyed, Closed, AnyFamily
  <2>4. /\ obj' \in [Objs -> SocketObjects]
        /\ obj'[o].sock = f /\ obj'[o].family = obj[o].family /\ obj'[o].class = obj[o].class
        /\ \A p \in Objs \ {o} : obj'[p] = obj[p]
    BY <1>2, <2>1, SetSock DEF SocketTypeOK
  <2>5. SocketTypeOK'
    BY <1>4, <2>3, <2>4 DEF SocketTypeOK
  <2>6. /\ op'.o = op.o /\ op'.do = op.do /\ op'.fresh = op.fresh /\ op'.list = op.list
        /\ op'.current = Target /\ op' \in TcpCalls
    BY <1>2, <1>3, <2>1 DEF TcpCalls, AnyFamily
  <2> HIDE DEF o, old
  <2>7. Changes(o)
    BY <1>2, <1>3, <1>4, <2>2, <2>4 DEF Changes, Closed
  <2>8. Sock' = f
    BY <2>4, <2>6 DEF Sock, o
  <2>9. TcpOpInv'
    BY <1>2, <1>4, <2>2, <2>4, <2>6, <2>8 DEF TcpOpInv, Fits, o
  <2>10. QED
    <3>1. /\ o \in Objs /\ held' \subseteq held \union {o}
          /\ o \in held' => obj'[o].class \notin {"free", "none"}
          /\ op'.o = o /\ op.o = o
      BY <1>2, <1>4, <2>4, <2>6 DEF o
    <3>2. QED
      BY <3>1, <2>5, <2>7, <2>9, TcpChange
<1>6. CASE /\ fd' = Destroyed(Sock)
           /\ obj' = [obj EXCEPT ![op.o].sock = Invalid]
           /\ op' = [op EXCEPT !.list = Tail(@)]
  <2>1. \A g \in Fds : fd'[g] = IF g = old THEN Closed ELSE fd[g]
    BY <1>6 DEF Destroyed
  <2>2. fd' \in [Fds -> Descriptors]
    BY <1>6 DEF SocketTypeOK, Descriptors, Destroyed, Closed, AnyFamily
  <2>3. /\ obj' \in [Objs -> SocketObjects]
        /\ obj'[o].sock = Invalid /\ obj'[o].family = obj[o].family
        /\ obj'[o].class = obj[o].class
        /\ \A p \in Objs \ {o} : obj'[p] = obj[p]
    BY <1>2, <1>6, SetSock DEF SocketTypeOK
  <2>4. SocketTypeOK'
    BY <1>4, <2>2, <2>3 DEF SocketTypeOK
  <2>5. /\ op'.o = op.o /\ op'.do = op.do /\ op'.fresh = op.fresh
        /\ op'.list = Tail(op.list) /\ op' \in TcpCalls
    BY <1>2, <1>3, <1>6 DEF TcpCalls
  <2> HIDE DEF o, old
  <2>6. Changes(o)
    BY <1>2, <1>4, <2>1, <2>3 DEF Changes, Closed
  <2>7. Sock' = Invalid
    BY <2>3, <2>5 DEF Sock, o
  <2>8. TcpOpInv'
    BY <1>2, <1>3, <1>4, <2>3, <2>5, <2>7 DEF TcpOpInv, Fits, o
  <2>9. QED
    <3>1. /\ o \in Objs /\ held' \subseteq held \union {o}
          /\ o \in held' => obj'[o].class \notin {"free", "none"}
          /\ op'.o = o /\ op.o = o
      BY <1>2, <1>4, <2>3, <2>5 DEF o
    <3>2. QED
      BY <3>1, <2>4, <2>6, <2>8, TcpChange
<1>7. QED
  BY <1>5, <1>6 DEF NewSocket

(* An address is passed over.                                              *)
LEMMA NextAddress ==
  ASSUME TcpInv, op # NoOp, op.list # << >>, op' = [op EXCEPT !.list = Tail(@)],
         UNCHANGED <<obj, held, lost>>, fd' \in [Fds -> Descriptors],
         \A f \in Fds \ {Sock} : fd'[f] = fd[f],
         Sock # Invalid =>
           /\ fd'[Sock].family = fd[Sock].family
           /\ fd'[Sock].state # "closed"
           /\ op.do = "bind" => fd'[Sock] = fd[Sock]
  PROVE  TcpInv'
<1> USE DEF TcpInv
<1> DEFINE o == op.o
<1>1. /\ op \in TcpCalls /\ op.do \in {"bind", "connect"}
      /\ o \in Objs /\ (o \in held <=> ~op.fresh)
      /\ op.fresh => obj[o].class = "none"
      /\ ~op.fresh => obj[o].class \notin {"free", "none"}
      /\ Fits(op.list, obj[o].family)
      /\ Sock # Invalid =>
           /\ op.current \in {"unspec", fd[Sock].family}
           /\ obj[o].family \in {"unspec", fd[Sock].family}
      /\ op.do = "bind" /\ op.fresh /\ Sock # Invalid => fd[Sock].state = "fresh"
  BY TcpInCall
<1>2. Tail(op.list) \in Seq(Families) /\ Fits(Tail(op.list), obj[o].family)
  BY <1>1, FitsTail DEF TcpCalls
<1>3. /\ op'.o = o /\ op'.do = op.do /\ op'.fresh = op.fresh /\ op'.current = op.current
      /\ op'.list = Tail(op.list) /\ op' \in TcpCalls
  BY <1>1, <1>2 DEF TcpCalls
<1>4. SocketTypeOK' /\ Sock = obj[o].sock
  BY DEF SocketTypeOK, Sock
<1> HIDE DEF o
<1>5. Sock' = Sock
  BY <1>3, <1>4 DEF Sock
<1>6. Changes(o)
  BY <1>1, <1>4 DEF Changes
<1>7. TcpOpInv'
  BY <1>1, <1>2, <1>3, <1>5 DEF TcpOpInv, Fits
<1>8. /\ o \in Objs /\ held' \subseteq held \union {o}
      /\ o \in held' => obj'[o].class \notin {"free", "none"}
      /\ op'.o = o /\ op.o = o
  BY <1>1, <1>3 DEF o
<1>9. QED
  BY <1>4, <1>6, <1>7, <1>8, TcpChange

LEMMA TryBindKeeps ==
  ASSUME TcpInv, TryBind
  PROVE  TcpInv'
<1> USE DEF TcpInv
<1> DEFINE o == op.o
<1>1. /\ op.do = "bind" /\ op.list # << >> /\ op.current = Target /\ Sock # Invalid
      /\ op # NoOp
  BY DEF TryBind, Trying, NoOp
<1>2. /\ op \in TcpCalls
      /\ o \in Objs /\ (o \in held <=> ~op.fresh)
      /\ op.fresh => obj[o].class = "none"
      /\ ~op.fresh => obj[o].class \notin {"free", "none"}
      /\ Sock \in Fds /\ Sock = obj[o].sock
      /\ op.current \in {"unspec", fd[Sock].family}
      /\ fd[Sock].state # "closed" /\ fd[Sock] \in Descriptors
      /\ Fits(op.list, obj[o].family)
  BY <1>1, TcpInCall DEF Sock, SocketTypeOK
<1>3. op.current \in Families /\ op.current = fd[Sock].family
  <2>1. Target \in Families /\ "unspec" \notin Families
    BY <1>1, <1>2, FitsTail DEF Target, TcpCalls, Families
  <2>2. QED
    BY <2>1, <1>1, <1>2
<1>4. CASE /\ op' = [op EXCEPT !.list = Tail(@)]
           /\ UNCHANGED <<obj, held, fd, lost>>
  BY <1>1, <1>2, <1>4, NextAddress DEF SocketTypeOK
<1>5. CASE /\ fd' = [fd EXCEPT ![Sock].state = "bound"]
           /\ obj' = [obj EXCEPT ![op.o].family = op.current]
           /\ BindEnds(TRUE)
  <2>1. UNCHANGED <<held, lost>>
    BY <1>5 DEF BindEnds
  <2>2. /\ fd' \in [Fds -> Descriptors]
        /\ \A f \in Fds \ {Sock} : fd'[f] = fd[f]
        /\ fd'[Sock].state = "bound" /\ fd'[Sock].family = fd[Sock].family
    BY <1>2, <1>5 DEF SocketTypeOK, Descriptors
  <2>3. /\ obj' \in [Objs -> SocketObjects]
        /\ \A p \in Objs \ {o} : obj'[p] = obj[p]
        /\ obj'[o].class = obj[o].class /\ obj'[o].sock = Sock
        /\ obj'[o].family = op.current
    BY <1>2, <1>3, <1>5 DEF SocketTypeOK, SocketObjects, AnyFamily
  <2>4. SocketTypeOK'
    BY <2>1, <2>2, <2>3 DEF SocketTypeOK
  <2> HIDE DEF o
  <2>5. Changes(o)
    BY <1>1, <1>2, <1>3, <2>1, <2>2, <2>3 DEF Changes
  <2>6. CASE ~op.fresh
    <3>1. op' = NoOp
      BY <1>5, <2>6 DEF BindEnds
    <3>2. TcpOpInv'
      BY <3>1, TcpNoCall
    <3>3. /\ held' \subseteq held \union {o}
          /\ o \in held' => obj'[o].class \notin {"free", "none"}
          /\ obj'[o].class # "none" /\ op.o = o
      BY <1>2, <2>1, <2>3, <2>6 DEF o
    <3>4. QED
      BY <1>2, <2>4, <2>5, <3>2, <3>3, TcpChange
  <2>7. CASE op.fresh
    <3>1. PICK list \in Lists :
            /\ Fits(list, op.current)
            /\ op' = [op EXCEPT !.do = "connect", !.list = list]
      BY <1>5, <2>7 DEF BindEnds
    <3>2. /\ op'.o = op.o /\ op'.do = "connect" /\ op'.fresh = op.fresh
          /\ op'.current = op.current /\ op'.list = list /\ op' \in TcpCalls
      BY <1>2, <3>1, ListsAssumption DEF TcpCalls, ListsAssumption
    <3>3. Sock' = Sock
      BY <2>3, <3>2 DEF Sock, o
    <3>4. TcpOpInv'
      BY <1>2, <1>3, <2>1, <2>2, <2>3, <3>1, <3>2, <3>3 DEF TcpOpInv, Fits, o
    <3>5. /\ held' \subseteq held \union {o}
          /\ o \in held' => obj'[o].class \notin {"free", "none"}
          /\ op'.o = o /\ op.o = o
      BY <1>2, <2>1, <2>7, <3>2 DEF o
    <3>6. QED
      BY <1>2, <2>4, <2>5, <3>4, <3>5, TcpChange
  <2>8. QED
    BY <2>6, <2>7, <1>2 DEF TcpCalls
<1>6. QED
  BY <1>4, <1>5 DEF TryBind

LEMMA BindFailsKeeps ==
  ASSUME TcpInv, BindFails
  PROVE  TcpInv'
<1> USE DEF TcpInv
<1> DEFINE o == op.o
<1>1. op.do = "bind" /\ op # NoOp /\ op' = NoOp /\ UNCHANGED <<obj, held, fd, lost>>
  BY DEF BindFails, BindEnds, NoOp
<1>2. /\ o \in Objs /\ (o \in held <=> ~op.fresh) /\ op \in TcpCalls
      /\ ~op.fresh => obj[o].class \notin {"free", "none"}
      /\ op.fresh /\ Sock # Invalid => fd[Sock].state = "fresh"
  BY <1>1, TcpInCall
<1>3. SocketTypeOK' /\ Changes(o)
  BY <1>1, <1>2, NothingChanges DEF SocketTypeOK
<1>4. TcpOpInv'
  BY <1>1, TcpNoCall
<1>5. /\ held' \subseteq held \union {o}
      /\ o \in held' => obj'[o].class \notin {"free", "none"}
      /\ obj'[o].class = "none" /\ op'.o # o /\ obj'[o].sock # Invalid =>
           fd'[obj'[o].sock].state = "fresh"
      /\ op.o = o
  BY <1>1, <1>2 DEF Sock, TcpCalls
<1>6. QED
  BY <1>2, <1>3, <1>4, <1>5, TcpChange

LEMMA ConnectEndsKeeps ==
  ASSUME TcpInv, op # NoOp, NEW connected \in BOOLEAN, NEW family \in AnyFamily,
         NEW states \in [Fds -> Descriptors],
         \A f \in Fds \ {Sock} : states[f] = fd[f],
         Sock # Invalid =>
           /\ states[Sock].family = fd[Sock].family
           /\ states[Sock].state # "closed"
           /\ family \in {"unspec", fd[Sock].family},
         ConnectEnds(connected, states, family)
  PROVE  TcpInv'
<1> USE DEF TcpInv
<1> DEFINE o == op.o
<1>1. /\ o \in Objs /\ (o \in held <=> ~op.fresh) /\ op.fresh \in BOOLEAN
      /\ ~op.fresh => obj[o].class \notin {"free", "none"}
      /\ op.fresh => obj[o].class = "none"
      /\ Sock \in Fds \union {Invalid} /\ Sock = obj[o].sock
  BY TcpInCall DEF TcpCalls, Sock
<1>2. op' = NoOp /\ UNCHANGED lost /\ held' = IF connected THEN held \cup {o} ELSE held
  BY DEF ConnectEnds
<1>3. TcpOpInv'
  BY <1>2, TcpNoCall
<1>4. CASE op.fresh /\ ~connected
  <2>1. /\ fd' = [f \in Fds |-> IF f = Sock THEN Closed ELSE states[f]]
        /\ obj' = [obj EXCEPT ![op.o].sock = Invalid, ![op.o].family = family]
    BY <1>4 DEF ConnectEnds
  <2>2. /\ fd' \in [Fds -> Descriptors]
        /\ \A f \in Fds : fd'[f] = IF f = Sock THEN Closed ELSE fd[f]
    BY <2>1 DEF Closed, Descriptors, AnyFamily
  <2>3. /\ obj' \in [Objs -> SocketObjects]
        /\ \A p \in Objs \ {o} : obj'[p] = obj[p]
        /\ obj'[o].sock = Invalid
    BY <1>1, <2>1 DEF SocketTypeOK, SocketObjects
  <2>4. SocketTypeOK' /\ held' = held
    BY <1>2, <1>4, <2>2, <2>3 DEF SocketTypeOK
  <2> HIDE DEF o
  <2>5. Changes(o)
    BY <1>1, <1>2, <2>2, <2>3 DEF Changes, Closed
  <2>6. /\ held' \subseteq held \union {o} /\ o \notin held' /\ op.o = o
        /\ obj'[o].sock = Invalid
    BY <1>1, <1>4, <2>3, <2>4 DEF o
  <2>7. QED
    BY <1>1, <1>3, <2>4, <2>5, <2>6, TcpChange
<1>5. CASE ~(op.fresh /\ ~connected)
  <2>1. /\ fd' = states
        /\ obj' = [obj EXCEPT ![op.o].class = "client", ![op.o].family = family]
    BY <1>5 DEF ConnectEnds
  <2>2. /\ obj' \in [Objs -> SocketObjects]
        /\ \A p \in Objs \ {o} : obj'[p] = obj[p]
        /\ obj'[o].sock = Sock /\ obj'[o].class = "client" /\ obj'[o].family = family
    BY <1>1, <2>1 DEF SocketTypeOK, SocketObjects
  <2>3. SocketTypeOK'
    BY <1>1, <1>2, <2>1, <2>2 DEF SocketTypeOK
  <2> HIDE DEF o
  <2>4. Changes(o)
    BY <1>1, <1>2, <2>1, <2>2 DEF Changes
  <2>5. /\ held' \subseteq held \union {o} /\ obj'[o].class = "client" /\ op.o = o
    BY <1>2, <2>2 DEF o
  <2>6. QED
    BY <1>1, <1>3, <2>3, <2>4, <2>5, TcpChange
<1>6. QED
  BY <1>4, <1>5

LEMMA TryConnectKeeps ==
  ASSUME TcpInv, TryConnect
  PROVE  TcpInv'
<1> DEFINE states == [fd EXCEPT ![Sock].state = "connected"]
<1>1. /\ op # NoOp /\ op.list # << >> /\ op.current = Target /\ Sock # Invalid
      /\ ConnectEnds(TRUE, states, op.current)
  <2>1. op # NoOp
    BY DEF TryConnect, Trying, NoOp
  <2>2. QED
    BY <2>1 DEF TryConnect, Trying
<1>2. /\ Sock \in Fds /\ op \in TcpCalls /\ op.current \in {"unspec", fd[Sock].family}
      /\ fd[Sock] \in Descriptors
  BY <1>1, TcpInCall DEF TcpInv, SocketTypeOK
<1>3. /\ states \in [Fds -> Descriptors]
      /\ \A f \in Fds \ {Sock} : states[f] = fd[f]
      /\ states[Sock].family = fd[Sock].family /\ states[Sock].state = "connected"
  BY <1>2 DEF TcpInv, SocketTypeOK, Descriptors
<1>4. op.current \in AnyFamily
  BY <1>2 DEF TcpCalls
<1> HIDE DEF states
<1>5. QED
  BY <1>1, <1>2, <1>3, <1>4, ConnectEndsKeeps

LEMMA ConnectErrorKeeps ==
  ASSUME TcpInv, ConnectError
  PROVE  TcpInv'
<1>1. op # NoOp /\ op.do = "connect" /\ op.list # << >> /\ Sock # Invalid
  BY DEF ConnectError, Trying, NoOp
<1>2. /\ Sock \in Fds /\ op \in TcpCalls /\ op.current \in {"unspec", fd[Sock].family}
      /\ fd[Sock] \in Descriptors /\ fd[Sock].state # "closed"
  BY <1>1, TcpInCall DEF TcpInv, SocketTypeOK
<1> DEFINE next(state) == [fd EXCEPT ![Sock].state = state]
<1>3. PICK state \in CASE fd[Sock].state \in {"fresh", "bound"} -> {fd[Sock].state, "connecting"}
                       [] fd[Sock].state = "connecting" -> {"connecting", "bound"}
                       [] OTHER -> {fd[Sock].state} :
        IF obj[op.o].zero THEN ConnectEnds(FALSE, next(state), op.current)
        ELSE /\ fd' = next(state)
             /\ op' = [op EXCEPT !.list = Tail(@)]
             /\ UNCHANGED <<obj, held, lost>>
  BY DEF ConnectError
<1>4. state \in {fd[Sock].state, "connecting", "bound"}
  BY <1>3
<1> DEFINE states == next(state)
<1>5. /\ states \in [Fds -> Descriptors]
      /\ \A f \in Fds \ {Sock} : states[f] = fd[f]
      /\ states[Sock].family = fd[Sock].family /\ states[Sock].state # "closed"
  BY <1>2, <1>4 DEF TcpInv, SocketTypeOK, Descriptors
<1>6. op.current \in AnyFamily
  BY <1>2 DEF TcpCalls
<1>7. CASE obj[op.o].zero
  <2>1. ConnectEnds(FALSE, states, op.current)
    BY <1>3, <1>7
  <2> HIDE DEF states
  <2>2. QED
    BY <2>1, <1>1, <1>2, <1>5, <1>6, ConnectEndsKeeps
<1>8. CASE ~obj[op.o].zero
  <2>1. /\ fd' = states
        /\ op' = [op EXCEPT !.list = Tail(@)]
        /\ UNCHANGED <<obj, held, lost>>
    BY <1>3, <1>8
  <2> HIDE DEF states
  <2>2. QED
    BY <2>1, <1>1, <1>5, NextAddress
<1>9. QED
  BY <1>7, <1>8

LEMMA ConnectGivesUpKeeps ==
  ASSUME TcpInv, ConnectGivesUp
  PROVE  TcpInv'
<1>1. op # NoOp /\ ConnectEnds(FALSE, fd, obj[op.o].family)
  <2>1. op # NoOp
    BY DEF ConnectGivesUp, NoOp
  <2>2. QED
    BY <2>1 DEF ConnectGivesUp
<1>2. /\ op.o \in Objs
      /\ Sock # Invalid =>
           obj[op.o].family \in {"unspec", fd[Sock].family} /\ fd[Sock].state # "closed"
  BY <1>1, TcpInCall
<1>3. fd \in [Fds -> Descriptors] /\ obj[op.o].family \in AnyFamily
  BY <1>2 DEF TcpInv, SocketTypeOK, SocketObjects
<1>4. QED
  BY <1>1, <1>2, <1>3, ConnectEndsKeeps

LEMMA TcpGcKeeps ==
  ASSUME TcpInv, NEW o \in Objs, TcpGc(o)
  PROVE  TcpInv'
<1> USE DEF TcpInv
<1> DEFINE old == obj[o].sock
<1>1. /\ o \notin held /\ op.o # o /\ UNCHANGED <<held, op>>
      /\ obj' = [obj EXCEPT ![o] = NoObj]
  BY DEF TcpGc
<1>2. /\ obj' \in [Objs -> SocketObjects]
      /\ obj'[o] = NoObj /\ obj'[o].class = "free" /\ obj'[o].sock = Invalid
      /\ \A p \in Objs \ {o} : obj'[p] = obj[p]
  BY <1>1 DEF SocketTypeOK, SocketObjects, NoObj, AnyFamily
<1>3. old \in Fds \union {Invalid}
  BY DEF SocketTypeOK, SocketObjects
<1>4. CASE obj[o].class = "none"
  <2>1. lost' = lost \cup ({old} \ {Invalid}) /\ fd' = fd
    BY <1>4 DEF TcpGc
  <2>2. SocketTypeOK'
    BY <1>1, <1>2, <1>3, <2>1 DEF SocketTypeOK
  <2>3. old # Invalid => fd[old].state = "fresh"
    BY <1>1, <1>4 DEF TcpClassInv
  <2> HIDE DEF old
  <2>4. SocketInv'
    <3>1. \A p \in Objs : obj'[p].sock # Invalid =>
            p # o /\ obj'[p] = obj[p] /\ obj[p].sock # old
      BY <1>2 DEF SocketInv, old
    <3>2. \A f \in Fds : fd[f].state # "closed" =>
            f \in lost' \/ \E p \in Objs : obj'[p].sock = f
      <4> SUFFICES ASSUME NEW f \in Fds, fd[f].state # "closed", f \notin lost'
                   PROVE  \E p \in Objs : obj'[p].sock = f
        OBVIOUS
      <4>1. f # old /\ f \notin lost
        BY <2>1, InvalidAssumption DEF InvalidAssumption
      <4>2. PICK p \in Objs : obj[p].sock = f
        BY <4>1 DEF SocketInv
      <4>3. p # o
        BY <4>1, <4>2 DEF old
      <4>4. QED
        BY <4>2, <4>3, <1>2
    <3>3. \A f \in lost' : fd'[f].state = "fresh" /\ \A p \in Objs : obj'[p].sock # f
      <4> SUFFICES ASSUME NEW f \in lost'
                   PROVE  fd[f].state = "fresh" /\ \A p \in Objs : obj'[p].sock # f
        BY <2>1
      <4>1. f \in Fds /\ f # Invalid
        BY <2>2, InvalidAssumption DEF SocketTypeOK, InvalidAssumption
      <4>2. CASE f \in lost
        BY <4>1, <4>2, <1>2 DEF SocketInv
      <4>3. CASE f = old
        BY <4>1, <4>3, <2>3, <3>1
      <4>4. QED
        BY <4>2, <4>3, <2>1
    <3>4. QED
      BY <3>1, <3>2, <3>3, <2>1 DEF SocketInv
  <2>5. TcpOpInv'
    <3>1. CASE op.do = "idle"
      BY <1>1, <3>1 DEF TcpOpInv
    <3>2. CASE op.do # "idle"
      <4>1. op.o \in Objs /\ obj'[op.o] = obj[op.o] /\ op' = op
        BY <1>1, <1>2, <3>2 DEF TcpOpInv
      <4>2. Sock' = Sock
        BY <4>1 DEF Sock
      <4>3. QED
        BY <4>1, <4>2, <3>2, <1>1, <2>1 DEF TcpOpInv, Fits
    <3>3. QED
      BY <3>1, <3>2
  <2>6. TcpClassInv'
    BY <1>1, <1>2, <2>1 DEF TcpClassInv, SocketTypeOK
  <2>7. QED
    BY <2>2, <2>4, <2>5, <2>6
<1>5. CASE obj[o].class # "none"
  <2>1. fd' = Destroyed(old) /\ UNCHANGED lost
    BY <1>5 DEF TcpGc
  <2>2. /\ fd' \in [Fds -> Descriptors]
        /\ \A f \in Fds : fd'[f] = IF f = old THEN Closed ELSE fd[f]
    BY <2>1 DEF Destroyed, Closed, SocketTypeOK, Descriptors, AnyFamily
  <2>3. SocketTypeOK'
    BY <1>1, <1>2, <2>1, <2>2 DEF SocketTypeOK
  <2>4. Changes(o)
    BY <1>2, <1>3, <2>1, <2>2 DEF Changes, Closed
  <2>5. TcpOpInv'
    BY <1>1, <2>3, <2>4, TcpCallKept
  <2>6. QED
    BY <1>1, <1>2, <2>3, <2>4, <2>5, TcpChange
<1>6. QED
  BY <1>4, <1>5

LEMMA SettlesKeeps ==
  ASSUME TcpInv, NEW f \in Fds, Settles(f)
  PROVE  TcpInv'
<1> USE DEF TcpInv
<1>1. /\ fd[f].state = "connecting"
      /\ fd' = [fd EXCEPT ![f].state = "connected"]
      /\ UNCHANGED <<obj, held, op, lost>>
  BY DEF Settles
<1>2. /\ fd' \in [Fds -> Descriptors]
      /\ \A g \in Fds \ {f} : fd'[g] = fd[g]
      /\ fd'[f].state = "connected" /\ fd'[f].family = fd[f].family
  BY <1>1 DEF SocketTypeOK, Descriptors
<1>3. SocketTypeOK'
  BY <1>1, <1>2 DEF SocketTypeOK
<1>4. PICK o \in Objs : obj[o].sock = f
  BY <1>1 DEF SocketInv
<1>5. Changes(o)
  BY <1>1, <1>2, <1>4 DEF Changes, SocketInv
<1>6. /\ held' \subseteq held \union {o}
      /\ o \in held' => obj'[o].class \notin {"free", "none"}
      /\ op.o = op'.o
  BY <1>1 DEF TcpClassInv
<1>7. ~(obj'[o].class = "none" /\ op'.o # o)
  BY <1>1, <1>4, InvalidAssumption DEF TcpClassInv, InvalidAssumption
<1>8. TcpOpInv'
  <2>1. CASE op.do = "idle"
    BY <1>1, <2>1 DEF TcpOpInv
  <2>2. CASE op.do # "idle"
    <3>1. Sock' = Sock /\ op \in TcpCalls
      BY <1>1 DEF Sock, TcpOpInv
    <3>2. /\ Sock # Invalid => op.current \in {"unspec", fd[Sock].family}
          /\ op.do = "bind" /\ op.fresh /\ Sock # Invalid => fd[Sock].state = "fresh"
          /\ op.o \in Objs
      BY <2>2 DEF TcpOpInv
    <3>3. Sock # Invalid =>
            Sock \in Fds /\ fd'[Sock].family = fd[Sock].family
            /\ (fd[Sock].state = "fresh" => fd'[Sock].state = "fresh")
      BY <1>1, <1>2, <3>2 DEF Sock, SocketTypeOK, SocketObjects
    <3>4. QED
      BY <1>1, <2>2, <3>1, <3>2, <3>3 DEF TcpOpInv, Fits
  <2>3. QED
    BY <2>1, <2>2
<1>9. QED
  BY <1>3, <1>5, <1>6, <1>7, <1>8, TcpChange

LEMMA TcpInit0 == TcpInit => TcpInv
<1> SUFFICES ASSUME TcpInit
             PROVE  TcpInv
  OBVIOUS
<1>1. \A o \in Objs : obj[o].sock = Invalid /\ obj[o].class = "free"
  BY DEF TcpInit, NoObj
<1>2. \A f \in Fds : fd[f].state = "closed"
  BY DEF TcpInit, Closed
<1>3. SocketTypeOK
  BY DEF TcpInit, SocketTypeOK, SocketObjects, Descriptors, NoObj, Closed, AnyFamily
<1>4. SocketInv
  BY <1>1, <1>2 DEF TcpInit, SocketInv
<1>5. TcpOpInv
  BY DEF TcpInit, TcpOpInv, TcpCalls, NoOp, AnyFamily
<1>6. TcpClassInv
  BY <1>1 DEF TcpInit, TcpClassInv
<1>7. QED
  BY <1>3, <1>4, <1>5, <1>6 DEF TcpInv

LEMMA TcpStep == TcpInv /\ [TcpNext]_tcpVars => TcpInv'
<1> SUFFICES ASSUME TcpInv, [TcpNext]_tcpVars
             PROVE  TcpInv'
  OBVIOUS
<1>1. ASSUME NEW o \in Objs, NEW family \in Families \cup {"unspec"}, TcpCreate(o, family)
      PROVE  TcpInv'
  BY <1>1, TcpCreateKeeps DEF AnyFamily
<1>2. CASE UNCHANGED tcpVars
  BY <1>2 DEF tcpVars, TcpInv, SocketTypeOK, SocketInv, TcpOpInv, TcpClassInv, Fits, Sock
<1>3. QED
  BY <1>1, <1>2, TcpMethodKeeps, SocketConnectKeeps, TcpCallKeeps, TcpAcceptKeeps,
     TcpGcKeeps, NewSocketKeeps, TryBindKeeps, BindFailsKeeps, TryConnectKeeps,
     ConnectErrorKeeps, ConnectGivesUpKeeps, SettlesKeeps
  DEF TcpNext

LEMMA TcpInvOwns == TcpInv => TcpOwns
<1> SUFFICES ASSUME TcpInv
             PROVE  TcpOwns
  OBVIOUS
<1>1. \A f \in Fds : fd[f].state # "closed" =>
        Cardinality({o \in Objs : obj[o].sock = f}) = IF f \in lost THEN 0 ELSE 1
  BY OwnersCounted DEF TcpInv
<1>2. QED
  BY <1>1 DEF TcpInv, SocketInv, TcpOwns

UdpCalls == [do : {"idle", "bind", "connect"}, o : Objs \union {Invalid},
             list : Seq(Families), current : AnyFamily]

UdpOpInv ==
  /\ op \in UdpCalls
  /\ op.do = "idle" => op = Udp!NoOp
  /\ op.do # "idle" =>
       /\ op.o \in held
       /\ Fits(op.list, obj[op.o].family)
       /\ Sock # Invalid => op.current \in {"unspec", fd[Sock].family}

(* The family of an object with a peer is known; another has none.         *)
UdpClassInv ==
  /\ \A o \in held : obj[o].class \in {"unconnected", "connected"}
  /\ \A o \in Objs : obj[o].class = "connected" => obj[o].family # "unspec"
  /\ \A o \in Objs : obj[o].class # "connected" /\ obj[o].sock # Invalid =>
       fd[obj[o].sock].state = "open"

UdpInv == SocketTypeOK /\ SocketInv /\ lost = {} /\ UdpOpInv /\ UdpClassInv

LEMMA UdpChange ==
  ASSUME UdpInv, SocketTypeOK', NEW o \in Objs, Changes(o),
         held' \subseteq held \union {o},
         o \in held' => obj'[o].class \in {"unconnected", "connected"},
         obj'[o].class = "connected" => obj'[o].family # "unspec",
         obj'[o].class # "connected" /\ obj'[o].sock # Invalid =>
           fd'[obj'[o].sock].state = "open",
         UdpOpInv'
  PROVE  UdpInv'
<1> USE DEF UdpInv
<1>1. SocketInv' /\ lost' = {}
  BY SocketChange DEF Changes
<1>2. \A p \in Objs \ {o} : obj'[p] = obj[p]
  BY DEF Changes
<1>3. \A p \in Objs \ {o} : obj[p].sock # Invalid => fd'[obj[p].sock] = fd[obj[p].sock]
  <2> SUFFICES ASSUME NEW p \in Objs \ {o}, obj[p].sock # Invalid
               PROVE  fd'[obj[p].sock] = fd[obj[p].sock]
    OBVIOUS
  <2>1. obj[p].sock \in Fds
    BY DEF SocketTypeOK, SocketObjects
  <2>2. obj[p].sock # obj[o].sock
    BY DEF SocketInv
  <2>3. obj[p].sock # obj'[o].sock
    BY <2>2 DEF SocketInv, Changes
  <2>4. QED
    BY <2>1, <2>2, <2>3 DEF Changes
<1>4. \A p \in held' : obj'[p].class \in {"unconnected", "connected"}
  BY <1>2 DEF UdpClassInv, SocketTypeOK
<1>5. \A p \in Objs : obj'[p].class = "connected" => obj'[p].family # "unspec"
  BY <1>2 DEF UdpClassInv
<1>6. \A p \in Objs : obj'[p].class # "connected" /\ obj'[p].sock # Invalid =>
        fd'[obj'[p].sock].state = "open"
  <2> SUFFICES ASSUME NEW p \in Objs, obj'[p].class # "connected" /\ obj'[p].sock # Invalid
               PROVE  fd'[obj'[p].sock].state = "open"
    OBVIOUS
  <2>1. CASE p = o
    BY <2>1
  <2>2. CASE p # o
    BY <2>2, <1>2, <1>3 DEF UdpClassInv
  <2>3. QED
    BY <2>1, <2>2
<1>7. QED
  BY <1>1, <1>4, <1>5, <1>6 DEF UdpClassInv

LEMMA UdpNoCall ==
  ASSUME op' = Udp!NoOp
  PROVE  UdpOpInv'
BY DEF Udp!NoOp, UdpOpInv, UdpCalls, AnyFamily

(* What is known in the middle of a call.                                  *)
LEMMA UdpInCall ==
  ASSUME UdpInv, op # Udp!NoOp
  PROVE  /\ op \in UdpCalls /\ op.do \in {"bind", "connect"}
         /\ op.o \in Objs /\ op.o \in held
         /\ obj[op.o].class \in {"unconnected", "connected"}
         /\ obj[op.o].class = "connected" => obj[op.o].family # "unspec"
         /\ Fits(op.list, obj[op.o].family)
         /\ Sock \in Fds \union {Invalid} /\ Sock = obj[op.o].sock
         /\ Sock # Invalid =>
              /\ op.current \in {"unspec", fd[Sock].family}
              /\ obj[op.o].family \in {"unspec", fd[Sock].family}
              /\ fd[Sock].state # "closed"
              /\ obj[op.o].class # "connected" => fd[Sock].state = "open"
BY DEF UdpInv, UdpOpInv, UdpClassInv, UdpCalls, SocketTypeOK, SocketObjects, SocketInv, Sock

(* A descriptor of the family is made for an object.                       *)
LEMMA TryCreateChanges ==
  ASSUME SocketTypeOK, SocketInv, NEW o \in Objs, NEW family \in Families,
         NEW object \in SocketObjects, object.family \in {"unspec", family},
         lost' = lost, held' \subseteq Objs,
         Udp!TryCreate(o, family, object)
  PROVE  /\ SocketTypeOK' /\ Changes(o)
         /\ obj'[o].family = object.family /\ obj'[o].class = object.class
         /\ obj'[o].sock # Invalid
         /\ fd'[obj'[o].sock].family = family /\ fd'[obj'[o].sock].state = "open"
<1> DEFINE old == obj[o].sock
<1>1. PICK f \in Fds :
        /\ Udp!Destroyed(old)[f] = Udp!Closed
        /\ fd' = [Udp!Destroyed(old) EXCEPT ![f] = [family |-> family, state |-> "open"]]
        /\ obj' = [obj EXCEPT ![o] = [object EXCEPT !.sock = f]]
  BY DEF Udp!TryCreate
<1>2. /\ fd'[f] = [family |-> family, state |-> "open"]
      /\ \A g \in Fds \ {f} : fd'[g] = IF g = old THEN Closed ELSE fd[g]
      /\ f = old \/ fd[f] = Closed
  BY <1>1 DEF Udp!Destroyed, Udp!Closed, Closed
<1>3. fd' \in [Fds -> Descriptors]
  BY <1>1 DEF SocketTypeOK, Descriptors, Udp!Destroyed, Udp!Closed, AnyFamily
<1>4. /\ obj' \in [Objs -> SocketObjects]
      /\ obj'[o].sock = f /\ obj'[o].family = object.family /\ obj'[o].class = object.class
      /\ \A p \in Objs \ {o} : obj'[p] = obj[p]
  BY <1>1 DEF SocketTypeOK, SocketObjects
<1>5. SocketTypeOK'
  BY <1>3, <1>4 DEF SocketTypeOK
<1>6. old \in Fds \union {Invalid} /\ f # Invalid
  BY InvalidAssumption DEF SocketTypeOK, SocketObjects, InvalidAssumption
<1> HIDE DEF old
<1>7. Changes(o)
  BY <1>2, <1>4, <1>6 DEF Changes, Closed, old
<1>8. QED
  BY <1>2, <1>4, <1>5, <1>6, <1>7

LEMMA UdpCreateKeeps ==
  ASSUME UdpInv, NEW o \in Objs, NEW family \in AnyFamily, Udp!Create(o, family),
         UNCHANGED lost
  PROVE  UdpInv'
<1> USE DEF UdpInv
<1> DEFINE object == [Udp!NoObj EXCEPT !.class = "unconnected", !.family = family]
<1>1. /\ op = Udp!NoOp /\ op' = Udp!NoOp /\ obj[o].sock = Invalid
      /\ object \in SocketObjects /\ object.class = "unconnected"
      /\ object.family = family /\ object.sock = Invalid
  <2>1. op = Udp!NoOp /\ op' = Udp!NoOp /\ obj[o] = Udp!NoObj
    BY DEF Udp!Create, Udp!Idle
  <2>2. obj[o].sock = Invalid
    BY <2>1 DEF Udp!NoObj
  <2>3. /\ object \in SocketObjects /\ object.class = "unconnected"
        /\ object.family = family /\ object.sock = Invalid
    BY DEF Udp!NoObj, SocketObjects
  <2>4. QED
    BY <2>1, <2>2, <2>3
<1>2. UdpOpInv'
  BY <1>1, UdpNoCall
<1>3. CASE family # "unspec" /\ Udp!TryCreate(o, family, object) /\ held' = held \union {o}
  <2>1. family \in Families
    BY <1>3 DEF AnyFamily
  <2>2. held' \subseteq Objs
    BY <1>3 DEF SocketTypeOK
  <2> HIDE DEF object
  <2>3. /\ SocketTypeOK' /\ Changes(o)
        /\ obj'[o].family = object.family /\ obj'[o].class = object.class
        /\ fd'[obj'[o].sock].family = family /\ fd'[obj'[o].sock].state = "open"
    BY <1>1, <1>3, <2>1, <2>2, TryCreateChanges
  <2>4. QED
    BY <1>1, <1>2, <1>3, <2>3, UdpChange
<1>4. CASE /\ obj' = [obj EXCEPT ![o] = object]
           /\ held' \in {held, held \union {o}}
           /\ UNCHANGED fd
  <2>1. /\ obj' \in [Objs -> SocketObjects]
        /\ obj'[o] = object /\ \A p \in Objs \ {o} : obj'[p] = obj[p]
    BY <1>1, <1>4 DEF SocketTypeOK
  <2>2. SocketTypeOK'
    BY <1>4, <2>1 DEF SocketTypeOK
  <2> HIDE DEF object
  <2>3. Changes(o)
    BY <1>1, <1>4, <2>1 DEF Changes
  <2>4. QED
    BY <1>1, <1>2, <1>4, <2>1, <2>2, <2>3, UdpChange
<1>5. QED
  BY <1>3, <1>4 DEF Udp!Create

(* Methods that start no call.                                             *)
LEMMA UdpMethodKeeps ==
  ASSUME UdpInv, UNCHANGED lost, NEW o \in Objs,
         \/ Udp!Close(o) \/ Udp!Drop(o) \/ Udp!Disconnect(o)
         \/ \E zero \in BOOLEAN : Udp!SetTimeout(o, zero)
         \/ \E family \in Families : Udp!SendTo(o, family)
  PROVE  UdpInv'
<1> USE DEF UdpInv
<1>1. op = Udp!NoOp /\ o \in held /\ UNCHANGED op
  BY DEF Udp!Close, Udp!Drop, Udp!Disconnect, Udp!SetTimeout, Udp!SendTo, Udp!Idle
<1>2. UdpOpInv'
  BY <1>1, UdpNoCall
<1>3. /\ obj[o].class \in {"unconnected", "connected"} /\ obj[o] \in SocketObjects
      /\ obj[o].class = "connected" => obj[o].family # "unspec"
      /\ obj[o].class # "connected" /\ obj[o].sock # Invalid => fd[obj[o].sock].state = "open"
  BY <1>1 DEF UdpClassInv, SocketTypeOK
<1>4. CASE Udp!Close(o)
  <2>1. /\ fd' = Udp!Destroyed(obj[o].sock) /\ obj' = [obj EXCEPT ![o].sock = Invalid]
        /\ UNCHANGED held
    BY <1>4 DEF Udp!Close
  <2>2. /\ fd' \in [Fds -> Descriptors]
        /\ \A f \in Fds : fd'[f] = IF f = obj[o].sock THEN Closed ELSE fd[f]
    BY <2>1 DEF Udp!Destroyed, Udp!Closed, Closed, SocketTypeOK, Descriptors, AnyFamily
  <2>3. /\ obj' \in [Objs -> SocketObjects]
        /\ obj'[o].sock = Invalid /\ obj'[o].family = obj[o].family
        /\ obj'[o].class = obj[o].class
        /\ \A p \in Objs \ {o} : obj'[p] = obj[p]
    BY <2>1, SetSock DEF SocketTypeOK
  <2>4. SocketTypeOK'
    BY <2>1, <2>2, <2>3 DEF SocketTypeOK
  <2>5. Changes(o)
    BY <1>3, <2>2, <2>3 DEF Changes, Closed, SocketObjects
  <2>6. QED
    BY <1>2, <1>3, <2>1, <2>3, <2>4, <2>5, UdpChange
<1>5. CASE Udp!Drop(o)
  <2>1. held' = held \ {o} /\ UNCHANGED <<obj, fd>>
    BY <1>5 DEF Udp!Drop
  <2>2. SocketTypeOK' /\ Changes(o)
    BY <2>1, NothingChanges DEF SocketTypeOK
  <2>3. QED
    BY <1>2, <1>3, <2>1, <2>2, UdpChange
<1>6. CASE Udp!Disconnect(o)
  <2> DEFINE f == obj[o].sock
  <2>1. /\ obj' = [obj EXCEPT ![o].class = "unconnected"]
        /\ fd' = IF f # Invalid /\ obj[o].family # "unspec"
                 THEN [fd EXCEPT ![f].state = "open"] ELSE fd
        /\ UNCHANGED held
    BY <1>6 DEF Udp!Disconnect
  <2>2. f \in Fds \union {Invalid}
    BY <1>3 DEF SocketObjects
  <2>3. /\ obj' \in [Objs -> SocketObjects]
        /\ obj'[o].sock = f /\ obj'[o].family = obj[o].family
        /\ obj'[o].class = "unconnected"
        /\ \A p \in Objs \ {o} : obj'[p] = obj[p]
    BY <1>3, <2>1 DEF SocketTypeOK, SocketObjects
  <2>4. /\ fd' \in [Fds -> Descriptors]
        /\ \A g \in Fds \ {f} : fd'[g] = fd[g]
        /\ f # Invalid => fd'[f].family = fd[f].family /\ fd'[f].state \in {fd[f].state, "open"}
        /\ f # Invalid /\ obj[o].family # "unspec" => fd'[f].state = "open"
    BY <2>1, <2>2 DEF SocketTypeOK, Descriptors
  <2>5. f # Invalid => fd'[f].state = "open"
    BY <1>3, <2>4
  <2>6. SocketTypeOK'
    BY <2>1, <2>3, <2>4 DEF SocketTypeOK
  <2>7. Changes(o)
    BY <2>3, <2>4, <2>5 DEF Changes, SocketInv
  <2>8. QED
    BY <1>2, <2>1, <2>3, <2>5, <2>6, <2>7, UdpChange
<1>7. ASSUME NEW zero \in BOOLEAN, Udp!SetTimeout(o, zero)
      PROVE  UdpInv'
  <2>1. obj' = [obj EXCEPT ![o].zero = zero] /\ UNCHANGED <<held, fd>>
    BY <1>7 DEF Udp!SetTimeout
  <2>2. /\ obj' \in [Objs -> SocketObjects]
        /\ obj'[o].sock = obj[o].sock /\ obj'[o].class = obj[o].class
        /\ obj'[o].family = obj[o].family
        /\ \A p \in Objs \ {o} : obj'[p] = obj[p]
    BY <1>3, <2>1 DEF SocketTypeOK, SocketObjects
  <2>3. SocketTypeOK'
    BY <2>1, <2>2 DEF SocketTypeOK
  <2>4. Changes(o)
    BY <2>1, <2>2 DEF Changes, SocketInv
  <2>5. QED
    BY <1>2, <1>3, <2>1, <2>2, <2>3, <2>4, UdpChange
<1>8. ASSUME NEW family \in Families, Udp!SendTo(o, family)
      PROVE  UdpInv'
  <2> DEFINE object == [obj[o] EXCEPT !.family = family]
  <2>1. /\ Udp!TryCreate(o, family, object) /\ UNCHANGED held
        /\ obj[o].class = "unconnected"
    BY <1>8 DEF Udp!SendTo
  <2>2. object \in SocketObjects /\ object.family = family /\ object.class = obj[o].class
    BY <1>3 DEF SocketObjects, AnyFamily
  <2>3. held' \subseteq Objs
    BY <2>1 DEF SocketTypeOK
  <2> HIDE DEF object
  <2>4. /\ SocketTypeOK' /\ Changes(o)
        /\ obj'[o].family = object.family /\ obj'[o].class = object.class
        /\ fd'[obj'[o].sock].state = "open"
    BY <2>1, <2>2, <2>3, TryCreateChanges
  <2>5. QED
    BY <1>2, <2>1, <2>2, <2>4, UdpChange
<1>9. QED
  BY <1>4, <1>5, <1>6, <1>7, <1>8

LEMMA UdpResolveKeeps ==
  ASSUME UdpInv, UNCHANGED lost, NEW o \in Objs, NEW what \in {"bind", "connect"},
         Udp!Resolve(o, what)
  PROVE  UdpInv'
<1> USE DEF UdpInv
<1>1. o \in held /\ UNCHANGED <<obj, held, fd>>
  BY DEF Udp!Resolve
<1>2. PICK list \in Lists :
        /\ \A i \in 1 .. Len(list) : obj[o].family \in {"unspec", list[i]}
        /\ op' = [do |-> what, o |-> o, list |-> list, current |-> obj[o].family]
  BY DEF Udp!Resolve
<1>3. SocketTypeOK' /\ Changes(o)
  BY <1>1, NothingChanges DEF SocketTypeOK
<1>4. UdpOpInv'
  <2>1. /\ op'.do = what /\ op'.o = o /\ op'.list = list /\ op'.current = obj[o].family
        /\ op' \in UdpCalls
    BY <1>2, ListsAssumption DEF UdpCalls, ListsAssumption, SocketTypeOK, SocketObjects
  <2>2. Sock' = obj[o].sock
    BY <1>1, <2>1 DEF Sock
  <2>3. Sock' # Invalid => op'.current \in {"unspec", fd'[Sock'].family}
    BY <1>1, <2>1, <2>2 DEF SocketInv
  <2>4. QED
    BY <1>1, <1>2, <2>1, <2>3 DEF UdpOpInv, Fits
<1>5. /\ obj[o].class \in {"unconnected", "connected"}
      /\ obj[o].class = "connected" => obj[o].family # "unspec"
      /\ obj[o].class # "connected" /\ obj[o].sock # Invalid => fd[obj[o].sock].state = "open"
  BY <1>1 DEF UdpClassInv
<1>6. QED
  BY <1>1, <1>3, <1>4, <1>5, UdpChange

LEMMA UdpNewSocketKeeps ==
  ASSUME UdpInv, UNCHANGED lost, Udp!NewSocket
  PROVE  UdpInv'
<1> USE DEF UdpInv
<1> DEFINE o == op.o
           old == Sock
<1>1. op # Udp!NoOp /\ op.list # << >> /\ UNCHANGED held
  <2>1. op.list # << >> /\ UNCHANGED held
    BY DEF Udp!NewSocket
  <2>2. QED
    BY <2>1 DEF Udp!NoOp
<1>2. /\ op \in UdpCalls /\ op.do \in {"bind", "connect"}
      /\ o \in Objs /\ o \in held
      /\ obj[o].class \in {"unconnected", "connected"}
      /\ obj[o].class = "connected" => obj[o].family # "unspec"
      /\ Fits(op.list, obj[o].family)
      /\ old \in Fds \union {Invalid} /\ old = obj[o].sock
  BY <1>1, UdpInCall
<1>3. /\ Tail(op.list) \in Seq(Families) /\ Fits(Tail(op.list), obj[o].family)
      /\ op.list[1] \in Families /\ obj[o].family \in {"unspec", op.list[1]}
  BY <1>1, <1>2, FitsTail DEF UdpCalls
<1>4. CASE /\ Udp!TryCreate(op.o, Udp!Target, obj[op.o])
           /\ op' = [op EXCEPT !.current = Udp!Target]
  <2>1. /\ obj[o] \in SocketObjects /\ held' \subseteq Objs
        /\ Udp!TryCreate(o, op.list[1], obj[o])
    BY <1>1, <1>2, <1>4 DEF SocketTypeOK, Udp!Target
  <2>2. /\ SocketTypeOK' /\ Changes(o)
        /\ obj'[o].family = obj[o].family /\ obj'[o].class = obj[o].class
        /\ obj'[o].sock # Invalid
        /\ fd'[obj'[o].sock].family = op.list[1] /\ fd'[obj'[o].sock].state = "open"
    BY <1>2, <1>3, <2>1, TryCreateChanges
  <2>3. /\ op'.o = op.o /\ op'.do = op.do /\ op'.list = op.list
        /\ op'.current = op.list[1] /\ op' \in UdpCalls
    BY <1>2, <1>3, <1>4 DEF UdpCalls, AnyFamily, Udp!Target
  <2>4. Sock' = obj'[o].sock
    BY <2>3 DEF Sock
  <2>5. UdpOpInv'
    BY <1>1, <1>2, <2>2, <2>3, <2>4 DEF UdpOpInv, Fits
  <2> HIDE DEF o
  <2>6. QED
    BY <1>1, <1>2, <2>2, <2>5, UdpChange
<1>5. CASE /\ fd' = Udp!Destroyed(Udp!Sock)
           /\ obj' = [obj EXCEPT ![op.o].sock = Invalid]
           /\ op' = [op EXCEPT !.list = Tail(@)]
  <2>1. fd' = Udp!Destroyed(old)
    BY <1>5 DEF Udp!Sock, Sock
  <2>2. /\ fd' \in [Fds -> Descriptors]
        /\ \A g \in Fds : fd'[g] = IF g = old THEN Closed ELSE fd[g]
    BY <2>1 DEF Udp!Destroyed, Udp!Closed, Closed, SocketTypeOK, Descriptors, AnyFamily
  <2>3. /\ obj' \in [Objs -> SocketObjects]
        /\ obj'[o].sock = Invalid /\ obj'[o].family = obj[o].family
        /\ obj'[o].class = obj[o].class
        /\ \A p \in Objs \ {o} : obj'[p] = obj[p]
    BY <1>2, <1>5, SetSock DEF SocketTypeOK
  <2>4. SocketTypeOK'
    BY <1>1, <2>2, <2>3 DEF SocketTypeOK
  <2>5. /\ op'.o = op.o /\ op'.do = op.do
        /\ op'.list = Tail(op.list) /\ op' \in UdpCalls
    BY <1>2, <1>3, <1>5 DEF UdpCalls
  <2> HIDE DEF old
  <2>6. Changes(o)
    BY <1>2, <2>2, <2>3 DEF Changes, Closed
  <2>7. Sock' = Invalid
    BY <2>3, <2>5 DEF Sock
  <2>8. UdpOpInv'
    BY <1>1, <1>2, <1>3, <2>3, <2>5, <2>7 DEF UdpOpInv, Fits
  <2> HIDE DEF o
  <2>9. QED
    BY <1>1, <1>2, <2>3, <2>4, <2>6, <2>8, UdpChange
<1>6. QED
  BY <1>4, <1>5 DEF Udp!NewSocket

LEMMA UdpTryKeeps ==
  ASSUME UdpInv, UNCHANGED lost, Udp!TrySucceeds \/ Udp!TryFails
  PROVE  UdpInv'
<1> USE DEF UdpInv
<1> DEFINE o == op.o
<1>1. /\ op # Udp!NoOp /\ op.list # << >> /\ op.current = op.list[1] /\ Sock # Invalid
      /\ UNCHANGED held
  <2>1. /\ op.list # << >> /\ op.current = op.list[1] /\ Sock # Invalid
        /\ UNCHANGED held
    BY DEF Udp!TrySucceeds, Udp!TryFails, Udp!Trying, Udp!Target, Udp!Sock, Sock
  <2>2. QED
    BY <2>1 DEF Udp!NoOp
<1>2. /\ op \in UdpCalls /\ o \in Objs /\ o \in held
      /\ obj[o].class \in {"unconnected", "connected"}
      /\ obj[o].class = "connected" => obj[o].family # "unspec"
      /\ Fits(op.list, obj[o].family)
      /\ Sock \in Fds /\ Sock = obj[o].sock
      /\ op.current \in {"unspec", fd[Sock].family}
      /\ fd[Sock].state # "closed"
      /\ obj[o].class # "connected" => fd[Sock].state = "open"
      /\ op.do \in {"bind", "connect"}
  BY <1>1, UdpInCall
<1>3. /\ Tail(op.list) \in Seq(Families) /\ Fits(Tail(op.list), obj[o].family)
      /\ op.current \in Families
  BY <1>1, <1>2, FitsTail DEF UdpCalls
<1>4. op.current = fd[Sock].family /\ op.current # "unspec"
  BY <1>2, <1>3 DEF Families
<1>5. ASSUME obj' = [obj EXCEPT ![op.o].family = op.current], UNCHANGED fd, op' = Udp!NoOp
      PROVE  UdpInv'
  <2>1. /\ obj' \in [Objs -> SocketObjects]
        /\ obj'[o].sock = Sock /\ obj'[o].family = op.current
        /\ obj'[o].class = obj[o].class
        /\ \A p \in Objs \ {o} : obj'[p] = obj[p]
    BY <1>2, <1>3, <1>5 DEF SocketTypeOK, SocketObjects, AnyFamily
  <2>2. SocketTypeOK'
    BY <1>1, <1>5, <2>1 DEF SocketTypeOK
  <2> HIDE DEF o
  <2>3. Changes(o)
    BY <1>2, <1>4, <1>5, <2>1 DEF Changes
  <2>4. UdpOpInv'
    BY <1>5, UdpNoCall
  <2>5. QED
    BY <1>1, <1>2, <1>4, <1>5, <2>1, <2>2, <2>3, <2>4, UdpChange
<1>6. ASSUME obj' = [obj EXCEPT ![op.o].family = op.current, ![op.o].class = "connected"],
             fd' = [fd EXCEPT ![Sock].state = "peer"], op' = Udp!NoOp
      PROVE  UdpInv'
  <2>1. /\ obj' \in [Objs -> SocketObjects]
        /\ obj'[o].sock = Sock /\ obj'[o].family = op.current
        /\ obj'[o].class = "connected"
        /\ \A p \in Objs \ {o} : obj'[p] = obj[p]
    BY <1>2, <1>3, <1>6 DEF SocketTypeOK, SocketObjects, AnyFamily
  <2>2. /\ fd' \in [Fds -> Descriptors]
        /\ \A f \in Fds \ {Sock} : fd'[f] = fd[f]
        /\ fd'[Sock].state = "peer" /\ fd'[Sock].family = fd[Sock].family
    BY <1>2, <1>6 DEF SocketTypeOK, Descriptors
  <2>3. SocketTypeOK'
    BY <1>1, <2>1, <2>2 DEF SocketTypeOK
  <2> HIDE DEF o
  <2>4. Changes(o)
    BY <1>2, <1>4, <2>1, <2>2 DEF Changes
  <2>5. UdpOpInv'
    BY <1>6, UdpNoCall
  <2>6. QED
    BY <1>1, <1>2, <1>4, <2>1, <2>3, <2>4, <2>5, UdpChange
<1>7. ASSUME op' = [op EXCEPT !.list = Tail(@)], UNCHANGED <<obj, fd>>
      PROVE  UdpInv'
  <2>1. SocketTypeOK' /\ Changes(o)
    BY <1>1, <1>2, <1>7, NothingChanges DEF SocketTypeOK
  <2>2. /\ op'.o = op.o /\ op'.do = op.do /\ op'.current = op.current
        /\ op'.list = Tail(op.list) /\ op' \in UdpCalls
    BY <1>2, <1>3, <1>7 DEF UdpCalls
  <2>3. Sock' = Sock
    BY <1>7, <2>2 DEF Sock
  <2>4. UdpOpInv'
    BY <1>1, <1>2, <1>3, <1>7, <2>2, <2>3 DEF UdpOpInv, Fits
  <2>5. QED
    BY <1>1, <1>2, <1>7, <2>1, <2>4, UdpChange
<1>8. QED
  BY <1>5, <1>6, <1>7 DEF Udp!TrySucceeds, Udp!TryFails, Udp!Sock, Sock

LEMMA UdpGivesUpKeeps ==
  ASSUME UdpInv, UNCHANGED lost, Udp!GivesUp
  PROVE  UdpInv'
<1>1. op' = Udp!NoOp /\ UNCHANGED <<obj, held, fd, lost>>
  BY DEF Udp!GivesUp
<1>2. UdpOpInv'
  BY <1>1, UdpNoCall
<1>3. QED
  BY <1>1, <1>2 DEF UdpInv, SocketTypeOK, SocketInv, UdpClassInv

LEMMA UdpGcKeeps ==
  ASSUME UdpInv, UNCHANGED lost, NEW o \in Objs, Udp!Gc(o)
  PROVE  UdpInv'
<1> USE DEF UdpInv
<1> DEFINE old == obj[o].sock
<1>1. /\ o \notin held /\ UNCHANGED <<held, op>>
      /\ obj' = [obj EXCEPT ![o] = Udp!NoObj] /\ fd' = Udp!Destroyed(old)
  BY DEF Udp!Gc
<1>2. /\ obj' \in [Objs -> SocketObjects]
      /\ obj'[o].class = "free" /\ obj'[o].sock = Invalid
      /\ \A p \in Objs \ {o} : obj'[p] = obj[p]
  BY <1>1 DEF SocketTypeOK, SocketObjects, Udp!NoObj, AnyFamily
<1>3. /\ fd' \in [Fds -> Descriptors]
      /\ \A f \in Fds : fd'[f] = IF f = old THEN Closed ELSE fd[f]
  BY <1>1 DEF Udp!Destroyed, Udp!Closed, Closed, SocketTypeOK, Descriptors, AnyFamily
<1>4. SocketTypeOK' /\ old \in Fds \union {Invalid}
  BY <1>1, <1>2, <1>3 DEF SocketTypeOK, SocketObjects
<1> HIDE DEF old
<1>5. Changes(o)
  BY <1>2, <1>3, <1>4 DEF Changes, Closed, old
<1>6. UdpOpInv'
  <2>1. CASE op.do = "idle"
    BY <1>1, <2>1 DEF UdpOpInv
  <2>2. CASE op.do # "idle"
    <3>1. op.o \in Objs /\ op.o # o /\ obj'[op.o] = obj[op.o]
      BY <1>1, <1>2, <2>2 DEF UdpOpInv, SocketTypeOK
    <3>2. Sock' = Sock /\ Sock = obj[op.o].sock
      BY <1>1, <3>1 DEF Sock
    <3>3. Sock # Invalid => Sock \in Fds /\ Sock # old
      BY <3>1, <3>2 DEF SocketInv, SocketTypeOK, SocketObjects, old
    <3>4. QED
      BY <1>1, <1>3, <2>2, <3>1, <3>2, <3>3 DEF UdpOpInv, Fits
  <2>3. QED
    BY <2>1, <2>2
<1>7. QED
  BY <1>1, <1>2, <1>4, <1>5, <1>6, UdpChange

LEMMA UdpInit0 == Udp!Init /\ lost = {} => UdpInv
<1> SUFFICES ASSUME Udp!Init, lost = {}
             PROVE  UdpInv
  OBVIOUS
<1>1. \A o \in Objs : obj[o].sock = Invalid /\ obj[o].class = "free"
  BY DEF Udp!Init, Udp!NoObj
<1>2. \A f \in Fds : fd[f].state = "closed"
  BY DEF Udp!Init, Udp!Closed
<1>3. SocketTypeOK
  BY DEF Udp!Init, SocketTypeOK, SocketObjects, Descriptors, Udp!NoObj, Udp!Closed, AnyFamily
<1>4. SocketInv
  BY <1>1, <1>2 DEF SocketInv
<1>5. UdpOpInv
  BY DEF Udp!Init, UdpOpInv, UdpCalls, Udp!NoOp, AnyFamily
<1>6. UdpClassInv
  BY <1>1 DEF Udp!Init, UdpClassInv
<1>7. QED
  BY <1>3, <1>4, <1>5, <1>6 DEF UdpInv

LEMMA UdpStep ==
  ASSUME UdpInv, UNCHANGED lost, Udp!Next \/ UNCHANGED <<obj, held, fd, op>>
  PROVE  UdpInv'
<1>1. ASSUME NEW o \in Objs, NEW family \in Families \union {"unspec"}, Udp!Create(o, family)
      PROVE  UdpInv'
  BY <1>1, UdpCreateKeeps DEF AnyFamily
<1>2. CASE UNCHANGED <<obj, held, fd, op>>
  BY <1>2 DEF UdpInv, SocketTypeOK, SocketInv, UdpOpInv, UdpClassInv, Fits, Sock
<1>3. QED
  BY <1>1, <1>2, UdpMethodKeeps, UdpResolveKeeps, UdpNewSocketKeeps, UdpTryKeeps,
     UdpGivesUpKeeps, UdpGcKeeps
  DEF Udp!Next, Udp!Families, Families

LEMMA UdpCardinality == \A S : Udp!Cardinality(S) = Cardinality(S)
BY DEF Udp!Cardinality, Cardinality

LEMMA UdpInvOwns == UdpInv => Udp!UdpOwns
<1> SUFFICES ASSUME UdpInv
             PROVE  Udp!UdpOwns
  OBVIOUS
<1>1. \A f \in Fds : fd[f].state # "closed" => Cardinality({o \in Objs : obj[o].sock = f}) = 1
  BY OwnersCounted DEF UdpInv
<1>2. \A o \in Objs : obj[o].sock # Invalid /\ obj[o].class = "unconnected" =>
        fd[obj[o].sock].state = "open"
  BY DEF UdpInv, UdpClassInv
<1>3. \A o \in Objs : obj[o].sock # Invalid =>
        /\ fd[obj[o].sock].state # "closed"
        /\ obj[o].family \in {"unspec", fd[obj[o].sock].family}
  BY DEF UdpInv, SocketInv
<1>4. QED
  BY <1>1, <1>2, <1>3, UdpCardinality DEF Udp!UdpOwns

(* The inductive invariant of a behaviour that uses sockets: of UDP ones,  *)
(* or of TCP ones.                                                         *)
SocketsInv == IF library = "udp" THEN UdpInv ELSE TcpInv

(* For any number of objects and descriptors and whatever names resolve to:*)
(* the inductive invariant of the sockets.                                 *)
THEOREM SocketsInvariance == MCSpec => []SocketsInv
<1>1. MCInit => SocketsInv
  BY TcpInit0, UdpInit0 DEF MCInit, SocketsInv
<1>2. SocketsInv /\ [MCNext]_vars => SocketsInv'
  <2> SUFFICES ASSUME SocketsInv, [MCNext]_vars
               PROVE  SocketsInv'
    OBVIOUS
  <2>1. library' = library
    BY DEF MCNext, vars
  <2>2. CASE library = "udp"
    <3>1. UNCHANGED lost /\ (Udp!Next \/ UNCHANGED <<obj, held, fd, op>>)
      BY <2>2 DEF MCNext, vars, tcpVars
    <3>2. QED
      BY <2>1, <2>2, <3>1, UdpStep DEF SocketsInv
  <2>3. CASE library # "udp"
    <3>1. [TcpNext]_tcpVars
      BY <2>3 DEF MCNext, vars
    <3>2. QED
      BY <2>1, <2>3, <3>1, TcpStep DEF SocketsInv
  <2>4. QED
    BY <2>2, <2>3
<1>3. MCSpec => MCInit /\ [][MCNext]_vars
  BY PTL DEF MCSpec
<1>4. QED
  BY <1>1, <1>2, <1>3, PTL

(* Every open descriptor belongs to one object and is of its family,       *)
(* through failed attempts, re-made descriptors, closes and collections in *)
(* any order; lost is only that of a socket.connect that could not bind.   *)
THEOREM SocketsAreOwnedHolds == MCSpec => []SocketsAreOwned
<1>1. SocketsInv => SocketsAreOwned
  BY TcpInvOwns, UdpInvOwns DEF SocketsInv, SocketsAreOwned
<1>2. QED
  BY <1>1, SocketsInvariance, PTL

-----------------------------------------------------------------------------
(* The MySQL driver.                                                       *)

SqlTypeOK ==
  /\ env \in EnvStructs \union {NULL}
  /\ conn \in [Conns -> ConnStructs \union {NULL}]
  /\ cur \in [Curs -> CurStructs \union {NULL}]
  /\ mysqls \subseteq Conns
  /\ results \subseteq Results
  /\ pending \in [Conns -> BOOLEAN]
  /\ advanced \in BOOLEAN

(* What Lua code can reach has not been collected.                         *)
SqlRefsInv ==
  /\ \A c \in Conns : c \in refs => conn[c] # NULL
  /\ \A k \in Curs : k \in refs => cur[k] # NULL

(* An open cursor has the result it points to, which is that of its        *)
(* statement until a next one is asked for.                                *)
SqlResultsInv ==
  \A k \in Curs : cur[k] # NULL /\ ~cur[k].closed =>
    /\ cur[k].my_res # NULL => cur[k].my_res \in results /\ cur[k].my_res[1] = k
    /\ ~advanced => cur[k].my_res = <<k, "first">>

(* The environment is there while it is reachable or a connection is open, *)
(* which then holds it.                                                    *)
SqlHeldInv ==
  /\ Env \in refs => env # NULL
  /\ \A c \in mysqls : <<c, Env>> \in registry /\ env # NULL

SqlInv ==
  SqlTypeOK /\ SqlRefsInv /\ SqlResultsInv /\ SqlHeldInv /\ MysqlOwns /\ MysqlIsSafe

LEMMA TouchOpen ==
  ASSUME NEW c \in mysqls
  PROVE  Touch(c) \subseteq {"ended library"}
BY DEF Touch

LEMMA ClosedStruct ==
  ASSUME NEW b \in BOOLEAN
  PROVE  /\ [closed |-> b] \in EnvStructs /\ [closed |-> b] \in ConnStructs
         /\ [closed |-> b] # NULL /\ [closed |-> b].closed = b
<1>1. [closed |-> b] \in EnvStructs /\ [closed |-> b] \in ConnStructs
  BY DEF EnvStructs, ConnStructs
<1>2. QED
  BY <1>1, NullAssumption DEF NullAssumption

LEMMA SqlInit0 == SqlInit => SqlInv
<1> SUFFICES ASSUME SqlInit
             PROVE  SqlInv
  OBVIOUS
<1>1. SqlTypeOK
  BY DEF SqlInit, SqlTypeOK
<1>2. SqlRefsInv /\ SqlResultsInv /\ SqlHeldInv
  BY DEF SqlInit, SqlRefsInv, SqlResultsInv, SqlHeldInv
<1>3. MysqlOwns /\ MysqlIsSafe
  BY DEF SqlInit, MysqlOwns, MysqlIsSafe
<1>4. QED
  BY <1>1, <1>2, <1>3 DEF SqlInv

(* The steps of the environment, and those of a connection that it lives   *)
(* through.                                                                *)
LEMMA SqlCallKeeps ==
  ASSUME SqlInv,
         \/ CreateEnvironment \/ EnvClose \/ EnvGc
         \/ \E c \in Conns : ConnCall(c)
         \/ \E x \in refs : Drop(x)
  PROVE  SqlInv'
<1> USE DEF SqlInv
<1>1. /\ UNCHANGED <<conn, cur, registry, mysqls, pending, results, advanced>>
      /\ env' \in {env, NULL, [closed |-> FALSE], [closed |-> TRUE]}
      /\ refs' \subseteq refs \union {Env}
  BY DEF CreateEnvironment, EnvClose, EnvGc, ConnCall, Drop
<1>2. misused' \subseteq misused \union {"ended library"}
  <2>1. ASSUME NEW c \in Conns, ConnCall(c)
        PROVE  misused' \subseteq misused \union {"ended library"}
    <3>1. conn[c] # NULL /\ ~conn[c].closed /\ misused' = misused \union Touch(c)
      BY <2>1 DEF ConnCall, Usable, SqlRefsInv
    <3>2. c \in mysqls
      BY <3>1 DEF MysqlOwns
    <3>3. QED
      BY <3>1, <3>2, TouchOpen
  <2>2. QED
    BY <2>1 DEF CreateEnvironment, EnvClose, EnvGc, Drop
<1>3. SqlTypeOK'
  <2>1. env' \in EnvStructs \union {NULL}
    BY <1>1, ClosedStruct DEF SqlTypeOK
  <2>2. QED
    BY <1>1, <2>1 DEF SqlTypeOK
<1>4. SqlRefsInv'
  BY <1>1, ObjectsAssumption DEF SqlRefsInv, ObjectsAssumption
<1>5. SqlResultsInv' /\ MysqlOwns'
  BY <1>1 DEF SqlResultsInv, MysqlOwns
<1>6. SqlHeldInv' /\ stranded' = {c \in mysqls' : env'.closed}
  <2>1. CASE CreateEnvironment
    <3>1. mysqls = {} /\ env' = [closed |-> FALSE] /\ stranded' = stranded
      BY <2>1 DEF CreateEnvironment, SqlHeldInv
    <3>2. QED
      BY <1>1, <3>1, ClosedStruct DEF SqlHeldInv, MysqlIsSafe
  <2>2. CASE EnvClose
    <3>1. env' = [closed |-> TRUE] /\ stranded' = IF env.closed THEN stranded ELSE mysqls
      BY <2>2 DEF EnvClose, EndLibrary
    <3>2. env' # NULL /\ env'.closed
      BY <3>1, ClosedStruct
    <3>3. env.closed => stranded = mysqls
      BY DEF MysqlIsSafe
    <3>4. stranded' = mysqls
      BY <3>1, <3>3
    <3>5. QED
      BY <1>1, <3>2, <3>4 DEF SqlHeldInv
  <2>3. CASE EnvGc
    <3>1. \A c : <<c, Env>>[2] = Env
      OBVIOUS
    <3>2. mysqls = {}
      BY <2>3, <3>1 DEF EnvGc, SqlHeldInv
    <3>3. Env \notin refs' /\ stranded' = stranded
      BY <2>3 DEF EnvGc
    <3>4. QED
      BY <1>1, <3>2, <3>3 DEF SqlHeldInv, MysqlIsSafe
  <2>4. CASE UNCHANGED <<env, stranded>> /\ refs' \subseteq refs
    BY <1>1, <2>4 DEF SqlHeldInv, MysqlIsSafe
  <2>5. QED
    BY <2>1, <2>2, <2>3, <2>4 DEF ConnCall, Drop
<1>7. MysqlIsSafe'
  BY <1>1, <1>2, <1>6 DEF MysqlIsSafe
<1>8. QED
  BY <1>3, <1>4, <1>5, <1>6, <1>7

LEMMA SqlConnectKeeps ==
  ASSUME SqlInv, NEW c \in Conns, EnvConnect(c)
  PROVE  SqlInv'
<1> USE DEF SqlInv
<1>1. /\ UNCHANGED <<env, cur, results, stranded, misused, advanced>>
      /\ conn[c] = NULL /\ c \notin mysqls
      /\ Env \in refs /\ ~env.closed
  BY DEF EnvConnect
<1>2. CASE ConnectFails(c)
  BY <1>1, <1>2
  DEF ConnectFails, SqlTypeOK, SqlRefsInv, SqlResultsInv, SqlHeldInv, MysqlOwns, MysqlIsSafe
<1>3. CASE CreateConnection(c)
  <2>1. /\ conn' = [conn EXCEPT ![c] = [closed |-> FALSE]]
        /\ mysqls' = mysqls \union {c}
        /\ pending' = [pending EXCEPT ![c] = FALSE]
        /\ registry' = registry \union {<<c, Env>>}
        /\ refs' = refs \union {c}
    BY <1>3 DEF CreateConnection
  <2>2. /\ conn' \in [Conns -> ConnStructs \union {NULL}]
        /\ conn'[c] # NULL /\ ~conn'[c].closed
        /\ \A d \in Conns \ {c} : conn'[d] = conn[d]
    <3>1. /\ [closed |-> FALSE] \in ConnStructs /\ [closed |-> FALSE] # NULL
          /\ ~[closed |-> FALSE].closed
      BY ClosedStruct
    <3> DEFINE struct == [closed |-> FALSE]
    <3> HIDE DEF struct
    <3>2. conn' = [conn EXCEPT ![c] = struct]
      BY <2>1 DEF struct
    <3>3. struct \in ConnStructs /\ struct # NULL /\ ~struct.closed
      BY <3>1 DEF struct
    <3>4. QED
      BY <3>2, <3>3 DEF SqlTypeOK
  <2>3. SqlTypeOK'
    BY <1>1, <2>1, <2>2 DEF SqlTypeOK
  <2>4. SqlRefsInv'
    BY <1>1, <2>1, <2>2, ObjectsAssumption DEF SqlRefsInv, ObjectsAssumption
  <2>5. SqlResultsInv' /\ MysqlIsSafe'
    BY <1>1, <2>1 DEF SqlResultsInv, MysqlIsSafe
  <2>6. mysqls' = {d \in Conns : conn'[d] # NULL /\ ~conn'[d].closed}
    BY <2>1, <2>2 DEF MysqlOwns
  <2>7. MysqlOwns'
    BY <1>1, <2>6 DEF MysqlOwns
  <2>8. SqlHeldInv'
    BY <1>1, <2>1 DEF SqlHeldInv
  <2>9. QED
    BY <2>3, <2>4, <2>5, <2>7, <2>8
<1>4. QED
  BY <1>2, <1>3 DEF EnvConnect

LEMMA SqlConnEndKeeps ==
  ASSUME SqlInv, NEW c \in Conns, ConnClose(c) \/ ConnGc(c)
  PROVE  SqlInv'
<1> USE DEF SqlInv
<1>1. /\ UNCHANGED <<env, cur, pending, results, advanced, refs>>
      /\ conn' \in {[conn EXCEPT ![c] = [closed |-> TRUE]], [conn EXCEPT ![c] = NULL]}
      /\ conn[c] # NULL
  BY DEF ConnClose, ConnGc, ConnFinish, Usable, SqlRefsInv
<1>2. /\ conn' \in [Conns -> ConnStructs \union {NULL}]
      /\ ~(conn'[c] # NULL /\ ~conn'[c].closed)
      /\ \A d \in Conns \ {c} : conn'[d] = conn[d]
  <2> DEFINE struct == [closed |-> TRUE]
  <2>1. struct \in ConnStructs /\ struct.closed
    BY ClosedStruct
  <2> HIDE DEF struct
  <2>2. conn' \in {[conn EXCEPT ![c] = struct], [conn EXCEPT ![c] = NULL]}
    BY <1>1 DEF struct
  <2>3. QED
    BY <2>1, <2>2 DEF SqlTypeOK
<1>3. /\ mysqls' = mysqls \ {c} /\ stranded' = stranded \ {c}
      /\ misused' \subseteq misused \union {"ended library"}
      /\ \A d \in mysqls' : <<d, Env>> \in registry => <<d, Env>> \in registry'
  <2>1. CASE ~conn[c].closed /\ ConnFinish(c)
    <3>1. c \in mysqls
      BY <1>1, <2>1 DEF MysqlOwns
    <3>2. misused' \subseteq misused \union {"ended library"}
      BY <2>1, <3>1, TouchOpen DEF ConnFinish
    <3>3. QED
      BY <2>1, <3>2 DEF ConnFinish, Unref
  <2>2. CASE conn[c].closed /\ UNCHANGED <<mysqls, registry, stranded, misused>>
    <3>1. c \notin mysqls
      BY <2>2 DEF MysqlOwns
    <3>2. stranded \subseteq mysqls
      BY DEF MysqlIsSafe
    <3>3. QED
      BY <2>2, <3>1, <3>2
  <2>3. QED
    BY <2>1, <2>2 DEF ConnClose, ConnGc, Usable
<1>4. c \in refs => conn'[c] # NULL
  <2> DEFINE struct == [closed |-> TRUE]
  <2>1. struct # NULL
    BY ClosedStruct
  <2>2. c \in refs => conn' = [conn EXCEPT ![c] = struct]
    BY DEF ConnClose, ConnGc
  <2> HIDE DEF struct
  <2>3. QED
    BY <2>1, <2>2 DEF SqlTypeOK
<1>5. SqlTypeOK'
  BY <1>1, <1>2, <1>3 DEF SqlTypeOK
<1>6. SqlRefsInv'
  BY <1>1, <1>2, <1>4 DEF SqlRefsInv
<1>7. SqlResultsInv' /\ SqlHeldInv'
  BY <1>1, <1>3 DEF SqlResultsInv, SqlHeldInv
<1>8. mysqls' = {d \in Conns : conn'[d] # NULL /\ ~conn'[d].closed}
  <2>1. mysqls = {d \in Conns : conn[d] # NULL /\ ~conn[d].closed} /\ mysqls' = mysqls \ {c}
    BY <1>3 DEF MysqlOwns
  <2>2. \A d \in Conns : d \in mysqls' <=> conn'[d] # NULL /\ ~conn'[d].closed
    <3> SUFFICES ASSUME NEW d \in Conns
                 PROVE  d \in mysqls' <=> conn'[d] # NULL /\ ~conn'[d].closed
      OBVIOUS
    <3>1. CASE d = c
      BY <1>2, <2>1, <3>1
    <3>2. CASE d # c
      <4>1. conn'[d] = conn[d]
        BY <1>2, <3>2
      <4>2. QED
        BY <2>1, <3>2, <4>1
    <3>3. QED
      BY <3>1, <3>2
  <2>3. QED
    BY <2>1, <2>2
<1>9. MysqlOwns'
  BY <1>1, <1>8 DEF MysqlOwns
<1>10. MysqlIsSafe'
  BY <1>1, <1>3 DEF MysqlIsSafe
<1>11. QED
  BY <1>5, <1>6, <1>7, <1>9, <1>10

LEMMA SqlExecuteKeeps ==
  ASSUME SqlInv, NEW c \in Conns, ConnExecute(c)
  PROVE  SqlInv'
<1> USE DEF SqlInv
<1>1. /\ conn[c] # NULL /\ ~conn[c].closed /\ misused' = misused \union Touch(c)
      /\ UNCHANGED <<env, conn, mysqls, stranded, advanced>>
  BY DEF ConnExecute, Usable, SqlRefsInv
<1>2. c \in mysqls
  BY <1>1 DEF MysqlOwns
<1>3. MysqlIsSafe'
  <2>1. misused' \subseteq misused \union {"ended library"}
    BY <1>1, <1>2, TouchOpen
  <2>2. QED
    BY <1>1, <2>1 DEF MysqlIsSafe
<1>4. CASE /\ UNCHANGED <<cur, registry, results, refs>>
           /\ pending' \in {pending, [pending EXCEPT ![c] = TRUE]}
  <2>1. pending' \in [Conns -> BOOLEAN]
    BY <1>4 DEF SqlTypeOK
  <2>2. QED
    BY <1>1, <1>3, <1>4, <2>1
    DEF SqlTypeOK, SqlRefsInv, SqlResultsInv, SqlHeldInv, MysqlOwns
<1>5. CASE \E k \in Curs, more \in BOOLEAN :
             CreateCursor(c, k) /\ pending' = [pending EXCEPT ![c] = more]
  <2>1. PICK k \in Curs, more \in BOOLEAN :
          CreateCursor(c, k) /\ pending' = [pending EXCEPT ![c] = more]
    BY <1>5
  <2> DEFINE first == <<k, "first">>
             struct == [closed |-> FALSE, my_conn |-> c, my_res |-> first]
  <2>2. /\ cur[k] = NULL
        /\ cur' = [cur EXCEPT ![k] = struct]
        /\ results' = results \union {first}
        /\ registry' = registry \union {<<k, c>>}
        /\ refs' = refs \union {k}
    BY <2>1 DEF CreateCursor
  <2>3. first \in Results /\ first # NULL /\ first[1] = k
    BY NullAssumption DEF NullAssumption, Results
  <2>4. struct \in CurStructs /\ struct # NULL /\ struct.my_res = first /\ ~struct.closed
    <3>1. struct \in CurStructs
      BY <2>3 DEF CurStructs
    <3>2. struct # NULL
      BY <3>1, NullAssumption DEF NullAssumption
    <3>3. QED
      BY <3>1, <3>2
  <2> HIDE DEF first, struct
  <2>5. /\ cur' \in [Curs -> CurStructs \union {NULL}] /\ cur'[k] = struct
        /\ \A j \in Curs \ {k} : cur'[j] = cur[j]
    BY <2>2, <2>4 DEF SqlTypeOK
  <2>6. pending' \in [Conns -> BOOLEAN]
    BY <2>1 DEF SqlTypeOK
  <2>7. SqlTypeOK'
    BY <1>1, <2>2, <2>3, <2>5, <2>6 DEF SqlTypeOK
  <2>8. SqlRefsInv'
    BY <1>1, <2>2, <2>4, <2>5, ObjectsAssumption DEF SqlRefsInv, ObjectsAssumption
  <2>9. SqlResultsInv'
    BY <1>1, <2>2, <2>3, <2>4, <2>5 DEF SqlResultsInv, first
  <2>10. MysqlOwns'
    BY <1>1, <2>2, <2>3, <2>4, <2>5 DEF MysqlOwns, SqlTypeOK, Results
  <2>11. SqlHeldInv'
    BY <1>1, <2>2, ObjectsAssumption DEF SqlHeldInv, ObjectsAssumption
  <2>12. QED
    BY <1>3, <2>7, <2>8, <2>9, <2>10, <2>11
<1>6. QED
  BY <1>4, <1>5 DEF ConnExecute

(* A cursor is closed, collected, or goes on to another result.            *)
LEMMA SqlCursorKeeps ==
  ASSUME SqlInv, NEW k \in Curs, cur[k] # NULL,
         UNCHANGED <<conn, env, mysqls, stranded, refs>>,
         \A c \in mysqls : <<c, Env>> \in registry => <<c, Env>> \in registry',
         pending' \in [Conns -> BOOLEAN], advanced' \in BOOLEAN, advanced => advanced',
         misused' \ {"ended library"} # {} => advanced',
         cur' \in [Curs -> CurStructs \union {NULL}],
         \A j \in Curs \ {k} : cur'[j] = cur[j],
         k \in refs => cur'[k] # NULL,
         results' \subseteq Results,
         \A r \in Results : r[1] # k => (r \in results <=> r \in results'),
         IF cur'[k] # NULL /\ ~cur'[k].closed
         THEN /\ {r \in results' : r[1] = k} = {cur'[k].my_res} \ {NULL}
              /\ ~advanced' => cur'[k].my_res = <<k, "first">>
         ELSE \A r \in results' : r[1] # k
  PROVE  SqlInv'
<1> USE DEF SqlInv
<1>1. SqlTypeOK'
  BY DEF SqlTypeOK
<1>2. SqlRefsInv'
  BY DEF SqlRefsInv
<1>3. SqlResultsInv'
  <2> SUFFICES ASSUME NEW j \in Curs, cur'[j] # NULL, ~cur'[j].closed
               PROVE  /\ cur'[j].my_res # NULL =>
                           cur'[j].my_res \in results' /\ cur'[j].my_res[1] = j
                      /\ ~advanced' => cur'[j].my_res = <<j, "first">>
    BY DEF SqlResultsInv
  <2>1. CASE j = k
    BY <2>1
  <2>2. CASE j # k
    <3>1. cur'[j] = cur[j]
      BY <2>2
    <3>2. cur[j].my_res \in Results \union {NULL}
      BY <3>1 DEF SqlTypeOK, CurStructs
    <3>3. cur[j].my_res # NULL => cur[j].my_res \in results /\ cur[j].my_res[1] = j
      BY <3>1 DEF SqlResultsInv
    <3>4. ~advanced => cur[j].my_res = <<j, "first">>
      BY <3>1 DEF SqlResultsInv
    <3>5. cur[j].my_res # NULL => cur[j].my_res \in results'
      BY <2>2, <3>2, <3>3
    <3>6. QED
      BY <3>1, <3>3, <3>4, <3>5
  <2>3. QED
    BY <2>1, <2>2
<1>4. MysqlOwns'
  <2> SUFFICES ASSUME NEW r \in results'
               PROVE  cur'[r[1]] # NULL /\ ~cur'[r[1]].closed /\ cur'[r[1]].my_res = r
    BY DEF MysqlOwns
  <2>1. r \in Results /\ r[1] \in Curs
    BY DEF Results
  <2>2. CASE r[1] = k
    BY <2>2
  <2>3. CASE r[1] # k
    <3>1. r \in results /\ cur'[r[1]] = cur[r[1]]
      BY <2>1, <2>3
    <3>2. QED
      BY <3>1 DEF MysqlOwns
  <2>4. QED
    BY <2>2, <2>3
<1>5. SqlHeldInv' /\ MysqlIsSafe'
  BY DEF SqlHeldInv, MysqlIsSafe
<1>6. QED
  BY <1>1, <1>2, <1>3, <1>4, <1>5

LEMMA OpenCursor ==
  ASSUME SqlInv, NEW k \in Curs, cur[k] # NULL, ~cur[k].closed
  PROVE  /\ cur[k] \in CurStructs
         /\ cur[k].my_res \in results \union {NULL}
         /\ {r \in results : r[1] = k} = {cur[k].my_res} \ {NULL}
         /\ FreeMisuse(cur[k].my_res) = {}
         /\ ~advanced => ReadMisuse(k) = {} /\ cur[k].my_res = <<k, "first">>
<1> USE DEF SqlInv
<1>1. cur[k] \in CurStructs /\ cur[k].my_res \in results \union {NULL}
  BY DEF SqlTypeOK, SqlResultsInv
<1>2. {r \in results : r[1] = k} = {cur[k].my_res} \ {NULL}
  BY NullAssumption DEF SqlResultsInv, MysqlOwns, SqlTypeOK, NullAssumption
<1>3. FreeMisuse(cur[k].my_res) = {}
  BY <1>1 DEF FreeMisuse
<1>4. ASSUME ~advanced
      PROVE  ReadMisuse(k) = {} /\ cur[k].my_res = <<k, "first">>
  <2>1. cur[k].my_res = <<k, "first">>
    BY <1>4 DEF SqlResultsInv
  <2>2. <<k, "first">> # NULL /\ <<k, "first">> # <<k, "narrow">>
    <3>1. <<k, "first">> \in Results
      BY DEF Results
    <3>2. QED
      BY <3>1, NullAssumption DEF NullAssumption
  <2>3. QED
    BY <1>1, <2>1, <2>2 DEF ReadMisuse
<1>5. QED
  BY <1>1, <1>2, <1>3, <1>4

(* cur_nullify, of an open cursor.                                         *)
LEMMA CurNullifyKeeps ==
  ASSUME SqlInv, NEW k \in Curs, cur[k] # NULL, ~cur[k].closed, CurFinish(k),
         UNCHANGED <<refs, stranded, advanced>>, misused' \ {"ended library"} # {} => advanced,
         \/ cur' = [cur EXCEPT ![k] = CurNullify(k)]
         \/ k \notin refs /\ cur' = [cur EXCEPT ![k] = NULL]
  PROVE  SqlInv'
<1>1. /\ cur[k] \in CurStructs
      /\ {r \in results : r[1] = k} = {cur[k].my_res} \ {NULL}
  BY OpenCursor
<1>2. /\ results' = results \ {cur[k].my_res}
      /\ UNCHANGED <<env, conn, mysqls, pending>>
  BY DEF CurFinish
<1>3. CurNullify(k) \in CurStructs /\ CurNullify(k) # NULL /\ CurNullify(k).closed
  <2>1. CurNullify(k) \in CurStructs /\ CurNullify(k).closed
    BY <1>1 DEF CurNullify, CurStructs
  <2>2. QED
    BY <2>1, NullAssumption DEF NullAssumption
<1>4. cur' \in [Curs -> CurStructs \union {NULL}]
  BY <1>3 DEF SqlInv, SqlTypeOK
<1>5. \A j \in Curs \ {k} : cur'[j] = cur[j]
  BY DEF SqlInv, SqlTypeOK
<1>6. k \in refs => cur'[k] # NULL
  BY <1>3 DEF SqlInv, SqlTypeOK
<1>7. ~(cur'[k] # NULL /\ ~cur'[k].closed)
  BY <1>3 DEF SqlInv, SqlTypeOK
<1>8. /\ results' \subseteq Results
      /\ \A r \in results' : r[1] # k
      /\ \A r \in Results : r[1] # k => (r \in results <=> r \in results')
  <2>1. results \subseteq Results
    BY DEF SqlInv, SqlTypeOK
  <2>2. NULL \notin Results
    BY NullAssumption DEF NullAssumption
  <2>3. \A r \in results : r[1] = k <=> r = cur[k].my_res
    <3>1. TAKE r \in results
    <3>2. r # NULL
      BY <2>1, <2>2
    <3>3. (r[1] = k) <=> (r \in {q \in results : q[1] = k})
      OBVIOUS
    <3>4. (r \in {cur[k].my_res} \ {NULL}) <=> (r = cur[k].my_res)
      BY <3>2
    <3>5. QED
      BY <1>1, <3>3, <3>4
  <2>4. QED
    BY <1>2, <2>1, <2>3
<1>9. /\ pending' \in [Conns -> BOOLEAN] /\ advanced' \in BOOLEAN /\ (advanced => advanced')
      /\ misused' \ {"ended library"} # {} => advanced'
  BY <1>2 DEF SqlInv, SqlTypeOK
<1>10. \A c \in mysqls : <<c, Env>> \in registry => <<c, Env>> \in registry'
  <2>1. k \notin mysqls
    BY ObjectsAssumption DEF ObjectsAssumption, SqlInv, SqlTypeOK
  <2>2. QED
    BY <2>1 DEF CurFinish, Unref
<1>11. QED
  BY <1>2, <1>4, <1>5, <1>6, <1>7, <1>8, <1>9, <1>10, SqlCursorKeeps

LEMMA SqlReadKeeps ==
  ASSUME SqlInv, NEW k \in Curs,
         CurFetch(k) \/ CurRead(k) \/ CurClose(k) \/ CurHasNextResult(k)
  PROVE  SqlInv'
<1>1. cur[k] # NULL /\ ~cur[k].closed
  BY DEF CurFetch, CurRead, CurClose, CurHasNextResult, CursorUsable, SqlInv, SqlRefsInv
<1>2. /\ FreeMisuse(cur[k].my_res) = {} /\ (~advanced => ReadMisuse(k) = {})
      /\ misused \ {"ended library"} # {} => advanced
  BY <1>1, OpenCursor DEF SqlInv, MysqlIsSafe
<1>3. CASE /\ UNCHANGED <<env, conn, cur, refs, registry, mysqls, pending, results, stranded>>
           /\ advanced' \in BOOLEAN /\ (advanced => advanced')
           /\ misused' \ {"ended library"} # {} => advanced'
  BY <1>3
  DEF SqlInv, SqlTypeOK, SqlRefsInv, SqlResultsInv, SqlHeldInv, MysqlOwns, MysqlIsSafe
<1>4. CASE /\ cur' = [cur EXCEPT ![k] = CurNullify(k)]
           /\ CurFinish(k)
           /\ UNCHANGED <<refs, stranded, advanced>>
           /\ misused' = misused \union ReadMisuse(k) \/ misused' = misused \union FreeMisuse(cur[k].my_res)
  <2>1. misused' \ {"ended library"} # {} => advanced
    BY <1>2, <1>4
  <2>2. QED
    BY <1>1, <1>4, <2>1, CurNullifyKeeps
<1>5. advanced \in BOOLEAN
  BY DEF SqlInv, SqlTypeOK
<1>6. CASE CurFetch(k) \/ CurRead(k)
  <2>1. misused' = misused \union ReadMisuse(k)
    BY <1>6 DEF CurFetch, CurRead
  <2>2. misused' \ {"ended library"} # {} => advanced
    BY <1>2, <2>1
  <2>3. QED
    BY <1>3, <1>4, <1>5, <1>6, <2>1, <2>2 DEF CurFetch, CurRead
<1>7. CASE CurClose(k)
  BY <1>4, <1>7 DEF CurClose
<1>8. CASE CurHasNextResult(k)
  BY <1>3, <1>8 DEF CurHasNextResult
<1>9. QED
  BY <1>6, <1>7, <1>8

LEMMA SqlCurGcKeeps ==
  ASSUME SqlInv, NEW k \in Curs, CurGc(k)
  PROVE  SqlInv'
<1>1. /\ cur[k] # NULL /\ k \notin refs /\ cur' = [cur EXCEPT ![k] = NULL]
      /\ UNCHANGED <<refs, stranded, advanced>>
  BY DEF CurGc
<1>2. misused \ {"ended library"} # {} => advanced
  BY DEF SqlInv, MysqlIsSafe
<1>3. CASE ~cur[k].closed
  <2>1. CurFinish(k) /\ misused' = misused \union FreeMisuse(cur[k].my_res)
    BY <1>3 DEF CurGc
  <2>2. misused' = misused
    BY <1>1, <1>3, <2>1, OpenCursor
  <2>3. QED
    BY <1>1, <1>2, <1>3, <2>1, <2>2, CurNullifyKeeps
<1>4. CASE cur[k].closed
  <2>1. UNCHANGED <<env, conn, registry, mysqls, pending, results, misused>>
    BY <1>4 DEF CurGc
  <2>2. /\ cur' \in [Curs -> CurStructs \union {NULL}]
        /\ \A j \in Curs \ {k} : cur'[j] = cur[j]
        /\ cur'[k] = NULL
    BY <1>1 DEF SqlInv, SqlTypeOK
  <2>3. \A r \in results : r[1] # k
    BY <1>4 DEF SqlInv, MysqlOwns
  <2>4. /\ pending' \in [Conns -> BOOLEAN] /\ advanced' \in BOOLEAN /\ results' \subseteq Results
        /\ misused' \ {"ended library"} # {} => advanced'
    BY <1>1, <1>2, <2>1 DEF SqlInv, SqlTypeOK
  <2>5. QED
    BY <1>1, <2>1, <2>2, <2>3, <2>4, SqlCursorKeeps
<1>5. QED
  BY <1>3, <1>4

LEMMA SqlNextResultKeeps ==
  ASSUME SqlInv, NEW k \in Curs, CurNextResult(k)
  PROVE  SqlInv'
<1>1. /\ cur[k] # NULL /\ ~cur[k].closed /\ advanced' = TRUE
      /\ UNCHANGED <<env, conn, refs, registry, mysqls, stranded>>
  BY DEF CurNextResult, CursorUsable, SqlInv, SqlRefsInv
<1>2. /\ cur[k] \in CurStructs
      /\ {r \in results : r[1] = k} = {cur[k].my_res} \ {NULL}
  BY <1>1, OpenCursor
<1>3. pending' \in [Conns -> BOOLEAN]
  BY DEF CurNextResult, SqlInv, SqlTypeOK
<1>4. CASE UNCHANGED <<cur, results>>
  BY <1>1, <1>3, <1>4
  DEF SqlInv, SqlTypeOK, SqlRefsInv, SqlResultsInv, SqlHeldInv, MysqlOwns, MysqlIsSafe
<1>5. CASE \E next \in {NULL, <<k, "next">>, <<k, "narrow">>} :
             /\ results' = (results \ {cur[k].my_res}) \union ({next} \ {NULL})
             /\ cur' = [cur EXCEPT ![k].my_res = next]
  <2>1. PICK next \in {NULL, <<k, "next">>, <<k, "narrow">>} :
               /\ results' = (results \ {cur[k].my_res}) \union ({next} \ {NULL})
               /\ cur' = [cur EXCEPT ![k].my_res = next]
    BY <1>5
  <2>2. /\ next \in Results \union {NULL} /\ (next # NULL => next[1] = k)
        /\ NULL \notin Results
    BY NullAssumption DEF Results, NullAssumption
  <2> DEFINE struct == [cur[k] EXCEPT !.my_res = next]
  <2>3. struct \in CurStructs /\ struct.my_res = next /\ ~struct.closed
    BY <1>1, <1>2, <2>2 DEF CurStructs
  <2>4. struct # NULL
    BY <2>3, NullAssumption DEF NullAssumption
  <2>5. cur' = [cur EXCEPT ![k] = struct]
    BY <2>1
  <2> HIDE DEF struct
  <2>6. /\ cur' \in [Curs -> CurStructs \union {NULL}] /\ cur'[k] = struct
        /\ \A j \in Curs \ {k} : cur'[j] = cur[j]
    BY <2>3, <2>5 DEF SqlInv, SqlTypeOK
  <2>7. results \subseteq Results
    BY DEF SqlInv, SqlTypeOK
  <2>8. results' \subseteq Results
    BY <2>1, <2>2, <2>7
  <2>9. \A r \in Results : r[1] # k => (r \in results <=> r \in results')
    BY <1>2, <2>1, <2>2
  <2>10. {r \in results' : r[1] = k} = {next} \ {NULL}
    <3>1. \A r \in results : r[1] = k => r = cur[k].my_res
      BY <1>2
    <3>2. QED
      BY <3>1, <2>1, <2>2
  <2>11. QED
    BY <1>1, <1>3, <2>3, <2>4, <2>6, <2>8, <2>9, <2>10, SqlCursorKeeps
<1>6. QED
  BY <1>4, <1>5 DEF CurNextResult

LEMMA SqlStep == SqlInv /\ (SqlNext \/ UNCHANGED sqlVars) => SqlInv'
<1> SUFFICES ASSUME SqlInv, SqlNext \/ UNCHANGED sqlVars
             PROVE  SqlInv'
  OBVIOUS
<1>1. CASE UNCHANGED sqlVars
  BY <1>1
  DEF sqlVars, SqlInv, SqlTypeOK, SqlRefsInv, SqlResultsInv, SqlHeldInv, MysqlOwns,
      MysqlIsSafe
<1>2. CASE SqlNext
  BY <1>2, SqlCallKeeps, SqlConnectKeeps, SqlConnEndKeeps, SqlExecuteKeeps, SqlReadKeeps,
     SqlCurGcKeeps, SqlNextResultKeeps
  DEF SqlNext
<1>3. QED
  BY <1>1, <1>2
-----------------------------------------------------------------------------
(* The drivers that count: what an object of theirs has open below it.     *)
IsOpen(x) == x # NULL /\ ~x.closed
CursorsOf(c) == {k \in Curs : IsOpen(cur[k]) /\ cur[k].conn = c}

LEMMA CountedUp ==
  ASSUME NEW S, IsFiniteSet(S), NEW x, x \notin S
  PROVE  Cardinality(S \union {x}) = Cardinality(S) + 1
BY FS_AddElement

LEMMA CountedDown ==
  ASSUME NEW S, IsFiniteSet(S), NEW x, x \in S
  PROVE  Cardinality(S \ {x}) = Cardinality(S) - 1 /\ Cardinality(S) > 0
<1>1. Cardinality(S \ {x}) = Cardinality(S) - 1 /\ IsFiniteSet(S \ {x})
  BY FS_RemoveElement
<1>2. Cardinality(S \ {x}) \in Nat /\ Cardinality(S) \in Nat
  BY <1>1, FS_CardinalityType
<1>3. QED
  BY <1>1, <1>2

LEMMA CountedNone ==
  ASSUME NEW S, IsFiniteSet(S)
  PROVE  Cardinality(S) \in Nat /\ (Cardinality(S) = 0 <=> S = {})
BY FS_EmptySet, FS_CardinalityType

LEMMA FiniteCursors ==
  ASSUME NEW c
  PROVE  IsFiniteSet(CursorsOf(c)) /\ Cardinality(CursorsOf(c)) \in Nat
         /\ (Cardinality(CursorsOf(c)) = 0 <=> CursorsOf(c) = {})
<1>1. CursorsOf(c) \subseteq Curs
  BY DEF CursorsOf
<1>2. IsFiniteSet(CursorsOf(c))
  BY <1>1, FS_Subset, ObjectsAssumption DEF ObjectsAssumption
<1>3. QED
  BY <1>2, CountedNone

LEMMA CursorOpens ==
  ASSUME NEW k \in Curs, NEW c, ~IsOpen(cur[k]), IsOpen(cur'[k]), cur'[k].conn = c,
         \A j \in Curs \ {k} : cur'[j] = cur[j]
  PROVE  /\ Cardinality(CursorsOf(c)') = Cardinality(CursorsOf(c)) + 1
         /\ \A d : d # c => CursorsOf(d)' = CursorsOf(d)
<1>1. CursorsOf(c)' = CursorsOf(c) \union {k} /\ k \notin CursorsOf(c)
  BY DEF CursorsOf, IsOpen
<1>2. Cardinality(CursorsOf(c)') = Cardinality(CursorsOf(c)) + 1
  BY <1>1, FiniteCursors, CountedUp
<1>3. ASSUME NEW d, d # c
      PROVE  CursorsOf(d)' = CursorsOf(d)
  BY <1>3 DEF CursorsOf, IsOpen
<1>4. QED
  BY <1>2, <1>3

LEMMA CursorCloses ==
  ASSUME NEW k \in Curs, NEW c, IsOpen(cur[k]), ~IsOpen(cur'[k]), cur[k].conn = c,
         \A j \in Curs \ {k} : cur'[j] = cur[j]
  PROVE  /\ Cardinality(CursorsOf(c)') = Cardinality(CursorsOf(c)) - 1
         /\ Cardinality(CursorsOf(c)) > 0
         /\ \A d : d # c => CursorsOf(d)' = CursorsOf(d)
<1>1. CursorsOf(c)' = CursorsOf(c) \ {k} /\ k \in CursorsOf(c)
  BY DEF CursorsOf, IsOpen
<1>2. /\ Cardinality(CursorsOf(c)') = Cardinality(CursorsOf(c)) - 1
      /\ Cardinality(CursorsOf(c)) > 0
  BY <1>1, FiniteCursors, CountedDown
<1>3. ASSUME NEW d, d # c
      PROVE  CursorsOf(d)' = CursorsOf(d)
  BY <1>3 DEF CursorsOf, IsOpen
<1>4. QED
  BY <1>2, <1>3
-----------------------------------------------------------------------------
(* The SQLite driver.                                                      *)
LiteTypeOK ==
  /\ env \in Sqlite!EnvStructs \union {NULL}
  /\ conn \in [MoreConns -> Sqlite!ConnStructs \union {NULL}]
  /\ cur \in [Curs -> Sqlite!CurStructs \union {NULL}]
  /\ mysqls \subseteq MoreConns
  /\ results \subseteq Sqlite!Vms

MoreRefsInv ==
  /\ \A c \in MoreConns : c \in refs => conn[c] # NULL
  /\ \A k \in Curs : k \in refs => cur[k] # NULL
  /\ Env \in refs => env # NULL

(* An open cursor holds its connection, which is open.                     *)
LiteHolds ==
  \A k \in Curs : IsOpen(cur[k]) =>
    IsOpen(conn[cur[k].conn]) /\ <<k, cur[k].conn>> \in registry

LiteCounts ==
  \A c \in MoreConns : conn[c] # NULL => conn[c].counter = Cardinality(CursorsOf(c))

LiteStatements ==
  \A c \in MoreConns, k \in Curs : <<c, k>> \in results <=> k \in CursorsOf(c)

LiteDbs ==
  /\ \A c \in MoreConns : IsOpen(conn[c]) => c \in mysqls
  /\ \A c \in mysqls : IsOpen(conn[c]) \/ <<c, "unbound">> \in results

LiteInv ==
  /\ LiteTypeOK /\ MoreRefsInv /\ LiteHolds /\ LiteCounts /\ LiteStatements /\ LiteDbs
  /\ misused = {}

LEMMA LiteStructs ==
  /\ NULL \notin Sqlite!ConnStructs /\ NULL \notin Sqlite!CurStructs
  /\ \A b \in BOOLEAN : [closed |-> b] \in Sqlite!EnvStructs
<1>1. \A b \in BOOLEAN : [closed |-> b] \in Sqlite!EnvStructs
  BY DEF Sqlite!EnvStructs
<1>2. QED
  BY <1>1, DriverNullAssumption DEF DriverNullAssumption

LEMMA LiteInit ==
  ASSUME Sqlite!Init
  PROVE  LiteInv
<1> USE DEF Sqlite!Init
<1>1. LiteTypeOK
  BY DEF LiteTypeOK
<1>2. \A c : CursorsOf(c) = {}
  BY DEF CursorsOf, IsOpen
<1>3. MoreRefsInv /\ LiteHolds /\ LiteCounts
  BY DEF MoreRefsInv, LiteHolds, LiteCounts, IsOpen
<1>4. LiteStatements
  BY <1>2 DEF LiteStatements
<1>5. LiteDbs
  BY DEF LiteDbs, IsOpen
<1>6. QED
  BY <1>1, <1>3, <1>4, <1>5 DEF LiteInv

(* The steps that a connection and its cursors live through.               *)
LEMMA LiteCallKeeps ==
  ASSUME LiteInv,
         \/ Sqlite!CreateEnvironment \/ Sqlite!EnvClose \/ Sqlite!EnvGc
         \/ \E c \in MoreConns : Sqlite!ConnCall(c)
         \/ \E x \in refs : Sqlite!Drop(x)
  PROVE  LiteInv'
<1> USE DEF LiteInv
<1>1. /\ UNCHANGED <<conn, cur, registry, mysqls, results>>
      /\ env' \in {env, NULL, [closed |-> FALSE], [closed |-> TRUE]}
  BY DEF Sqlite!CreateEnvironment, Sqlite!EnvClose, Sqlite!EnvGc, Sqlite!ConnCall, Sqlite!Drop
<1>2. misused' = misused
  <2>1. ASSUME NEW c \in MoreConns, Sqlite!ConnCall(c)
        PROVE  misused' = misused
    <3>1. IsOpen(conn[c]) /\ misused' = misused \union Sqlite!Touch(c)
      BY <2>1 DEF Sqlite!ConnCall, Sqlite!Usable, MoreRefsInv, IsOpen
    <3>2. c \in mysqls
      BY <3>1 DEF LiteDbs
    <3>3. QED
      BY <3>1, <3>2 DEF Sqlite!Touch
  <2>2. QED
    BY <2>1 DEF Sqlite!CreateEnvironment, Sqlite!EnvClose, Sqlite!EnvGc, Sqlite!Drop
<1>3. LiteTypeOK'
  <2>1. env' \in Sqlite!EnvStructs \union {NULL}
    BY <1>1, LiteStructs DEF LiteTypeOK
  <2>2. QED
    BY <1>1, <2>1 DEF LiteTypeOK
<1>4. \A x : x \in refs' => x \in refs \/ x = Env
  BY DEF Sqlite!CreateEnvironment, Sqlite!EnvClose, Sqlite!EnvGc, Sqlite!ConnCall, Sqlite!Drop
<1>5. Env \in refs' => env' # NULL
  <2>1. \A b \in BOOLEAN : [closed |-> b] # NULL
    <3>1. \A b \in BOOLEAN : [closed |-> b] \in EnvStructs
      BY DEF EnvStructs
    <3>2. QED
      BY <3>1, NullAssumption DEF NullAssumption
  <2>2. QED
    BY <2>1 DEF Sqlite!CreateEnvironment, Sqlite!EnvClose, Sqlite!EnvGc, Sqlite!Collectable,
       Sqlite!ConnCall, Sqlite!Drop, MoreRefsInv
<1>6. MoreRefsInv'
  BY <1>1, <1>4, <1>5, DriverObjectsAssumption, ObjectsAssumption
  DEF MoreRefsInv, DriverObjectsAssumption, ObjectsAssumption
<1>7. \A c : CursorsOf(c)' = CursorsOf(c)
  BY <1>1 DEF CursorsOf
<1>8. LiteHolds' /\ LiteCounts' /\ LiteStatements' /\ LiteDbs'
  BY <1>1, <1>7 DEF LiteHolds, LiteCounts, LiteStatements, LiteDbs
<1>9. QED
  BY <1>2, <1>3, <1>6, <1>8

LEMMA LiteConnectKeeps ==
  ASSUME LiteInv, NEW c \in MoreConns, Sqlite!EnvConnect(c)
  PROVE  LiteInv'
<1> USE DEF LiteInv
<1> DEFINE struct == [closed |-> FALSE, counter |-> 0]
<1>1. struct \in Sqlite!ConnStructs /\ ~struct.closed /\ struct.counter = 0
  BY DEF Sqlite!ConnStructs
<1>2. struct # NULL
  BY <1>1, LiteStructs
<1>3. /\ conn' = [conn EXCEPT ![c] = struct] /\ conn[c] = NULL
      /\ registry \subseteq registry' /\ mysqls' = mysqls \union {c}
      /\ refs' = refs \union {c}
      /\ UNCHANGED <<env, cur, results, misused>>
  BY DEF Sqlite!EnvConnect
<1> HIDE DEF struct
<1>4. conn' \in [MoreConns -> Sqlite!ConnStructs \union {NULL}] /\ conn'[c] = struct
      /\ \A d \in MoreConns \ {c} : conn'[d] = conn[d]
  BY <1>1, <1>3 DEF LiteTypeOK
<1>5. LiteTypeOK'
  BY <1>3, <1>4 DEF LiteTypeOK
<1>6. MoreRefsInv'
  BY <1>2, <1>3, <1>4, DriverObjectsAssumption DEF MoreRefsInv, DriverObjectsAssumption
<1>7. \A d : CursorsOf(d)' = CursorsOf(d)
  BY <1>3 DEF CursorsOf
<1>8. IsOpen(conn'[c])
  BY <1>1, <1>2, <1>4 DEF IsOpen
<1>9. CursorsOf(c) = {}
  BY <1>3 DEF LiteHolds, CursorsOf, IsOpen
<1>10. LiteHolds'
  <2>1. \A k \in Curs : cur[k] # NULL => cur[k].conn \in MoreConns
    BY DEF LiteTypeOK, Sqlite!CurStructs
  <2>2. QED
    BY <1>3, <1>4, <1>8, <2>1 DEF LiteHolds, IsOpen
<1>11. LiteCounts'
  <2>1. Cardinality(CursorsOf(c)) = 0
    BY <1>9, FiniteCursors
  <2>2. QED
    BY <1>1, <1>4, <1>7, <2>1 DEF LiteCounts
<1>12. LiteStatements' /\ LiteDbs'
  BY <1>3, <1>4, <1>7, <1>8 DEF LiteStatements, LiteDbs, LiteTypeOK
<1>13. QED
  BY <1>3, <1>5, <1>6, <1>10, <1>11, <1>12

(* conn_close and conn_gc: no cursor of the connection is open then.       *)
LEMMA LiteConnEndKeeps ==
  ASSUME LiteInv, NEW c \in MoreConns, Sqlite!ConnClose(c) \/ Sqlite!ConnGc(c)
  PROVE  LiteInv'
<1> USE DEF LiteInv
<1>1. /\ conn[c] # NULL /\ UNCHANGED <<env, cur, refs, results, misused>>
  BY DEF Sqlite!ConnClose, Sqlite!ConnGc, Sqlite!Usable, MoreRefsInv
<1>2. CursorsOf(c) = {}
  <2>1. CASE Sqlite!ConnClose(c)
    BY <1>1, <2>1, FiniteCursors DEF Sqlite!ConnClose, LiteCounts
  <2>2. CASE Sqlite!ConnGc(c)
    BY <2>2 DEF Sqlite!ConnGc, Sqlite!Collectable, LiteHolds, CursorsOf
  <2>3. QED
    BY <2>1, <2>2
<1>3. conn[c] \in Sqlite!ConnStructs /\ conn[c].counter = 0
  BY <1>1, <1>2, FiniteCursors DEF LiteCounts, LiteTypeOK
<1>4. \E s \in Sqlite!ConnStructs \union {NULL} :
        /\ conn' = [conn EXCEPT ![c] = s] /\ ~IsOpen(s)
        /\ s # NULL => s.counter = 0
        /\ c \in refs => s # NULL
  <2>1. CASE Sqlite!ConnClose(c)
    <3> DEFINE s == [conn[c] EXCEPT !.closed = TRUE]
    <3>1. s \in Sqlite!ConnStructs /\ s.closed /\ s.counter = 0
      BY <1>3 DEF Sqlite!ConnStructs
    <3>2. conn' = [conn EXCEPT ![c] = s]
      BY <2>1 DEF Sqlite!ConnClose
    <3>3. s # NULL
      BY <3>1, LiteStructs
    <3> HIDE DEF s
    <3>4. QED
      BY <3>1, <3>2, <3>3 DEF IsOpen
  <2>2. CASE Sqlite!ConnGc(c)
    BY <2>2 DEF Sqlite!ConnGc, Sqlite!Collectable, IsOpen
  <2>3. QED
    BY <2>1, <2>2
<1>5. PICK s \in Sqlite!ConnStructs \union {NULL} :
        /\ conn' = [conn EXCEPT ![c] = s] /\ ~IsOpen(s)
        /\ s # NULL => s.counter = 0
        /\ c \in refs => s # NULL
  BY <1>4
<1>6. conn' \in [MoreConns -> Sqlite!ConnStructs \union {NULL}] /\ conn'[c] = s
      /\ \A d \in MoreConns \ {c} : conn'[d] = conn[d]
  BY <1>5 DEF LiteTypeOK
<1>7. \/ registry' = registry /\ mysqls' = mysqls /\ ~IsOpen(conn[c])
      \/ Sqlite!ConnFinish(c)
  BY <1>1, <1>3 DEF Sqlite!ConnClose, Sqlite!ConnGc, IsOpen
<1>8. mysqls' \in {mysqls, mysqls \ {c}} /\ (c \in mysqls' => <<c, "unbound">> \in results)
  <2>1. CASE mysqls' = mysqls /\ ~IsOpen(conn[c])
    BY <2>1 DEF LiteDbs
  <2>2. CASE Sqlite!ConnFinish(c)
    <3>1. ASSUME NEW vm \in results, vm[1] = c
          PROVE  vm = <<c, "unbound">>
      <4>1. vm \in MoreConns \X (Curs \union {"unbound"})
        BY DEF LiteTypeOK, Sqlite!Vms
      <4>2. vm = <<c, vm[2]>> /\ (vm[2] \in Curs \/ vm[2] = "unbound")
        BY <3>1, <4>1
      <4>3. vm[2] \in Curs => vm[2] \in CursorsOf(c)
        BY <4>2 DEF LiteStatements
      <4>4. QED
        BY <1>2, <4>2, <4>3
    <3>2. CASE \E vm \in results : vm[1] = c
      <4>1. mysqls' = mysqls
        BY <2>2, <3>2 DEF Sqlite!ConnFinish
      <4>2. QED
        BY <3>1, <3>2, <4>1
    <3>3. CASE ~\E vm \in results : vm[1] = c
      <4>1. mysqls' = mysqls \ {c}
        BY <2>2, <3>3 DEF Sqlite!ConnFinish
      <4>2. QED
        BY <4>1
    <3>4. QED
      BY <3>2, <3>3
  <2>3. QED
    BY <1>7, <2>1, <2>2
<1>9. \A k \in Curs : \A d : <<k, d>> \in registry => <<k, d>> \in registry'
  BY <1>7, DriverObjectsAssumption
  DEF Sqlite!ConnFinish, Sqlite!Unref, DriverObjectsAssumption
<1>10. LiteTypeOK'
  BY <1>1, <1>6, <1>8 DEF LiteTypeOK
<1>11. MoreRefsInv'
  BY <1>1, <1>5, <1>6 DEF MoreRefsInv
<1>12. \A d : CursorsOf(d)' = CursorsOf(d)
  BY <1>1 DEF CursorsOf
<1>13. LiteHolds'
  <2>1. \A k \in Curs : IsOpen(cur[k]) => cur[k].conn \in MoreConns \ {c}
    BY <1>2 DEF LiteTypeOK, Sqlite!CurStructs, CursorsOf, IsOpen
  <2>2. QED
    BY <1>1, <1>6, <1>9, <2>1 DEF LiteHolds
<1>14. LiteCounts'
  <2>1. Cardinality(CursorsOf(c)) = 0
    BY <1>2, FiniteCursors
  <2>2. QED
    BY <1>5, <1>6, <1>12, <2>1 DEF LiteCounts
<1>15. LiteStatements' /\ LiteDbs'
  BY <1>1, <1>5, <1>6, <1>8, <1>12 DEF LiteStatements, LiteDbs, LiteTypeOK
<1>16. QED
  BY <1>1, <1>10, <1>11, <1>13, <1>14, <1>15

LEMMA LiteCounted ==
  ASSUME LiteTypeOK, NEW c \in MoreConns, NEW s \in Sqlite!ConnStructs,
         conn' = [conn EXCEPT ![c] = s]
  PROVE  /\ conn' \in [MoreConns -> Sqlite!ConnStructs \union {NULL}]
         /\ conn'[c] # NULL /\ conn'[c] = s
         /\ \A d \in MoreConns \ {c} : conn'[d] = conn[d]
BY LiteStructs DEF LiteTypeOK

LEMMA LiteExecuteKeeps ==
  ASSUME LiteInv, NEW c \in MoreConns, Sqlite!ConnExecute(c)
  PROVE  LiteInv'
<1> USE DEF LiteInv
<1>1. /\ IsOpen(conn[c]) /\ UNCHANGED <<env, mysqls>>
      /\ misused' = misused \union Sqlite!Touch(c)
  BY DEF Sqlite!ConnExecute, Sqlite!Usable, MoreRefsInv, IsOpen
<1>2. misused' = {}
  BY <1>1 DEF Sqlite!Touch, LiteDbs
<1>3. CASE \E k \in Curs : Sqlite!CreateCursor(c, k)
  <2>1. PICK k \in Curs : Sqlite!CreateCursor(c, k)
    BY <1>3
  <2> DEFINE struct == [closed |-> FALSE, conn |-> c]
  <2>2. struct \in Sqlite!CurStructs /\ ~struct.closed /\ struct.conn = c
    BY DEF Sqlite!CurStructs
  <2>3. struct # NULL
    BY <2>2, LiteStructs
  <2>4. /\ cur[k] = NULL /\ cur' = [cur EXCEPT ![k] = struct]
        /\ conn' = [conn EXCEPT ![c].counter = @ + 1]
        /\ registry' = registry \union {<<k, c>>}
        /\ results' = results \union {<<c, k>>}
        /\ refs' = refs \union {k}
    BY <2>1 DEF Sqlite!CreateCursor
  <2> HIDE DEF struct
  <2>5. cur' \in [Curs -> Sqlite!CurStructs \union {NULL}] /\ cur'[k] = struct
        /\ \A j \in Curs \ {k} : cur'[j] = cur[j]
    BY <2>2, <2>4 DEF LiteTypeOK
  <2>6. /\ conn' \in [MoreConns -> Sqlite!ConnStructs \union {NULL}]
        /\ conn'[c] # NULL /\ conn'[c].closed = conn[c].closed
        /\ conn'[c].counter = conn[c].counter + 1
        /\ \A d \in MoreConns \ {c} : conn'[d] = conn[d]
    <3> DEFINE counted == [conn[c] EXCEPT !.counter = @ + 1]
    <3>1. conn[c] \in Sqlite!ConnStructs
      BY <1>1 DEF LiteTypeOK, IsOpen
    <3>2. /\ counted \in Sqlite!ConnStructs /\ counted.closed = conn[c].closed
          /\ counted.counter = conn[c].counter + 1
      BY <3>1 DEF Sqlite!ConnStructs
    <3>3. conn' = [conn EXCEPT ![c] = counted]
      BY <2>4
    <3> HIDE DEF counted
    <3>4. QED
      BY <3>2, <3>3, LiteCounted
  <2>7. LiteTypeOK'
    <3>1. results' \subseteq Sqlite!Vms
      BY <2>4 DEF LiteTypeOK, Sqlite!Vms
    <3>2. QED
      BY <1>1, <2>5, <2>6, <3>1 DEF LiteTypeOK
  <2>8. MoreRefsInv'
    <3>1. \A d \in MoreConns : d \in refs' => conn'[d] # NULL
      BY <2>4, <2>6, DriverObjectsAssumption DEF MoreRefsInv, DriverObjectsAssumption
    <3>2. \A j \in Curs : j \in refs' => cur'[j] # NULL
      BY <2>3, <2>4, <2>5 DEF MoreRefsInv
    <3>3. Env \in refs' => env' # NULL
      BY <1>1, <2>4, ObjectsAssumption DEF MoreRefsInv, ObjectsAssumption
    <3>4. QED
      BY <3>1, <3>2, <3>3 DEF MoreRefsInv
  <2>9. ~IsOpen(cur[k]) /\ IsOpen(cur'[k]) /\ cur'[k].conn = c
    BY <2>2, <2>3, <2>4, <2>5 DEF IsOpen
  <2>10. /\ Cardinality(CursorsOf(c)') = Cardinality(CursorsOf(c)) + 1
         /\ \A d : d # c => CursorsOf(d)' = CursorsOf(d)
    BY <2>5, <2>9, CursorOpens
  <2>11. \A j \in Curs : IsOpen(cur'[j]) => j = k \/ (IsOpen(cur[j]) /\ cur'[j] = cur[j])
    BY <2>5
  <2>12. \A d \in MoreConns : IsOpen(conn'[d]) <=> IsOpen(conn[d])
    BY <1>1, <2>6 DEF IsOpen
  <2>13. LiteHolds'
    <3>1. \A j \in Curs : IsOpen(cur[j]) => cur[j].conn \in MoreConns
      BY DEF LiteTypeOK, Sqlite!CurStructs, IsOpen
    <3>2. QED
      BY <1>1, <2>4, <2>9, <2>11, <2>12, <3>1 DEF LiteHolds
  <2>14. LiteCounts'
    BY <1>1, <2>6, <2>10 DEF LiteCounts, IsOpen
  <2>15. LiteStatements'
    <3>1. \A d \in MoreConns, j \in Curs :
            j \in CursorsOf(d)' <=> j \in CursorsOf(d) \/ (d = c /\ j = k)
      BY <2>5, <2>9 DEF CursorsOf
    <3>2. QED
      BY <2>4, <3>1 DEF LiteStatements
  <2>16. LiteDbs'
    BY <1>1, <2>4, <2>12 DEF LiteDbs, LiteTypeOK
  <2>17. QED
    BY <1>2, <2>7, <2>8, <2>13, <2>14, <2>15, <2>16
<1>4. CASE /\ results' = results \union {<<c, "unbound">>}
           /\ UNCHANGED <<conn, cur, registry, refs>>
  <2>1. \A d : CursorsOf(d)' = CursorsOf(d)
    BY <1>4 DEF CursorsOf
  <2>2. LiteTypeOK'
    <3>1. results' \subseteq Sqlite!Vms
      BY <1>4 DEF LiteTypeOK, Sqlite!Vms
    <3>2. QED
      BY <1>1, <1>4, <3>1 DEF LiteTypeOK
  <2>3. MoreRefsInv' /\ LiteHolds' /\ LiteCounts'
    BY <1>1, <1>4, <2>1 DEF MoreRefsInv, LiteHolds, LiteCounts
  <2>4. LiteStatements'
    BY <1>4, <2>1, DriverObjectsAssumption DEF LiteStatements, DriverObjectsAssumption
  <2>5. LiteDbs'
    BY <1>1, <1>4 DEF LiteDbs
  <2>6. QED
    BY <1>2, <2>2, <2>3, <2>4, <2>5
<1>5. QED
  BY <1>3, <1>4 DEF Sqlite!ConnExecute

(* The end of an open cursor, closed or collected.                         *)
LEMMA LiteCurEndKeeps ==
  ASSUME LiteInv, NEW k \in Curs, IsOpen(cur[k]), Sqlite!CurFinish(k), misused' = {},
         NEW s \in Sqlite!CurStructs \union {NULL}, cur' = [cur EXCEPT ![k] = s],
         ~IsOpen(s), k \in refs => s # NULL
  PROVE  LiteInv'
<1> USE DEF LiteInv
<1>1. cur[k].conn \in MoreConns
  BY DEF LiteTypeOK, Sqlite!CurStructs, IsOpen
<1>2. PICK c \in MoreConns : c = cur[k].conn
  BY <1>1
<1>3. IsOpen(conn[c])
  BY <1>2 DEF LiteHolds
<1>4. /\ conn' = [conn EXCEPT ![c].counter = @ - 1]
      /\ results' = results \ {<<c, k>>}
      /\ registry' = Sqlite!Unref(k)
      /\ UNCHANGED <<env, refs, mysqls>>
  BY <1>2 DEF Sqlite!CurFinish, Sqlite!CurNullify
<1>5. cur' \in [Curs -> Sqlite!CurStructs \union {NULL}] /\ cur'[k] = s
      /\ \A j \in Curs \ {k} : cur'[j] = cur[j]
  BY DEF LiteTypeOK
<1>6. /\ conn' \in [MoreConns -> Sqlite!ConnStructs \union {NULL}]
      /\ conn'[c] # NULL /\ conn'[c].closed = conn[c].closed
      /\ conn'[c].counter = conn[c].counter - 1
      /\ \A d \in MoreConns \ {c} : conn'[d] = conn[d]
  <2> DEFINE counted == [conn[c] EXCEPT !.counter = @ - 1]
  <2>1. conn[c] \in Sqlite!ConnStructs
    BY <1>3 DEF LiteTypeOK, IsOpen
  <2>2. /\ counted \in Sqlite!ConnStructs /\ counted.closed = conn[c].closed
        /\ counted.counter = conn[c].counter - 1
    BY <2>1 DEF Sqlite!ConnStructs
  <2>3. conn' = [conn EXCEPT ![c] = counted]
    BY <1>4
  <2> HIDE DEF counted
  <2>4. QED
    BY <2>2, <2>3, LiteCounted
<1>7. LiteTypeOK'
  BY <1>4, <1>5, <1>6 DEF LiteTypeOK
<1>8. MoreRefsInv'
  BY <1>4, <1>5, <1>6 DEF MoreRefsInv
<1>9. /\ Cardinality(CursorsOf(c)') = Cardinality(CursorsOf(c)) - 1
      /\ Cardinality(CursorsOf(c)) > 0
      /\ \A d : d # c => CursorsOf(d)' = CursorsOf(d)
  BY <1>2, <1>5, CursorCloses
<1>10. \A j \in Curs : IsOpen(cur'[j]) => j # k /\ IsOpen(cur[j]) /\ cur'[j] = cur[j]
  BY <1>5
<1>11. \A d \in MoreConns : IsOpen(conn'[d]) <=> IsOpen(conn[d])
  BY <1>3, <1>6 DEF IsOpen
<1>12. LiteHolds'
  <2>1. \A j \in Curs : IsOpen(cur[j]) => cur[j].conn \in MoreConns
    BY DEF LiteTypeOK, Sqlite!CurStructs, IsOpen
  <2>2. \A j \in Curs \ {k} : \A d : <<j, d>> \in registry => <<j, d>> \in registry'
    BY <1>4 DEF Sqlite!Unref
  <2>3. QED
    BY <1>10, <1>11, <2>1, <2>2 DEF LiteHolds
<1>13. LiteCounts'
  <2>1. Cardinality(CursorsOf(c)) \in Nat
    BY FiniteCursors
  <2>2. QED
    BY <1>3, <1>6, <1>9, <2>1 DEF LiteCounts, IsOpen
<1>14. LiteStatements'
  <2>1. \A d \in MoreConns, j \in Curs :
          j \in CursorsOf(d)' <=> j \in CursorsOf(d) /\ j # k
    BY <1>5 DEF CursorsOf
  <2>2. \A d \in MoreConns : k \in CursorsOf(d) => d = c
    BY <1>2 DEF CursorsOf
  <2>3. QED
    BY <1>4, <2>1, <2>2 DEF LiteStatements
<1>15. LiteDbs'
  <2>1. k # "unbound"
    BY DriverObjectsAssumption DEF DriverObjectsAssumption
  <2>2. \A d : <<d, "unbound">> \in results => <<d, "unbound">> \in results'
    BY <1>4, <2>1
  <2>3. QED
    BY <1>4, <1>11, <2>2 DEF LiteDbs, LiteTypeOK
<1>16. QED
  BY <1>7, <1>8, <1>12, <1>13, <1>14, <1>15

LEMMA LiteCursorKeeps ==
  ASSUME LiteInv, NEW k \in Curs,
         Sqlite!CurFetch(k) \/ Sqlite!CurClose(k) \/ Sqlite!CurGc(k)
  PROVE  LiteInv'
<1> USE DEF LiteInv
<1>1. cur[k] # NULL
  BY DEF Sqlite!CurFetch, Sqlite!CurClose, Sqlite!CurGc, Sqlite!CursorUsable, MoreRefsInv
<1>2. cur[k] \in Sqlite!CurStructs
  BY <1>1 DEF LiteTypeOK
<1> DEFINE closed == [cur[k] EXCEPT !.closed = TRUE]
<1>3. closed \in Sqlite!CurStructs /\ closed.closed
  BY <1>2 DEF Sqlite!CurStructs
<1>4. closed # NULL /\ ~IsOpen(closed) /\ ~IsOpen(NULL)
  BY <1>3, LiteStructs DEF IsOpen
<1>5. misused' = {}
  <2>1. CASE Sqlite!CurFetch(k)
    <3>1. IsOpen(cur[k]) /\ misused' = misused \union Sqlite!Touch(cur[k].conn)
      BY <1>1, <2>1 DEF Sqlite!CurFetch, Sqlite!CursorUsable, IsOpen
    <3>2. cur[k].conn \in MoreConns /\ IsOpen(conn[cur[k].conn])
      BY <1>2, <3>1 DEF LiteHolds, Sqlite!CurStructs
    <3>3. cur[k].conn \in mysqls
      BY <3>2 DEF LiteDbs
    <3>4. QED
      BY <3>1, <3>3 DEF Sqlite!Touch
  <2>2. QED
    BY <2>1 DEF Sqlite!CurClose, Sqlite!CurGc
<1>6. CASE IsOpen(cur[k]) /\ Sqlite!CurFinish(k) /\ cur' = [cur EXCEPT ![k].closed = TRUE]
  <2>1. cur' = [cur EXCEPT ![k] = closed]
    BY <1>6
  <2> HIDE DEF closed
  <2>2. QED
    BY <1>3, <1>4, <1>5, <1>6, <2>1, LiteCurEndKeeps
<1>7. CASE /\ IsOpen(cur[k]) /\ Sqlite!CurFinish(k) /\ k \notin refs
           /\ cur' = [cur EXCEPT ![k] = NULL]
  BY <1>4, <1>5, <1>7, LiteCurEndKeeps
<1>8. CASE /\ UNCHANGED <<env, conn, refs, registry, mysqls, results>>
           /\ \/ cur' = cur
              \/ k \notin refs /\ ~IsOpen(cur[k]) /\ cur' = [cur EXCEPT ![k] = NULL]
  <2>1. /\ cur' \in [Curs -> Sqlite!CurStructs \union {NULL}]
        /\ \A j \in Curs : cur'[j] = cur[j]
                           \/ (j \notin refs /\ ~IsOpen(cur[j]) /\ ~IsOpen(cur'[j]))
    BY <1>4, <1>8 DEF LiteTypeOK
  <2>2. \A d : CursorsOf(d)' = CursorsOf(d)
    BY <2>1 DEF CursorsOf
  <2>3. LiteTypeOK'
    BY <1>8, <2>1 DEF LiteTypeOK
  <2>4. MoreRefsInv'
    BY <1>8, <2>1 DEF MoreRefsInv
  <2>5. LiteHolds'
    BY <1>8, <2>1 DEF LiteHolds
  <2>6. LiteCounts' /\ LiteStatements' /\ LiteDbs'
    BY <1>8, <2>2 DEF LiteCounts, LiteStatements, LiteDbs
  <2>7. QED
    BY <1>5, <2>3, <2>4, <2>5, <2>6
<1>9. QED
  <2>1. CASE Sqlite!CurFetch(k)
    BY <1>1, <1>6, <1>8, <2>1 DEF Sqlite!CurFetch, Sqlite!CursorUsable, IsOpen
  <2>2. CASE Sqlite!CurClose(k)
    BY <1>1, <1>6, <2>2 DEF Sqlite!CurClose, Sqlite!CursorUsable, IsOpen
  <2>3. CASE Sqlite!CurGc(k)
    BY <1>1, <1>7, <1>8, <2>3 DEF Sqlite!CurGc, IsOpen
  <2>4. QED
    BY <2>1, <2>2, <2>3

LEMMA LiteStep ==
  ASSUME LiteInv, Sqlite!Next \/ UNCHANGED Sqlite!vars
  PROVE  LiteInv'
<1>1. CASE UNCHANGED Sqlite!vars
  <2>1. \A d : CursorsOf(d)' = CursorsOf(d)
    BY <1>1 DEF CursorsOf, Sqlite!vars
  <2>2. QED
    BY <1>1, <2>1 DEF Sqlite!vars, LiteInv, LiteTypeOK, MoreRefsInv, LiteHolds, LiteCounts,
       LiteStatements, LiteDbs
<1>2. CASE Sqlite!Next
  BY <1>2, LiteCallKeeps, LiteConnectKeeps, LiteConnEndKeeps, LiteExecuteKeeps,
     LiteCursorKeeps
  DEF Sqlite!Next
<1>3. QED
  BY <1>1, <1>2

LEMMA LiteCardinality == \A S : Sqlite!Cardinality(S) = Cardinality(S)
BY DEF Sqlite!Cardinality, Cardinality

LEMMA LiteInvOwns == LiteInv => Sqlite!SqliteOwns /\ Sqlite!SqliteIsSafe
<1> SUFFICES ASSUME LiteInv
             PROVE  Sqlite!SqliteOwns /\ Sqlite!SqliteIsSafe
  OBVIOUS
<1> USE DEF LiteInv
<1>1. \A x : Sqlite!IsOpen(x) <=> IsOpen(x)
  BY DEF Sqlite!IsOpen, IsOpen
<1>2. \A c \in MoreConns : conn[c] # NULL =>
        conn[c].counter =
          Sqlite!Cardinality({k \in Curs : Sqlite!IsOpen(cur[k]) /\ cur[k].conn = c})
  <2>1. \A c : {k \in Curs : Sqlite!IsOpen(cur[k]) /\ cur[k].conn = c} = CursorsOf(c)
    BY <1>1 DEF CursorsOf
  <2>2. QED
    BY <2>1, LiteCardinality DEF LiteCounts
<1>3. results \ (MoreConns \X {"unbound"}) =
        {<<cur[k].conn, k>> : k \in {k \in Curs : Sqlite!IsOpen(cur[k])}}
  <2> DEFINE owned == {<<cur[k].conn, k>> : k \in {k \in Curs : Sqlite!IsOpen(cur[k])}}
  <2>1. ASSUME NEW vm \in results, vm \notin MoreConns \X {"unbound"}
        PROVE  vm \in owned
    <3>1. vm \in MoreConns \X (Curs \union {"unbound"})
      BY DEF LiteTypeOK, Sqlite!Vms
    <3>2. vm = <<vm[1], vm[2]>> /\ vm[1] \in MoreConns /\ vm[2] \in Curs
      BY <2>1, <3>1
    <3>3. vm[2] \in CursorsOf(vm[1])
      BY <3>2 DEF LiteStatements
    <3>4. QED
      BY <1>1, <3>2, <3>3 DEF CursorsOf
  <2>2. ASSUME NEW k \in Curs, IsOpen(cur[k])
        PROVE  <<cur[k].conn, k>> \in results /\ <<cur[k].conn, k>> \notin MoreConns \X {"unbound"}
    <3>1. cur[k].conn \in MoreConns
      BY <2>2 DEF LiteTypeOK, Sqlite!CurStructs, IsOpen
    <3>2. k \in CursorsOf(cur[k].conn)
      BY <2>2 DEF CursorsOf
    <3>3. k # "unbound"
      BY DriverObjectsAssumption DEF DriverObjectsAssumption
    <3>4. QED
      BY <3>1, <3>2, <3>3 DEF LiteStatements
  <2>3. QED
    BY <1>1, <2>1, <2>2
<1>4. /\ {c \in MoreConns : Sqlite!IsOpen(conn[c])} \subseteq mysqls
      /\ \A c \in mysqls : Sqlite!IsOpen(conn[c]) \/ <<c, "unbound">> \in results
  BY <1>1 DEF LiteDbs
<1>5. QED
  BY <1>2, <1>3, <1>4 DEF Sqlite!SqliteOwns, Sqlite!SqliteIsSafe
-----------------------------------------------------------------------------
(* The Firebird driver.                                                    *)
OpenConns == {c \in MoreConns : IsOpen(conn[c])}

FireTypeOK ==
  /\ env \in Firebird!LockStructs \union {NULL}
  /\ conn \in [MoreConns -> Firebird!LockStructs \union {NULL}]
  /\ cur \in [Curs -> Firebird!CurStructs \union {NULL}]

(* An open object is below an open connection, and that below the          *)
(* environment.                                                            *)
FireHolds ==
  /\ \A k \in Curs : IsOpen(cur[k]) => IsOpen(conn[cur[k].conn])
  /\ \A c \in MoreConns : IsOpen(conn[c]) => env # NULL

(* There are at least as many locks as open objects, and a locked object   *)
(* is registered, whatever has failed.                                     *)
FireLocks ==
  /\ env # NULL => /\ env.lock >= Cardinality(OpenConns)
                   /\ env.lock > 0 => <<Env, Env>> \in registry
  /\ \A c \in MoreConns : conn[c] # NULL =>
       /\ conn[c].lock >= Cardinality(CursorsOf(c))
       /\ conn[c].lock > 0 => <<c, c>> \in registry

FireRegistered ==
  \A c \in MoreConns : <<c, c>> \in registry =>
    conn[c] # NULL /\ (spoilt \subseteq {"unnamed"} => conn[c].lock > 0)

FireExact ==
  spoilt \subseteq {"registered", "unnamed"} =>
    /\ env # NULL => env.lock = Cardinality(OpenConns)
    /\ \A c \in MoreConns : conn[c] # NULL => conn[c].lock = Cardinality(CursorsOf(c))
    /\ mysqls = OpenConns
    /\ results = {k \in Curs : IsOpen(cur[k])}

FireSound ==
  FireTypeOK /\ MoreRefsInv /\ FireHolds /\ FireLocks /\ FireRegistered /\ FireExact

FireInv == FireSound /\ misused = {}

(* The statement handles: those of the open cursors, and the ones that     *)
(* nobody knows, all of them below a database that is attached.            *)
FireStmts ==
  /\ stranded \subseteq MoreConns \X (Curs \union {"left"})
  /\ \A c \in MoreConns, k \in Curs : <<c, k>> \in stranded <=> k \in CursorsOf(c)
  /\ OpenConns \subseteq mysqls
  /\ \A handle \in stranded : handle[1] \in mysqls

LEMMA FireStructs ==
  /\ NULL \notin Firebird!LockStructs /\ NULL \notin Firebird!CurStructs
  /\ [closed |-> FALSE, lock |-> 0] \in Firebird!LockStructs
<1>1. [closed |-> FALSE, lock |-> 0] \in Firebird!LockStructs
  BY DEF Firebird!LockStructs
<1>2. QED
  BY <1>1, DriverNullAssumption DEF DriverNullAssumption

LEMMA FiniteConns ==
  /\ IsFiniteSet(OpenConns) /\ Cardinality(OpenConns) \in Nat
  /\ Cardinality(OpenConns) = 0 <=> OpenConns = {}
<1>1. OpenConns \subseteq MoreConns
  BY DEF OpenConns
<1>2. IsFiniteSet(OpenConns)
  BY <1>1, FS_Subset, DriverObjectsAssumption DEF DriverObjectsAssumption
<1>3. QED
  BY <1>2, CountedNone

LEMMA FireInit ==
  ASSUME Firebird!Init
  PROVE  FireInv /\ FireStmts
<1> USE DEF Firebird!Init
<1>1. FireTypeOK
  BY DEF FireTypeOK
<1>2. (\A c : CursorsOf(c) = {}) /\ OpenConns = {}
  BY DEF CursorsOf, OpenConns, IsOpen
<1>3. MoreRefsInv /\ FireHolds /\ FireLocks /\ FireRegistered
  BY DEF MoreRefsInv, FireHolds, FireLocks, FireRegistered, IsOpen
<1>4. FireExact
  BY <1>2 DEF FireExact, IsOpen
<1>5. FireStmts
  BY <1>2 DEF FireStmts
<1>6. QED
  BY <1>1, <1>3, <1>4, <1>5 DEF FireInv, FireSound

(* No step of an open connection uses what is gone.                        *)
LEMMA FireTouch ==
  ASSUME FireInv, NEW c \in MoreConns, IsOpen(conn[c])
  PROVE  Firebird!Touch(c) = {}
BY DEF FireInv, FireSound, FireHolds, Firebird!Touch, IsOpen

LEMMA FireEnvKeeps ==
  ASSUME FireInv, Firebird!CreateEnvironment \/ Firebird!EnvClose \/ Firebird!EnvGc
  PROVE  FireInv'
<1> USE DEF FireInv, FireSound
<1>1. UNCHANGED <<conn, cur, mysqls, results, misused, spoilt>>
  BY DEF Firebird!CreateEnvironment, Firebird!EnvClose, Firebird!EnvGc
<1>2. env # NULL => env \in Firebird!LockStructs /\ env.lock \in Int
  BY DEF FireTypeOK, Firebird!LockStructs
<1>3. OpenConns = {} /\ Cardinality(OpenConns) = 0
  <2>1. CASE Firebird!CreateEnvironment
    BY <2>1, FiniteConns DEF Firebird!CreateEnvironment, FireHolds, OpenConns
  <2>2. CASE Firebird!EnvClose
    <3>1. env # NULL /\ env.lock = 0
      BY <2>2 DEF Firebird!EnvClose, MoreRefsInv
    <3>2. QED
      BY <3>1, FiniteConns DEF FireLocks
  <2>3. CASE Firebird!EnvGc
    <3>1. env # NULL /\ <<Env, Env>> \notin registry
      BY <2>3 DEF Firebird!EnvGc, Firebird!Collectable
    <3>2. ~(env.lock > 0) /\ env.lock >= Cardinality(OpenConns)
      BY <3>1 DEF FireLocks
    <3>3. Cardinality(OpenConns) \in Nat /\ env.lock \in Int
      BY <1>2, <3>1, FiniteConns
    <3>4. Cardinality(OpenConns) = 0
      BY <3>2, <3>3
    <3>5. QED
      BY <3>4, FiniteConns
  <2>4. QED
    BY <2>1, <2>2, <2>3
<1>4. /\ env' \in Firebird!LockStructs \union {NULL}
      /\ env' # NULL => env'.lock = 0
      /\ Env \in refs' => env' # NULL
      /\ \A x : x \in refs' => x \in refs \/ x = Env
      /\ \A c \in MoreConns : <<c, c>> \in registry' <=> <<c, c>> \in registry
  <2>1. CASE Firebird!CreateEnvironment
    <3> DEFINE struct == [closed |-> FALSE, lock |-> 0]
    <3>1. struct \in Firebird!LockStructs /\ struct # NULL /\ struct.lock = 0
      BY FireStructs
    <3>2. env' = struct /\ refs' = refs \union {Env} /\ registry' = registry
      BY <2>1 DEF Firebird!CreateEnvironment
    <3> HIDE DEF struct
    <3>3. QED
      BY <3>1, <3>2
  <2>2. CASE Firebird!EnvClose
    <3> DEFINE struct == [env EXCEPT !.closed = TRUE]
    <3>1. env # NULL /\ env.lock = 0
      BY <2>2 DEF Firebird!EnvClose, MoreRefsInv
    <3>2. struct \in Firebird!LockStructs /\ struct.lock = 0
      BY <1>2, <3>1 DEF Firebird!LockStructs
    <3>3. struct # NULL
      BY <3>2, FireStructs
    <3>4. env' = struct /\ refs' = refs /\ registry' = registry \ {<<Env, Env>>}
      BY <2>2 DEF Firebird!EnvClose, Firebird!UnregisterObj
    <3> HIDE DEF struct
    <3>5. QED
      BY <3>2, <3>3, <3>4, DriverObjectsAssumption DEF DriverObjectsAssumption
  <2>3. CASE Firebird!EnvGc
    BY <2>3 DEF Firebird!EnvGc, Firebird!Collectable
  <2>4. QED
    BY <2>1, <2>2, <2>3
<1>5. FireTypeOK'
  BY <1>1, <1>4 DEF FireTypeOK
<1>6. MoreRefsInv'
  BY <1>1, <1>4, DriverObjectsAssumption, ObjectsAssumption
  DEF MoreRefsInv, DriverObjectsAssumption, ObjectsAssumption
<1>7. OpenConns' = {} /\ \A c : CursorsOf(c)' = CursorsOf(c)
  BY <1>1, <1>3 DEF OpenConns, CursorsOf
<1>8. FireHolds'
  BY <1>1, <1>7 DEF FireHolds, OpenConns
<1>9. Cardinality(OpenConns') = 0
  BY <1>7, FS_EmptySet
<1>10. FireLocks'
  <2>1. env' # NULL => env'.lock >= Cardinality(OpenConns') /\ ~(env'.lock > 0)
    BY <1>4, <1>9
  <2>2. \A c \in MoreConns : conn'[c] # NULL =>
          /\ conn'[c].lock >= Cardinality(CursorsOf(c)')
          /\ conn'[c].lock > 0 => <<c, c>> \in registry'
    BY <1>1, <1>4, <1>7 DEF FireLocks
  <2>3. QED
    BY <2>1, <2>2 DEF FireLocks
<1>11. FireRegistered'
  BY <1>1, <1>4 DEF FireRegistered
<1>12. FireExact'
  BY <1>1, <1>3, <1>4, <1>7, <1>9 DEF FireExact
<1>13. QED
  BY <1>1, <1>5, <1>6, <1>8, <1>10, <1>11, <1>12

(* A call on an open connection or cursor, and Lua code letting go.        *)
LEMMA FireCallKeeps ==
  ASSUME FireSound, UNCHANGED <<env, conn, cur, registry, mysqls, results, spoilt>>,
         refs' \subseteq refs
  PROVE  FireSound'
<1> USE DEF FireInv, FireSound
<1>1. OpenConns' = OpenConns /\ \A c : CursorsOf(c)' = CursorsOf(c)
  BY DEF OpenConns, CursorsOf
<1>2. FireTypeOK' /\ MoreRefsInv' /\ FireHolds' /\ FireRegistered'
  BY DEF FireTypeOK, MoreRefsInv, FireHolds, FireRegistered
<1>3. FireLocks' /\ FireExact'
  BY <1>1 DEF FireLocks, FireExact
<1>4. QED
  BY <1>2, <1>3

LEMMA FireConnectKeeps ==
  ASSUME FireInv, NEW c \in MoreConns, Firebird!EnvConnect(c)
  PROVE  FireInv'
<1> USE DEF FireInv, FireSound
<1>1. /\ env # NULL /\ conn[c] = NULL /\ mysqls' = mysqls \union {c}
      /\ UNCHANGED <<cur, results, misused>>
  BY DEF Firebird!EnvConnect, MoreRefsInv
<1>2. env \in Firebird!LockStructs /\ env.lock \in Int
  BY <1>1 DEF FireTypeOK, Firebird!LockStructs
<1>3. \A d : CursorsOf(d)' = CursorsOf(d)
  BY <1>1 DEF CursorsOf
<1>4. CASE /\ spoilt' = spoilt \union {"transaction"}
           /\ UNCHANGED <<env, conn, refs, registry>>
  <2>1. OpenConns' = OpenConns
    BY <1>4 DEF OpenConns
  <2>2. FireTypeOK' /\ MoreRefsInv' /\ FireHolds' /\ FireRegistered'
    BY <1>1, <1>4 DEF FireTypeOK, MoreRefsInv, FireHolds, FireRegistered
  <2>3. FireLocks' /\ FireExact'
    BY <1>3, <1>4, <2>1 DEF FireLocks, FireExact
  <2>4. QED
    BY <1>1, <2>2, <2>3
<1>5. CASE /\ conn' = [conn EXCEPT ![c] = [closed |-> FALSE, lock |-> 0]]
           /\ registry' = Firebird!RegisterObj(Env)
           /\ env' = [env EXCEPT !.lock = @ + 1]
           /\ refs' = refs \union {c}
           /\ UNCHANGED spoilt
  <2> DEFINE struct == [closed |-> FALSE, lock |-> 0]
  <2>1. struct \in Firebird!LockStructs /\ struct # NULL /\ struct.lock = 0 /\ ~struct.closed
    BY FireStructs
  <2>2. conn' = [conn EXCEPT ![c] = struct]
    BY <1>5
  <2> HIDE DEF struct
  <2>3. conn' \in [MoreConns -> Firebird!LockStructs \union {NULL}] /\ conn'[c] = struct
        /\ \A d \in MoreConns \ {c} : conn'[d] = conn[d]
    BY <2>1, <2>2 DEF FireTypeOK
  <2>4. env' \in Firebird!LockStructs /\ env'.lock = env.lock + 1
    BY <1>2, <1>5 DEF Firebird!LockStructs
  <2>5. env' # NULL
    BY <2>4, FireStructs
  <2>6. registry' = registry \union {<<Env, Env>>} /\ c # Env
    BY <1>5, DriverObjectsAssumption DEF Firebird!RegisterObj, DriverObjectsAssumption
  <2>7. FireTypeOK'
    BY <1>1, <2>3, <2>4 DEF FireTypeOK
  <2>8. MoreRefsInv'
    BY <1>1, <1>5, <2>1, <2>3, <2>5, DriverObjectsAssumption
    DEF MoreRefsInv, DriverObjectsAssumption
  <2>9. IsOpen(conn'[c]) /\ ~IsOpen(conn[c])
    BY <1>1, <2>1, <2>3 DEF IsOpen
  <2>10. OpenConns' = OpenConns \union {c} /\ c \notin OpenConns
    BY <2>3, <2>9 DEF OpenConns
  <2>11. Cardinality(OpenConns') = Cardinality(OpenConns) + 1
         /\ Cardinality(OpenConns) \in Nat
    BY <2>10, FiniteConns, CountedUp
  <2>12. \A k \in Curs : IsOpen(cur[k]) => cur[k].conn \in MoreConns
    BY DEF FireTypeOK, Firebird!CurStructs, IsOpen
  <2>13. FireHolds'
    BY <1>1, <2>3, <2>5, <2>9, <2>12 DEF FireHolds
  <2>14. CursorsOf(c) = {} /\ Cardinality(CursorsOf(c)) = 0
    <3>1. CursorsOf(c) = {}
      BY <1>1 DEF FireHolds, CursorsOf, IsOpen
    <3>2. QED
      BY <3>1, FiniteCursors
  <2>15. FireLocks'
    <3>1. env'.lock >= Cardinality(OpenConns')
      BY <1>1, <1>2, <2>4, <2>11 DEF FireLocks
    <3>2. <<Env, Env>> \in registry'
      BY <2>6
    <3>3. \A d \in MoreConns : conn'[d] # NULL =>
            /\ conn'[d].lock >= Cardinality(CursorsOf(d)')
            /\ conn'[d].lock > 0 => <<d, d>> \in registry'
      BY <1>3, <2>1, <2>3, <2>6, <2>14 DEF FireLocks
    <3>4. QED
      BY <3>1, <3>2, <3>3 DEF FireLocks
  <2>16. FireRegistered'
    <3>1. <<c, c>> \notin registry'
      BY <1>1, <2>6 DEF FireRegistered
    <3>2. \A d \in MoreConns : <<d, d>> \in registry' => d # c /\ <<d, d>> \in registry
      BY <2>6, <3>1, DriverObjectsAssumption DEF DriverObjectsAssumption
    <3>3. QED
      BY <1>5, <2>3, <3>2 DEF FireRegistered
  <2>17. FireExact'
    <3> SUFFICES ASSUME spoilt' \subseteq {"registered", "unnamed"}
                 PROVE  /\ env'.lock = Cardinality(OpenConns')
                        /\ \A d \in MoreConns : conn'[d] # NULL =>
                             conn'[d].lock = Cardinality(CursorsOf(d)')
                        /\ mysqls' = OpenConns'
                        /\ results' = {k \in Curs : IsOpen(cur'[k])}
      BY DEF FireExact
    <3>1. spoilt \subseteq {"registered", "unnamed"}
      BY <1>5
    <3>2. env'.lock = Cardinality(OpenConns')
      BY <1>1, <2>4, <2>11, <3>1 DEF FireExact
    <3>3. \A d \in MoreConns : conn'[d] # NULL => conn'[d].lock = Cardinality(CursorsOf(d)')
      BY <1>3, <2>1, <2>3, <2>14, <3>1 DEF FireExact
    <3>4. mysqls' = OpenConns' /\ results' = {k \in Curs : IsOpen(cur'[k])}
      BY <1>1, <2>10, <3>1 DEF FireExact
    <3>5. QED
      BY <3>2, <3>3, <3>4
  <2>18. QED
    BY <1>1, <2>7, <2>8, <2>13, <2>15, <2>16, <2>17
<1>6. QED
  BY <1>4, <1>5 DEF Firebird!EnvConnect

LEMMA FireCreateKeeps ==
  ASSUME FireInv, NEW c \in MoreConns, IsOpen(conn[c]), misused' = {},
         UNCHANGED <<env, mysqls, spoilt>>,
         NEW n \in Curs, Firebird!CreateCursor(c, n)
  PROVE  FireInv'
<1> USE DEF FireInv, FireSound
<1>1. IsOpen(conn[c]) /\ UNCHANGED <<env, mysqls, spoilt>>
  OBVIOUS
<1>2. misused' = {}
  OBVIOUS
<1>3. PICK k \in Curs :
        /\ cur[k] = NULL /\ k \notin results
        /\ cur' = [cur EXCEPT ![k] = [closed |-> FALSE, conn |-> c]]
        /\ results' = results \union {k}
        /\ refs' = refs \union {k}
  BY DEF Firebird!CreateCursor
<1>4. /\ registry' = registry \union {<<c, c>>}
      /\ conn' = [conn EXCEPT ![c].lock = @ + 1]
  BY DEF Firebird!CreateCursor, Firebird!RegisterObj
<1> DEFINE struct == [closed |-> FALSE, conn |-> c]
<1> DEFINE locked == [conn[c] EXCEPT !.lock = @ + 1]
<1>5. struct \in Firebird!CurStructs /\ ~struct.closed /\ struct.conn = c
  BY DEF Firebird!CurStructs
<1>6. struct # NULL /\ cur' = [cur EXCEPT ![k] = struct]
  BY <1>3, <1>5, FireStructs
<1>7. conn[c] \in Firebird!LockStructs /\ conn[c].lock \in Int /\ ~conn[c].closed
  BY <1>1 DEF FireTypeOK, Firebird!LockStructs, IsOpen
<1>8. locked \in Firebird!LockStructs /\ ~locked.closed /\ locked.lock = conn[c].lock + 1
  BY <1>7 DEF Firebird!LockStructs
<1>9. locked # NULL /\ conn' = [conn EXCEPT ![c] = locked]
  BY <1>4, <1>8, FireStructs
<1> HIDE DEF struct, locked
<1>10. cur' \in [Curs -> Firebird!CurStructs \union {NULL}] /\ cur'[k] = struct
       /\ \A j \in Curs \ {k} : cur'[j] = cur[j]
  BY <1>5, <1>6 DEF FireTypeOK
<1>11. conn' \in [MoreConns -> Firebird!LockStructs \union {NULL}] /\ conn'[c] = locked
       /\ \A d \in MoreConns \ {c} : conn'[d] = conn[d]
  BY <1>8, <1>9 DEF FireTypeOK
<1>12. FireTypeOK'
  BY <1>1, <1>10, <1>11 DEF FireTypeOK
<1>13. MoreRefsInv'
  <2>1. \A d \in MoreConns : d \in refs' => conn'[d] # NULL
    BY <1>3, <1>9, <1>11, DriverObjectsAssumption DEF MoreRefsInv, DriverObjectsAssumption
  <2>2. \A j \in Curs : j \in refs' => cur'[j] # NULL
    BY <1>3, <1>6, <1>10 DEF MoreRefsInv
  <2>3. Env \in refs' => env' # NULL
    BY <1>1, <1>3, ObjectsAssumption DEF MoreRefsInv, ObjectsAssumption
  <2>4. QED
    BY <2>1, <2>2, <2>3 DEF MoreRefsInv
<1>14. ~IsOpen(cur[k]) /\ IsOpen(cur'[k]) /\ cur'[k].conn = c
  BY <1>3, <1>5, <1>6, <1>10 DEF IsOpen
<1>15. /\ Cardinality(CursorsOf(c)') = Cardinality(CursorsOf(c)) + 1
       /\ Cardinality(CursorsOf(c)) \in Nat
       /\ \A d : d # c => CursorsOf(d)' = CursorsOf(d)
  BY <1>10, <1>14, CursorOpens, FiniteCursors
<1>16. \A d \in MoreConns : IsOpen(conn'[d]) <=> IsOpen(conn[d])
  BY <1>1, <1>8, <1>9, <1>11 DEF IsOpen
<1>17. OpenConns' = OpenConns
  BY <1>16 DEF OpenConns
<1>18. FireHolds'
  <2>1. \A j \in Curs : IsOpen(cur[j]) => cur[j].conn \in MoreConns
    BY DEF FireTypeOK, Firebird!CurStructs, IsOpen
  <2>2. \A j \in Curs : IsOpen(cur'[j]) => j = k \/ (IsOpen(cur[j]) /\ cur'[j] = cur[j])
    BY <1>10
  <2>3. QED
    BY <1>1, <1>14, <1>16, <2>1, <2>2 DEF FireHolds
<1>19. FireLocks'
  <2>1. env' # NULL => /\ env'.lock >= Cardinality(OpenConns')
                       /\ env'.lock > 0 => <<Env, Env>> \in registry'
    BY <1>1, <1>4, <1>17 DEF FireLocks
  <2>2. conn[c].lock >= Cardinality(CursorsOf(c))
    BY <1>1 DEF FireLocks, IsOpen
  <2>3. conn'[c].lock >= Cardinality(CursorsOf(c)') /\ <<c, c>> \in registry'
    BY <1>4, <1>7, <1>8, <1>11, <1>15, <2>2
  <2>4. \A d \in MoreConns \ {c} : conn'[d] # NULL =>
          /\ conn'[d].lock >= Cardinality(CursorsOf(d)')
          /\ conn'[d].lock > 0 => <<d, d>> \in registry'
    BY <1>4, <1>11, <1>15 DEF FireLocks
  <2>5. QED
    BY <2>1, <2>3, <2>4 DEF FireLocks
<1>20. FireRegistered'
  <2>1. conn'[c] # NULL /\ conn'[c].lock > 0
    <3>1. conn[c].lock >= Cardinality(CursorsOf(c))
      BY <1>1 DEF FireLocks, IsOpen
    <3>2. conn'[c].lock = conn[c].lock + 1 /\ conn'[c] # NULL
      BY <1>8, <1>9, <1>11
    <3>3. QED
      BY <1>7, <1>15, <3>1, <3>2
  <2>2. \A d \in MoreConns \ {c} : <<d, d>> \in registry' => <<d, d>> \in registry
    BY <1>4
  <2>3. QED
    BY <1>1, <1>11, <2>1, <2>2 DEF FireRegistered
<1>21. FireExact'
  <2> SUFFICES ASSUME spoilt' \subseteq {"registered", "unnamed"}
               PROVE  /\ env' # NULL => env'.lock = Cardinality(OpenConns')
                      /\ \A d \in MoreConns : conn'[d] # NULL =>
                           conn'[d].lock = Cardinality(CursorsOf(d)')
                      /\ mysqls' = OpenConns'
                      /\ results' = {j \in Curs : IsOpen(cur'[j])}
    BY DEF FireExact
  <2>1. spoilt \subseteq {"registered", "unnamed"}
    BY <1>1
  <2>2. (env' # NULL => env'.lock = Cardinality(OpenConns')) /\ mysqls' = OpenConns'
    BY <1>1, <1>17, <2>1 DEF FireExact
  <2>3. conn'[c].lock = Cardinality(CursorsOf(c)')
    BY <1>1, <1>8, <1>11, <1>15, <2>1 DEF FireExact, IsOpen
  <2>4. \A d \in MoreConns \ {c} : conn'[d] # NULL => conn'[d].lock = Cardinality(CursorsOf(d)')
    BY <1>11, <1>15, <2>1 DEF FireExact
  <2>5. results' = {j \in Curs : IsOpen(cur'[j])}
    BY <1>3, <1>10, <1>14, <2>1 DEF FireExact
  <2>6. QED
    BY <2>2, <2>3, <2>4, <2>5
<1>22. QED
  BY <1>2, <1>12, <1>13, <1>18, <1>19, <1>20, <1>21

(* An execute that makes no cursor leaves the objects alone.               *)
LEMMA FireExecuteKeeps ==
  ASSUME FireInv, NEW c \in MoreConns, Firebird!ConnExecute(c)
  PROVE  FireInv'
<1>1. /\ IsOpen(conn[c]) /\ UNCHANGED <<env, mysqls>>
      /\ misused' = misused \union Firebird!Touch(c)
  BY DEF Firebird!ConnExecute, Firebird!Usable, FireInv, FireSound, MoreRefsInv, IsOpen
<1>2. misused' = {}
  BY <1>1, FireTouch DEF FireInv
<1>3. CASE \E k \in Curs : Firebird!CreateCursor(c, k) /\ UNCHANGED spoilt
  BY <1>1, <1>2, <1>3, FireCreateKeeps
<1>4. CASE /\ UNCHANGED <<conn, cur, refs, registry, results>>
           /\ spoilt' \in {spoilt, spoilt \union {"unnamed"}}
  <2>1. OpenConns' = OpenConns /\ \A d : CursorsOf(d)' = CursorsOf(d)
    BY <1>4 DEF OpenConns, CursorsOf
  <2>2. /\ spoilt' \subseteq {"unnamed"} => spoilt \subseteq {"unnamed"}
        /\ spoilt' \subseteq {"registered", "unnamed"} =>
             spoilt \subseteq {"registered", "unnamed"}
    BY <1>4
  <2>3. FireTypeOK' /\ MoreRefsInv' /\ FireHolds' /\ FireRegistered'
    BY <1>1, <1>4, <2>2
    DEF FireInv, FireSound, FireTypeOK, MoreRefsInv, FireHolds, FireRegistered
  <2>4. FireLocks' /\ FireExact'
    BY <1>1, <1>4, <2>1, <2>2 DEF FireInv, FireSound, FireLocks, FireExact
  <2>5. QED
    BY <1>2, <2>3, <2>4 DEF FireInv, FireSound
<1>5. QED
  BY <1>3, <1>4 DEF Firebird!ConnExecute

(* A closed connection is collected.                                       *)
LEMMA FireClosedGcKeeps ==
  ASSUME FireInv, NEW c \in MoreConns, conn[c].closed, Firebird!ConnGc(c)
  PROVE  FireInv'
<1> USE DEF FireInv, FireSound
<1>1. /\ conn' = [conn EXCEPT ![c] = NULL] /\ conn[c] # NULL
      /\ c \notin refs /\ <<c, c>> \notin registry
      /\ UNCHANGED <<env, registry, mysqls, misused, spoilt, cur, refs, results>>
  BY DEF Firebird!ConnGc, Firebird!Collectable
<1>2. conn' \in [MoreConns -> Firebird!LockStructs \union {NULL}] /\ conn'[c] = NULL
      /\ \A d \in MoreConns \ {c} : conn'[d] = conn[d]
  BY <1>1 DEF FireTypeOK
<1>3. \A d \in MoreConns : IsOpen(conn'[d]) <=> IsOpen(conn[d])
  BY <1>1, <1>2 DEF IsOpen
<1>4. OpenConns' = OpenConns /\ \A d : CursorsOf(d)' = CursorsOf(d)
  BY <1>1, <1>3 DEF OpenConns, CursorsOf
<1>5. FireTypeOK' /\ MoreRefsInv'
  BY <1>1, <1>2 DEF FireTypeOK, MoreRefsInv
<1>6. FireHolds'
  <2>1. \A j \in Curs : IsOpen(cur[j]) => cur[j].conn \in MoreConns
    BY DEF FireTypeOK, Firebird!CurStructs, IsOpen
  <2>2. QED
    BY <1>1, <1>3, <2>1 DEF FireHolds
<1>7. FireLocks' /\ FireRegistered' /\ FireExact'
  BY <1>1, <1>2, <1>4 DEF FireLocks, FireRegistered, FireExact
<1>8. QED
  BY <1>1, <1>5, <1>6, <1>7

(* An open connection is closed or collected: it has no open cursors.      *)
LEMMA FireConnEndKeeps ==
  ASSUME FireInv, NEW c \in MoreConns, IsOpen(conn[c]),
         Firebird!ConnClose(c) \/ Firebird!ConnGc(c)
  PROVE  FireInv'
<1> USE DEF FireInv, FireSound
<1>1. /\ UNCHANGED <<cur, refs, results>> /\ Firebird!ConnFinish
      /\ misused' = misused \union Firebird!Touch(c)
      /\ \/ mysqls' = mysqls \ {c} /\ spoilt' = spoilt
         \/ spoilt' = spoilt \union {"detach"}
  BY DEF Firebird!ConnClose, Firebird!ConnGc, Firebird!Detach, IsOpen
<1>2. misused' = {} /\ env # NULL
  BY <1>1, FireTouch DEF FireHolds
<1>3. conn[c] \in Firebird!LockStructs /\ conn[c].lock \in Int
  BY DEF FireTypeOK, Firebird!LockStructs, IsOpen
<1>4. CursorsOf(c) = {} /\ Cardinality(CursorsOf(c)) = 0
  <2>1. conn[c].lock >= Cardinality(CursorsOf(c))
        /\ (conn[c].lock > 0 => <<c, c>> \in registry)
    BY DEF FireLocks, IsOpen
  <2>2. ~(conn[c].lock > 0)
    <3>1. CASE Firebird!ConnClose(c)
      BY <3>1, <1>3 DEF Firebird!ConnClose
    <3>2. CASE Firebird!ConnGc(c)
      BY <3>2, <2>1 DEF Firebird!ConnGc, Firebird!Collectable
    <3>3. QED
      BY <3>1, <3>2
  <2>3. Cardinality(CursorsOf(c)) \in Nat
    BY FiniteCursors
  <2>4. Cardinality(CursorsOf(c)) = 0
    BY <1>3, <2>1, <2>2, <2>3
  <2>5. QED
    BY <2>4, FiniteCursors
<1>5. \E s \in Firebird!LockStructs \union {NULL} :
        /\ conn' = [conn EXCEPT ![c] = s] /\ ~IsOpen(s)
        /\ s # NULL => s.lock = 0
        /\ s = NULL => c \notin refs /\ <<c, c>> \notin registry
  <2>1. CASE Firebird!ConnClose(c)
    <3> DEFINE s == [conn[c] EXCEPT !.closed = TRUE]
    <3>1. s \in Firebird!LockStructs /\ s.closed /\ s.lock = 0
      BY <1>3, <2>1 DEF Firebird!LockStructs, Firebird!ConnClose
    <3>2. conn' = [conn EXCEPT ![c] = s]
      BY <2>1 DEF Firebird!ConnClose
    <3>3. s # NULL
      BY <3>1, FireStructs
    <3> HIDE DEF s
    <3>4. QED
      BY <3>1, <3>2, <3>3 DEF IsOpen
  <2>2. CASE Firebird!ConnGc(c)
    BY <2>2 DEF Firebird!ConnGc, Firebird!Collectable, IsOpen
  <2>3. QED
    BY <2>1, <2>2
<1>6. PICK s \in Firebird!LockStructs \union {NULL} :
        /\ conn' = [conn EXCEPT ![c] = s] /\ ~IsOpen(s)
        /\ s # NULL => s.lock = 0
        /\ s = NULL => c \notin refs /\ <<c, c>> \notin registry
  BY <1>5
<1>7. conn' \in [MoreConns -> Firebird!LockStructs \union {NULL}] /\ conn'[c] = s
      /\ \A d \in MoreConns \ {c} : conn'[d] = conn[d]
  BY <1>6 DEF FireTypeOK
<1>8. OpenConns' = OpenConns \ {c} /\ c \in OpenConns
  BY <1>6, <1>7 DEF OpenConns
<1>9. /\ Cardinality(OpenConns') = Cardinality(OpenConns) - 1
      /\ Cardinality(OpenConns) > 0 /\ Cardinality(OpenConns) \in Nat
  BY <1>8, FiniteConns, CountedDown
<1>10. \A d : CursorsOf(d)' = CursorsOf(d)
  BY <1>1 DEF CursorsOf
<1>11. env \in Firebird!LockStructs /\ env.lock \in Int
  BY <1>2 DEF FireTypeOK, Firebird!LockStructs
<1>12. /\ env' \in Firebird!LockStructs /\ env'.lock = env.lock - 1
       /\ registry' = IF env.lock = 1 THEN registry \ {<<Env, Env>>} ELSE registry
  BY <1>1, <1>11 DEF Firebird!ConnFinish, Firebird!LockStructs, Firebird!UnregisterObj
<1>13. env' # NULL
  BY <1>12, FireStructs
<1>14. \A d \in MoreConns : <<d, d>> \in registry' <=> <<d, d>> \in registry
  BY <1>12, DriverObjectsAssumption DEF DriverObjectsAssumption
<1>15. FireTypeOK' /\ MoreRefsInv'
  BY <1>1, <1>6, <1>7, <1>12, <1>13 DEF FireTypeOK, MoreRefsInv
<1>16. FireHolds'
  <2>1. \A k \in Curs : IsOpen(cur[k]) => cur[k].conn \in MoreConns \ {c}
    BY <1>4 DEF FireTypeOK, Firebird!CurStructs, CursorsOf, IsOpen
  <2>2. QED
    BY <1>1, <1>7, <1>13, <2>1 DEF FireHolds
<1>17. FireLocks'
  <2>1. env.lock >= Cardinality(OpenConns) /\ (env.lock > 0 => <<Env, Env>> \in registry)
    BY <1>2 DEF FireLocks
  <2>2. env'.lock >= Cardinality(OpenConns')
    BY <1>9, <1>11, <1>12, <2>1
  <2>3. env'.lock > 0 => <<Env, Env>> \in registry'
    BY <1>11, <1>12, <2>1
  <2>4. conn'[c] # NULL => conn'[c].lock = 0 /\ Cardinality(CursorsOf(c)') = 0
    BY <1>4, <1>6, <1>7, <1>10
  <2>5. \A d \in MoreConns \ {c} : conn'[d] # NULL =>
          /\ conn'[d].lock >= Cardinality(CursorsOf(d)')
          /\ conn'[d].lock > 0 => <<d, d>> \in registry'
    BY <1>7, <1>10, <1>14 DEF FireLocks
  <2>6. \A d \in MoreConns : conn'[d] # NULL =>
          /\ conn'[d].lock >= Cardinality(CursorsOf(d)')
          /\ conn'[d].lock > 0 => <<d, d>> \in registry'
    <3>1. ASSUME conn'[c] # NULL
          PROVE  conn'[c].lock >= Cardinality(CursorsOf(c)') /\ ~(conn'[c].lock > 0)
      BY <2>4, <3>1
    <3>2. QED
      BY <2>5, <3>1
  <2>7. QED
    BY <2>2, <2>3, <2>6 DEF FireLocks
<1>18. FireRegistered'
  <2>1. spoilt' \subseteq {"unnamed"} => spoilt \subseteq {"unnamed"}
    BY <1>1
  <2>2. <<c, c>> \in registry => ~(spoilt \subseteq {"unnamed"}) /\ s # NULL
    <3>1. ASSUME <<c, c>> \in registry, spoilt \subseteq {"unnamed"}
          PROVE  FALSE
      <4>1. conn[c].lock > 0
        BY <3>1 DEF FireRegistered
      <4>2. Firebird!ConnClose(c)
        BY <3>1 DEF Firebird!ConnGc, Firebird!Collectable
      <4>3. QED
        BY <4>1, <4>2 DEF Firebird!ConnClose
    <3>2. QED
      BY <1>6, <3>1
  <2>3. QED
    BY <1>7, <1>14, <2>1, <2>2 DEF FireRegistered
<1>19. FireExact'
  <2> SUFFICES ASSUME spoilt' \subseteq {"registered", "unnamed"}
               PROVE  /\ env'.lock = Cardinality(OpenConns')
                      /\ \A d \in MoreConns : conn'[d] # NULL =>
                           conn'[d].lock = Cardinality(CursorsOf(d)')
                      /\ mysqls' = OpenConns'
                      /\ results' = {j \in Curs : IsOpen(cur'[j])}
    BY DEF FireExact
  <2>1. spoilt \subseteq {"registered", "unnamed"} /\ mysqls' = mysqls \ {c}
    <3>1. spoilt' # spoilt \union {"detach"}
      <4>1. "detach" \notin spoilt'
        OBVIOUS
      <4>2. QED
        BY <4>1
    <3>2. QED
      BY <1>1, <3>1
  <2>2. env'.lock = Cardinality(OpenConns')
    BY <1>2, <1>9, <1>12, <2>1 DEF FireExact
  <2>3. \A d \in MoreConns : conn'[d] # NULL => conn'[d].lock = Cardinality(CursorsOf(d)')
    BY <1>4, <1>6, <1>7, <1>10, <2>1 DEF FireExact
  <2>4. mysqls' = OpenConns' /\ results' = {j \in Curs : IsOpen(cur'[j])}
    BY <1>1, <1>8, <2>1 DEF FireExact
  <2>5. QED
    BY <2>2, <2>3, <2>4
<1>20. QED
  BY <1>2, <1>15, <1>16, <1>17, <1>18, <1>19

(* The end of an open cursor, closed or collected, whether or not its lock *)
(* goes with it.                                                           *)
LEMMA FireCurEndKeeps ==
  ASSUME FireInv, NEW k \in Curs, IsOpen(cur[k]), misused' = {},
         UNCHANGED <<env, refs, mysqls>>,
         NEW s \in Firebird!CurStructs \union {NULL}, cur' = [cur EXCEPT ![k] = s],
         ~IsOpen(s), k \in refs => s # NULL,
         \/ Firebird!CurShut(k) \/ Firebird!LastFetched(k)
         \/ spoilt' = spoilt \union {"shut"} /\ UNCHANGED <<conn, registry, results>>
  PROVE  FireInv'
<1> USE DEF FireInv, FireSound
<1>1. cur[k].conn \in MoreConns
  BY DEF FireTypeOK, Firebird!CurStructs, IsOpen
<1>2. PICK c \in MoreConns : c = cur[k].conn
  BY <1>1
<1>3. IsOpen(conn[c])
  BY <1>2 DEF FireHolds
<1>4. conn[c] \in Firebird!LockStructs /\ conn[c].lock \in Int /\ ~conn[c].closed
  BY <1>3 DEF FireTypeOK, Firebird!LockStructs, IsOpen
<1>5. cur' \in [Curs -> Firebird!CurStructs \union {NULL}] /\ cur'[k] = s
      /\ \A j \in Curs \ {k} : cur'[j] = cur[j]
  BY DEF FireTypeOK
<1>6. /\ Cardinality(CursorsOf(c)') = Cardinality(CursorsOf(c)) - 1
      /\ Cardinality(CursorsOf(c)) > 0 /\ Cardinality(CursorsOf(c)) \in Nat
      /\ \A d : d # c => CursorsOf(d)' = CursorsOf(d)
  BY <1>2, <1>5, CursorCloses, FiniteCursors
<1>7. conn[c].lock >= Cardinality(CursorsOf(c)) /\ conn[c].lock > 0
  <2>1. conn[c].lock >= Cardinality(CursorsOf(c))
    BY <1>3 DEF FireLocks, IsOpen
  <2>2. QED
    BY <1>4, <1>6, <2>1
<1>8. /\ conn' \in [MoreConns -> Firebird!LockStructs \union {NULL}]
      /\ conn'[c] \in Firebird!LockStructs /\ ~conn'[c].closed
      /\ conn'[c].lock \in Int
      /\ \A d \in MoreConns \ {c} : conn'[d] = conn[d]
      /\ \/ conn'[c].lock = conn[c].lock /\ registry' = registry
            /\ spoilt' = spoilt \union {"shut"}
         \/ /\ conn'[c].lock = conn[c].lock - 1 /\ results' = results \ {k}
            /\ \/ /\ registry' = IF conn[c].lock = 1 THEN registry \ {<<c, c>>} ELSE registry
                  /\ spoilt' = spoilt
               \/ /\ registry' = registry
                  /\ spoilt' = IF conn[c].lock = 1 THEN spoilt \union {"registered"} ELSE spoilt
  <2>1. CASE spoilt' = spoilt \union {"shut"} /\ UNCHANGED <<conn, registry, results>>
    BY <1>4, <2>1 DEF FireTypeOK
  <2>2. CASE Firebird!CurShut(k) \/ Firebird!LastFetched(k)
    <3> DEFINE unlocked == [conn[c] EXCEPT !.lock = @ - 1]
    <3>1. /\ unlocked \in Firebird!LockStructs /\ ~unlocked.closed
          /\ unlocked.lock = conn[c].lock - 1
      BY <1>4 DEF Firebird!LockStructs
    <3>2. conn' = [conn EXCEPT ![c] = unlocked]
      BY <1>2, <2>2 DEF Firebird!CurShut, Firebird!LastFetched
    <3>3. /\ results' = results \ {k}
          /\ \/ /\ registry' = IF conn[c].lock = 1 THEN registry \ {<<c, c>>} ELSE registry
                /\ spoilt' = spoilt
             \/ /\ registry' = registry
                /\ spoilt' = IF conn[c].lock = 1 THEN spoilt \union {"registered"} ELSE spoilt
      BY <1>2, <2>2 DEF Firebird!CurShut, Firebird!LastFetched, Firebird!UnregisterObj
    <3> HIDE DEF unlocked
    <3>4. conn' \in [MoreConns -> Firebird!LockStructs \union {NULL}] /\ conn'[c] = unlocked
          /\ \A d \in MoreConns \ {c} : conn'[d] = conn[d]
      BY <3>1, <3>2 DEF FireTypeOK
    <3>5. conn[c].lock - 1 \in Int
      BY <1>4
    <3>6. QED
      BY <3>1, <3>3, <3>4, <3>5
  <2>3. QED
    BY <2>1, <2>2
<1>9. conn'[c] # NULL
  BY <1>8, FireStructs
<1>10. \A d \in MoreConns : IsOpen(conn'[d]) <=> IsOpen(conn[d])
  BY <1>3, <1>8, <1>9 DEF IsOpen
<1>11. OpenConns' = OpenConns
  BY <1>10 DEF OpenConns
<1>12. FireTypeOK'
  BY <1>5, <1>8 DEF FireTypeOK
<1>13. MoreRefsInv'
  BY <1>5, <1>8, <1>9 DEF MoreRefsInv
<1>14. \A j \in Curs : IsOpen(cur'[j]) => j # k /\ IsOpen(cur[j]) /\ cur'[j] = cur[j]
  BY <1>5
<1>15. FireHolds'
  <2>1. \A j \in Curs : IsOpen(cur[j]) => cur[j].conn \in MoreConns
    BY DEF FireTypeOK, Firebird!CurStructs, IsOpen
  <2>2. QED
    BY <1>10, <1>14, <2>1 DEF FireHolds
<1>16. /\ registry' \subseteq registry
       /\ \A x : x # c /\ <<x, x>> \in registry => <<x, x>> \in registry'
  BY <1>8
<1>17. FireLocks'
  <2>1. env' # NULL => /\ env'.lock >= Cardinality(OpenConns')
                       /\ env'.lock > 0 => <<Env, Env>> \in registry'
    BY <1>11, <1>16, DriverObjectsAssumption DEF FireLocks, DriverObjectsAssumption
  <2>2. conn'[c].lock >= Cardinality(CursorsOf(c)')
    BY <1>4, <1>6, <1>7, <1>8
  <2>3. conn'[c].lock > 0 => <<c, c>> \in registry'
    <3>1. <<c, c>> \in registry
      BY <1>3, <1>7 DEF FireLocks, IsOpen
    <3>2. registry' # registry => conn'[c].lock = 0
      BY <1>4, <1>8
    <3>3. QED
      BY <3>1, <3>2
  <2>4. \A d \in MoreConns \ {c} : conn'[d] # NULL =>
          /\ conn'[d].lock >= Cardinality(CursorsOf(d)')
          /\ conn'[d].lock > 0 => <<d, d>> \in registry'
    BY <1>6, <1>8, <1>16 DEF FireLocks
  <2>5. QED
    BY <2>1, <2>2, <2>3, <2>4 DEF FireLocks
<1>18. FireRegistered'
  <2>1. spoilt' \subseteq {"unnamed"} => spoilt \subseteq {"unnamed"}
    BY <1>8
  <2>2. spoilt' \subseteq {"unnamed"} /\ <<c, c>> \in registry' => conn'[c].lock > 0
    <3>1. ASSUME spoilt' \subseteq {"unnamed"}, <<c, c>> \in registry', conn'[c].lock = conn[c].lock - 1
          PROVE  conn[c].lock # 1
      <4>1. spoilt' # spoilt \union {"shut"} /\ spoilt' # spoilt \union {"registered"}
        BY <3>1
      <4>2. CASE conn[c].lock = 1
        <5>1. registry' = registry \ {<<c, c>>}
          BY <1>4, <1>8, <3>1, <4>1, <4>2
        <5>2. QED
          BY <3>1, <5>1
      <4>3. QED
        BY <4>2
    <3>2. spoilt' \subseteq {"unnamed"} => conn'[c].lock = conn[c].lock - 1
      BY <1>8
    <3>3. QED
      BY <1>4, <1>7, <3>1, <3>2
  <2>3. \A d \in MoreConns \ {c} : <<d, d>> \in registry' =>
          conn'[d] # NULL /\ (spoilt' \subseteq {"unnamed"} => conn'[d].lock > 0)
    BY <1>8, <1>16, <2>1 DEF FireRegistered
  <2>4. QED
    BY <1>9, <2>2, <2>3 DEF FireRegistered
<1>19. FireExact'
  <2> SUFFICES ASSUME spoilt' \subseteq {"registered", "unnamed"}
               PROVE  /\ env' # NULL => env'.lock = Cardinality(OpenConns')
                      /\ \A d \in MoreConns : conn'[d] # NULL =>
                           conn'[d].lock = Cardinality(CursorsOf(d)')
                      /\ mysqls' = OpenConns'
                      /\ results' = {j \in Curs : IsOpen(cur'[j])}
    BY DEF FireExact
  <2>1. spoilt' # spoilt \union {"shut"}
    <3>1. "shut" \notin spoilt'
      OBVIOUS
    <3>2. QED
      BY <3>1
  <2>2. spoilt \subseteq {"registered", "unnamed"}
    BY <1>8, <2>1
  <2>3. conn'[c].lock = conn[c].lock - 1 /\ results' = results \ {k}
    BY <1>8, <2>1
  <2>4. (env' # NULL => env'.lock = Cardinality(OpenConns')) /\ mysqls' = OpenConns'
    BY <1>11, <2>2 DEF FireExact
  <2>5. conn'[c].lock = Cardinality(CursorsOf(c)')
    BY <1>3, <1>6, <2>2, <2>3 DEF FireExact, IsOpen
  <2>6. \A d \in MoreConns \ {c} : conn'[d] # NULL => conn'[d].lock = Cardinality(CursorsOf(d)')
    BY <1>6, <1>8, <2>2 DEF FireExact
  <2>7. results' = {j \in Curs : IsOpen(cur'[j])}
    BY <1>5, <1>14, <2>2, <2>3 DEF FireExact
  <2>8. QED
    BY <2>4, <2>5, <2>6, <2>7
<1>20. QED
  BY <1>12, <1>13, <1>15, <1>17, <1>18, <1>19

LEMMA FireCursorKeeps ==
  ASSUME FireInv, NEW k \in Curs,
         Firebird!CurFetch(k) \/ Firebird!CurClose(k) \/ Firebird!CurGc(k)
  PROVE  FireInv'
<1> USE DEF FireInv, FireSound
<1>1. cur[k] # NULL
  BY DEF Firebird!CurFetch, Firebird!CurClose, Firebird!CurGc, Firebird!CursorUsable,
     MoreRefsInv
<1>2. cur[k] \in Firebird!CurStructs
  BY <1>1 DEF FireTypeOK
<1> DEFINE closed == [cur[k] EXCEPT !.closed = TRUE]
<1>3. closed \in Firebird!CurStructs /\ closed.closed
  BY <1>2 DEF Firebird!CurStructs
<1>4. closed # NULL /\ ~IsOpen(closed) /\ ~IsOpen(NULL)
  BY <1>3, FireStructs DEF IsOpen
<1>5. IsOpen(cur[k]) => Firebird!Touch(cur[k].conn) = {}
  BY <1>2, FireTouch DEF FireHolds, Firebird!CurStructs
<1>6. misused' = {} /\ UNCHANGED <<env, refs, mysqls>>
  BY <1>1, <1>5 DEF Firebird!CurFetch, Firebird!CurClose, Firebird!CurGc,
     Firebird!CursorUsable, IsOpen
<1>7. CASE /\ IsOpen(cur[k]) /\ (Firebird!CurShut(k) \/ Firebird!LastFetched(k))
           /\ cur' = [cur EXCEPT ![k].closed = TRUE]
  <2>1. cur' = [cur EXCEPT ![k] = closed]
    BY <1>7
  <2> HIDE DEF closed
  <2>2. QED
    BY <1>3, <1>4, <1>6, <1>7, <2>1, FireCurEndKeeps
<1>8. CASE /\ IsOpen(cur[k]) /\ k \notin refs /\ cur' = [cur EXCEPT ![k] = NULL]
           /\ \/ Firebird!CurShut(k)
              \/ spoilt' = spoilt \union {"shut"} /\ UNCHANGED <<conn, registry, results>>
  BY <1>4, <1>6, <1>8, FireCurEndKeeps
<1>9. CASE UNCHANGED <<conn, cur, registry, results, spoilt>>
  BY <1>6, <1>9, FireCallKeeps
<1>10. CASE /\ ~IsOpen(cur[k]) /\ k \notin refs /\ cur' = [cur EXCEPT ![k] = NULL]
            /\ UNCHANGED <<conn, registry, results, spoilt>>
  <2>1. /\ cur' \in [Curs -> Firebird!CurStructs \union {NULL}]
        /\ \A j \in Curs : cur'[j] = cur[j]
                           \/ (j \notin refs /\ ~IsOpen(cur[j]) /\ ~IsOpen(cur'[j]))
    BY <1>4, <1>10 DEF FireTypeOK
  <2>2. (\A d : CursorsOf(d)' = CursorsOf(d)) /\ OpenConns' = OpenConns
    BY <1>10, <2>1 DEF CursorsOf, OpenConns
  <2>3. FireTypeOK' /\ MoreRefsInv' /\ FireHolds' /\ FireRegistered'
    BY <1>6, <1>10, <2>1 DEF FireTypeOK, MoreRefsInv, FireHolds, FireRegistered
  <2>4. {j \in Curs : IsOpen(cur'[j])} = {j \in Curs : IsOpen(cur[j])}
    BY <2>1
  <2>5. FireLocks' /\ FireExact'
    BY <1>6, <1>10, <2>2, <2>4 DEF FireLocks, FireExact
  <2>6. QED
    BY <1>6, <2>3, <2>5
<1>11. QED
  <2>1. CASE Firebird!CurFetch(k)
    BY <1>1, <1>7, <1>9, <2>1 DEF Firebird!CurFetch, Firebird!CursorUsable, IsOpen
  <2>2. CASE Firebird!CurClose(k)
    BY <1>1, <1>7, <2>2 DEF Firebird!CurClose, Firebird!CursorUsable, IsOpen
  <2>3. CASE Firebird!CurGc(k)
    BY <1>1, <1>8, <1>10, <2>3 DEF Firebird!CurGc, IsOpen
  <2>4. QED
    BY <2>1, <2>2, <2>3

LEMMA FireNextKeeps ==
  ASSUME FireInv, Firebird!Next, ~Firebird!UnnamedGc
  PROVE  FireInv'
<1>1. ASSUME NEW c \in MoreConns, Firebird!ConnCall(c)
      PROVE  FireInv'
  <2>1. IsOpen(conn[c])
    BY <1>1 DEF Firebird!ConnCall, Firebird!Usable, FireInv, FireSound, MoreRefsInv, IsOpen
  <2>2. misused' = {}
    BY <1>1, <2>1, FireTouch DEF Firebird!ConnCall, FireInv
  <2>3. QED
    BY <1>1, <2>2, FireCallKeeps DEF Firebird!ConnCall, FireInv
<1>2. ASSUME NEW x \in refs, Firebird!Drop(x)
      PROVE  FireInv'
  BY <1>2, FireCallKeeps DEF Firebird!Drop, FireInv
<1>3. ASSUME NEW c \in MoreConns, Firebird!ConnClose(c) \/ Firebird!ConnGc(c)
      PROVE  FireInv'
  <2>1. IsOpen(conn[c]) \/ (conn[c].closed /\ Firebird!ConnGc(c))
    BY <1>3 DEF Firebird!ConnClose, Firebird!ConnGc, Firebird!Usable, FireInv, FireSound,
       MoreRefsInv, IsOpen
  <2>2. QED
    BY <1>3, <2>1, FireConnEndKeeps, FireClosedGcKeeps
<1>4. QED
  BY <1>1, <1>2, <1>3, FireEnvKeeps, FireConnectKeeps, FireExecuteKeeps, FireCursorKeeps
  DEF Firebird!Next

(* The handles of the cursors stay; a connection may leave one more.       *)
LEMMA FireStmtsSame ==
  ASSUME FireStmts, UNCHANGED cur, mysqls \subseteq mysqls', OpenConns' \subseteq mysqls',
         \/ stranded' = stranded
         \/ \E c \in OpenConns : stranded' = Firebird!Left(c, stranded)
  PROVE  FireStmts'
<1>1. \A c : CursorsOf(c)' = CursorsOf(c)
  BY DEF CursorsOf
<1>2. \A h \in stranded' : h \in stranded \/ \E c \in OpenConns : h = <<c, "left">>
  BY DEF Firebird!Left
<1>3. stranded \subseteq stranded'
  BY DEF Firebird!Left
<1>4. \A c \in MoreConns, k \in Curs : <<c, k>> \in stranded' <=> <<c, k>> \in stranded
  BY <1>2, <1>3, DriverObjectsAssumption DEF DriverObjectsAssumption
<1>5. \A h \in stranded' : h \in MoreConns \X (Curs \union {"left"}) /\ h[1] \in mysqls'
  <2> SUFFICES ASSUME NEW h \in stranded'
               PROVE  h \in MoreConns \X (Curs \union {"left"}) /\ h[1] \in mysqls'
    OBVIOUS
  <2>1. CASE h \in stranded
    BY <2>1 DEF FireStmts
  <2>2. CASE \E c \in OpenConns : h = <<c, "left">>
    BY <2>2 DEF FireStmts, OpenConns
  <2>3. QED
    BY <1>2, <2>1, <2>2
<1>6. QED
  BY <1>1, <1>4, <1>5 DEF FireStmts

(* A cursor is created with the handle of its statement.                   *)
LEMMA FireStmtsCreate ==
  ASSUME FireInv, FireStmts, NEW c \in MoreConns, IsOpen(conn[c]), UNCHANGED mysqls,
         NEW k \in Curs, Firebird!CreateCursor(c, k)
  PROVE  FireStmts'
<1> DEFINE struct == [closed |-> FALSE, conn |-> c]
<1>1. /\ cur[k] = NULL /\ cur' = [cur EXCEPT ![k] = struct]
      /\ stranded' = stranded \union {<<c, k>>}
      /\ conn' = [conn EXCEPT ![c].lock = @ + 1]
  BY DEF Firebird!CreateCursor
<1>2. struct \in Firebird!CurStructs /\ ~struct.closed /\ struct.conn = c
  BY DEF Firebird!CurStructs
<1>3. IsOpen(struct)
  BY <1>2, FireStructs DEF IsOpen
<1> HIDE DEF struct
<1>4. cur'[k] = struct /\ \A j \in Curs \ {k} : cur'[j] = cur[j]
  BY <1>1 DEF FireInv, FireSound, FireTypeOK
<1>5. \A d \in MoreConns \ {c} : conn'[d] = conn[d]
  BY <1>1 DEF FireInv, FireSound, FireTypeOK
<1>6. OpenConns' \subseteq mysqls'
  BY <1>5 DEF OpenConns, FireStmts
<1>7. \A d \in MoreConns, j \in Curs : <<d, j>> \in stranded' <=> j \in CursorsOf(d)'
  <2> SUFFICES ASSUME NEW d \in MoreConns, NEW j \in Curs
               PROVE  <<d, j>> \in stranded' <=> j \in CursorsOf(d)'
    OBVIOUS
  <2>1. <<d, j>> \in stranded <=> j \in CursorsOf(d)
    BY DEF FireStmts
  <2>2. CASE j = k
    <3>1. j \in CursorsOf(d)' <=> d = c
      BY <1>2, <1>3, <1>4, <2>2 DEF CursorsOf
    <3>2. <<d, j>> \notin stranded
      BY <1>1, <2>1, <2>2 DEF CursorsOf, IsOpen
    <3>3. QED
      BY <1>1, <2>2, <3>1, <3>2
  <2>3. CASE j # k
    <3>1. j \in CursorsOf(d)' <=> j \in CursorsOf(d)
      BY <1>4, <2>3 DEF CursorsOf
    <3>2. QED
      BY <1>1, <2>1, <2>3, <3>1
  <2>4. QED
    BY <2>2, <2>3
<1>8. c \in mysqls
  BY DEF FireStmts, OpenConns
<1>9. QED
  BY <1>1, <1>6, <1>7, <1>8 DEF FireStmts

(* A database is detached, below which no cursor is open.                  *)
LEMMA FireStmtsDetach ==
  ASSUME FireInv', FireStmts, NEW c \in MoreConns, UNCHANGED cur, Firebird!Detach(c),
         ~IsOpen(conn'[c]), \A d \in MoreConns \ {c} : conn'[d] = conn[d]
  PROVE  FireStmts'
<1>1. mysqls' = mysqls \ {c} /\ stranded' = {h \in stranded : h[1] # c}
  BY DEF Firebird!Detach
<1>2. \A d : CursorsOf(d)' = CursorsOf(d)
  BY DEF CursorsOf
<1>3. CursorsOf(c)' = {}
  BY DEF CursorsOf, FireInv, FireSound, FireHolds
<1>4. OpenConns' \subseteq mysqls'
  BY <1>1 DEF OpenConns, FireStmts
<1>5. \A d \in MoreConns, k \in Curs : <<d, k>> \in stranded' <=> k \in CursorsOf(d)'
  BY <1>1, <1>2, <1>3 DEF FireStmts
<1>6. QED
  BY <1>1, <1>4, <1>5 DEF FireStmts

(* An open cursor ends, and its handle is freed or left.                   *)
LEMMA FireStmtsEnd ==
  ASSUME FireInv, FireStmts, NEW k \in Curs, IsOpen(cur[k]), UNCHANGED mysqls,
         ~IsOpen(cur'[k]), \A j \in Curs \ {k} : cur'[j] = cur[j],
         \A d \in MoreConns \ {cur[k].conn} : conn'[d] = conn[d],
         LET c == cur[k].conn
             rest == stranded \ {<<c, k>>}
         IN  stranded' \in {rest, Firebird!Left(c, rest)}
  PROVE  FireStmts'
<1>1. PICK c \in MoreConns : c = cur[k].conn /\ IsOpen(conn[c])
  BY DEF FireInv, FireSound, FireHolds, FireTypeOK, Firebird!CurStructs, IsOpen
<1>2. c \in mysqls /\ OpenConns' \subseteq mysqls'
  BY <1>1 DEF OpenConns, FireStmts
<1>3. /\ stranded' \subseteq (stranded \ {<<c, k>>}) \union {<<c, "left">>}
      /\ stranded \ {<<c, k>>} \subseteq stranded'
  BY <1>1 DEF Firebird!Left
<1>4. \A d \in MoreConns, j \in Curs :
        <<d, j>> \in stranded' <=> <<d, j>> \in stranded \ {<<c, k>>}
  BY <1>3, DriverObjectsAssumption DEF DriverObjectsAssumption
<1>5. \A d \in MoreConns, j \in Curs : <<d, j>> \in stranded' <=> j \in CursorsOf(d)'
  <2> SUFFICES ASSUME NEW d \in MoreConns, NEW j \in Curs
               PROVE  <<d, j>> \in stranded' <=> j \in CursorsOf(d)'
    OBVIOUS
  <2>1. <<d, j>> \in stranded <=> j \in CursorsOf(d)
    BY DEF FireStmts
  <2>2. CASE j = k
    <3>1. j \notin CursorsOf(d)'
      BY <2>2 DEF CursorsOf
    <3>2. <<d, j>> \in stranded => d = c
      BY <1>1, <2>1, <2>2 DEF CursorsOf
    <3>3. QED
      BY <1>4, <2>2, <3>1, <3>2
  <2>3. CASE j # k
    <3>1. j \in CursorsOf(d)' <=> j \in CursorsOf(d)
      BY <2>3 DEF CursorsOf
    <3>2. QED
      BY <1>4, <2>1, <2>3, <3>1
  <2>4. QED
    BY <2>2, <2>3
<1>6. \A h \in stranded' : h \in MoreConns \X (Curs \union {"left"}) /\ h[1] \in mysqls'
  <2> SUFFICES ASSUME NEW h \in stranded'
               PROVE  h \in MoreConns \X (Curs \union {"left"}) /\ h[1] \in mysqls'
    OBVIOUS
  <2>1. CASE h \in stranded
    BY <2>1 DEF FireStmts
  <2>2. CASE h = <<c, "left">>
    BY <1>2, <2>2
  <2>3. QED
    BY <1>3, <2>1, <2>2
<1>7. QED
  BY <1>2, <1>5, <1>6 DEF FireStmts

LEMMA FireStmtsKept ==
  ASSUME FireInv, FireInv', FireStmts, Firebird!Next
  PROVE  FireStmts'
<1>1. ASSUME UNCHANGED <<conn, cur, mysqls, stranded>>
      PROVE  FireStmts'
  BY <1>1, FireStmtsSame DEF OpenConns, FireStmts
<1>2. ASSUME NEW c \in MoreConns, Firebird!EnvConnect(c)
      PROVE  FireStmts'
  <2>1. UNCHANGED <<cur, stranded>> /\ mysqls' = mysqls \union {c}
    BY <1>2 DEF Firebird!EnvConnect
  <2>2. \A d \in MoreConns \ {c} : conn'[d] = conn[d]
    BY <1>2 DEF Firebird!EnvConnect, FireInv, FireSound, FireTypeOK
  <2>3. OpenConns' \subseteq mysqls'
    BY <2>1, <2>2 DEF OpenConns, FireStmts
  <2>4. QED
    BY <2>1, <2>3, FireStmtsSame
<1>3. ASSUME NEW c \in MoreConns, Firebird!ConnExecute(c)
      PROVE  FireStmts'
  <2>1. IsOpen(conn[c]) /\ UNCHANGED mysqls
    BY <1>3 DEF Firebird!ConnExecute, Firebird!Usable, FireInv, FireSound, MoreRefsInv, IsOpen
  <2>2. CASE \E k \in Curs : Firebird!CreateCursor(c, k)
    BY <2>1, <2>2, FireStmtsCreate
  <2>3. CASE UNCHANGED <<conn, cur>> /\ stranded' \in {stranded, Firebird!Left(c, stranded)}
    <3>1. c \in OpenConns /\ OpenConns' = OpenConns
      BY <2>1, <2>3 DEF OpenConns
    <3>2. OpenConns' \subseteq mysqls'
      BY <2>1, <3>1 DEF FireStmts
    <3>3. QED
      BY <2>1, <2>3, <3>1, <3>2, FireStmtsSame
  <2>4. QED
    BY <1>3, <2>2, <2>3 DEF Firebird!ConnExecute
<1>4. ASSUME NEW c \in MoreConns, Firebird!ConnClose(c) \/ Firebird!ConnGc(c)
      PROVE  FireStmts'
  <2>1. UNCHANGED cur /\ \A d \in MoreConns \ {c} : conn'[d] = conn[d]
    BY <1>4 DEF Firebird!ConnClose, Firebird!ConnGc, FireInv, FireSound, FireTypeOK
  <2>2. ~IsOpen(conn'[c])
    <3>1. CASE Firebird!ConnGc(c)
      BY <3>1 DEF Firebird!ConnGc, IsOpen, FireInv, FireSound, FireTypeOK
    <3>2. CASE Firebird!ConnClose(c)
      <4>1. conn[c] \in Firebird!LockStructs
        BY <3>2 DEF Firebird!ConnClose, Firebird!Usable, FireInv, FireSound, MoreRefsInv,
           FireTypeOK
      <4>2. conn'[c] = [conn[c] EXCEPT !.closed = TRUE]
        BY <3>2 DEF Firebird!ConnClose, FireInv, FireSound, FireTypeOK
      <4>3. conn'[c].closed
        BY <4>1, <4>2 DEF Firebird!LockStructs
      <4>4. QED
        BY <4>3 DEF IsOpen
    <3>3. QED
      BY <1>4, <3>1, <3>2
  <2>3. CASE Firebird!Detach(c)
    BY <2>1, <2>2, <2>3, FireStmtsDetach
  <2>4. CASE UNCHANGED <<mysqls, stranded>>
    <3>1. OpenConns' \subseteq mysqls'
      BY <2>1, <2>2, <2>4 DEF OpenConns, FireStmts
    <3>2. QED
      BY <2>1, <2>4, <3>1, FireStmtsSame
  <2>5. QED
    BY <1>4, <2>3, <2>4 DEF Firebird!ConnClose, Firebird!ConnGc
<1>5. ASSUME NEW k \in Curs, Firebird!CurFetch(k) \/ Firebird!CurClose(k) \/ Firebird!CurGc(k)
      PROVE  FireStmts'
  <2>1. UNCHANGED mysqls /\ cur[k] # NULL /\ cur[k] \in Firebird!CurStructs
    BY <1>5 DEF Firebird!CurFetch, Firebird!CurClose, Firebird!CurGc, Firebird!CursorUsable,
       FireInv, FireSound, MoreRefsInv, FireTypeOK
  <2>2. CASE UNCHANGED <<conn, cur, stranded>>
    BY <1>1, <2>1, <2>2
  <2> DEFINE closed == [cur[k] EXCEPT !.closed = TRUE]
  <2>3. closed.closed /\ ~IsOpen(closed) /\ ~IsOpen(NULL)
    BY <2>1 DEF Firebird!CurStructs, IsOpen
  <2>4. ASSUME cur' \in {[cur EXCEPT ![k].closed = TRUE], [cur EXCEPT ![k] = NULL]}
        PROVE  ~IsOpen(cur'[k]) /\ \A j \in Curs \ {k} : cur'[j] = cur[j]
    <3>1. cur' \in {[cur EXCEPT ![k] = closed], [cur EXCEPT ![k] = NULL]}
      BY <2>4
    <3> HIDE DEF closed
    <3>2. QED
      BY <2>3, <3>1 DEF FireInv, FireSound, FireTypeOK
  <2> HIDE DEF closed
  <2>5. CASE /\ IsOpen(cur[k])
             /\ cur' \in {[cur EXCEPT ![k].closed = TRUE], [cur EXCEPT ![k] = NULL]}
             /\ \/ Firebird!CurShut(k) \/ Firebird!LastFetched(k)
                \/ /\ stranded' = Firebird!Left(cur[k].conn, stranded \ {<<cur[k].conn, k>>})
                   /\ UNCHANGED conn
    <3>1. \A d \in MoreConns \ {cur[k].conn} : conn'[d] = conn[d]
      BY <2>5 DEF Firebird!CurShut, Firebird!LastFetched, FireInv, FireSound, FireTypeOK
    <3>2. stranded' \in {stranded \ {<<cur[k].conn, k>>},
                         Firebird!Left(cur[k].conn, stranded \ {<<cur[k].conn, k>>})}
      BY <2>5 DEF Firebird!CurShut, Firebird!LastFetched
    <3>3. QED
      BY <2>1, <2>4, <2>5, <3>1, <3>2, FireStmtsEnd
  <2>6. CASE /\ ~IsOpen(cur[k]) /\ cur' = [cur EXCEPT ![k] = NULL]
             /\ UNCHANGED <<conn, stranded>>
    <3>1. /\ ~IsOpen(cur'[k]) /\ \A j \in Curs \ {k} : cur'[j] = cur[j]
          /\ OpenConns' = OpenConns
      BY <2>4, <2>6 DEF OpenConns
    <3>2. \A d : CursorsOf(d)' = CursorsOf(d)
      BY <2>6, <3>1 DEF CursorsOf
    <3>3. QED
      BY <2>1, <2>6, <3>1, <3>2 DEF FireStmts
  <2>7. QED
    <3>1. CASE Firebird!CurFetch(k)
      BY <2>1, <2>2, <2>5, <3>1 DEF Firebird!CurFetch, Firebird!CursorUsable, IsOpen
    <3>2. CASE Firebird!CurClose(k)
      BY <2>1, <2>5, <3>2 DEF Firebird!CurClose, Firebird!CursorUsable, IsOpen
    <3>3. CASE Firebird!CurGc(k)
      BY <2>1, <2>5, <2>6, <3>3 DEF Firebird!CurGc, IsOpen
    <3>4. QED
      BY <1>5, <3>1, <3>2, <3>3
<1>6. CASE \/ Firebird!CreateEnvironment \/ Firebird!EnvClose \/ Firebird!EnvGc
           \/ Firebird!UnnamedGc \/ (\E c \in MoreConns : Firebird!ConnCall(c))
           \/ (\E x \in refs : Firebird!Drop(x))
  BY <1>1, <1>6 DEF Firebird!CreateEnvironment, Firebird!EnvClose, Firebird!EnvGc,
     Firebird!UnnamedGc, Firebird!ConnCall, Firebird!Drop
<1>7. QED
  BY <1>2, <1>3, <1>4, <1>5, <1>6 DEF Firebird!Next

FireSafe == FireSound /\ FireStmts /\ Firebird!FirebirdIsSafe

LEMMA FireStep ==
  ASSUME FireSafe, Firebird!Next \/ UNCHANGED Firebird!vars
  PROVE  FireSafe'
<1>1. CASE UNCHANGED Firebird!vars
  <2>1. FireSound'
    BY <1>1, FireCallKeeps DEF Firebird!vars, FireSafe
  <2>2. FireStmts'
    BY <1>1, FireStmtsSame DEF Firebird!vars, FireSafe, FireStmts, OpenConns
  <2>3. QED
    BY <1>1, <2>1, <2>2 DEF Firebird!vars, FireSafe, Firebird!FirebirdIsSafe
<1>2. CASE misused = {} /\ Firebird!UnnamedGc
  <2>1. FireSound'
    BY <1>2, FireCallKeeps DEF Firebird!UnnamedGc, FireSafe
  <2>2. FireStmts'
    BY <1>2, FireStmtsSame DEF Firebird!UnnamedGc, FireSafe, FireStmts, OpenConns
  <2>3. QED
    BY <1>2, <2>1, <2>2 DEF Firebird!UnnamedGc, FireSafe, Firebird!FirebirdIsSafe
<1>3. CASE Firebird!Next /\ ~Firebird!UnnamedGc
  <2>1. FireInv
    BY <1>3 DEF Firebird!Next, FireInv, FireSafe
  <2>2. FireInv'
    BY <1>3, <2>1, FireNextKeeps
  <2>3. FireStmts'
    BY <1>3, <2>1, <2>2, FireStmtsKept DEF FireSafe
  <2>4. QED
    BY <2>2, <2>3 DEF FireInv, FireSafe, Firebird!FirebirdIsSafe
<1>4. QED
  BY <1>1, <1>2, <1>3 DEF Firebird!Next

LEMMA FireCardinality == \A S : Firebird!Cardinality(S) = Cardinality(S)
BY DEF Firebird!Cardinality, Cardinality

LEMMA FireInvOwns == FireSafe => Firebird!FirebirdOwns /\ Firebird!FirebirdIsSafe
<1> SUFFICES ASSUME FireSafe
             PROVE  Firebird!FirebirdOwns
  BY DEF FireSafe
<1> USE DEF FireSafe, FireSound
<1>1. \A x : Firebird!IsOpen(x) <=> IsOpen(x)
  BY DEF Firebird!IsOpen, IsOpen
<1>2. \A c : Firebird!Locks(c) = CursorsOf(c)
  BY <1>1 DEF Firebird!Locks, CursorsOf
<1>3. /\ {c \in MoreConns : Firebird!IsOpen(conn[c])} = OpenConns
      /\ {k \in Curs : Firebird!IsOpen(cur[k])} = {k \in Curs : IsOpen(cur[k])}
  BY <1>1 DEF OpenConns
<1>4. /\ env # NULL => env.lock >= Firebird!Cardinality(OpenConns)
      /\ \A c \in MoreConns : conn[c] # NULL =>
           conn[c].lock >= Firebird!Cardinality(Firebird!Locks(c))
  BY <1>2, FireCardinality DEF FireLocks
<1>5. stranded \ (MoreConns \X {"left"})
        = {<<cur[k].conn, k>> : k \in {k \in Curs : IsOpen(cur[k])}}
  <2>1. ASSUME NEW h \in stranded, h \notin MoreConns \X {"left"}
        PROVE  \E k \in Curs : IsOpen(cur[k]) /\ h = <<cur[k].conn, k>>
    <3>1. PICK c \in MoreConns, k \in Curs : h = <<c, k>>
      BY <2>1 DEF FireStmts
    <3>2. k \in CursorsOf(c)
      BY <2>1, <3>1 DEF FireStmts
    <3>3. QED
      BY <3>1, <3>2 DEF CursorsOf
  <2>2. ASSUME NEW k \in Curs, IsOpen(cur[k])
        PROVE  /\ <<cur[k].conn, k>> \in stranded
               /\ <<cur[k].conn, k>> \notin MoreConns \X {"left"}
    <3>1. cur[k].conn \in MoreConns /\ k \in CursorsOf(cur[k].conn)
      BY <2>2 DEF FireTypeOK, Firebird!CurStructs, IsOpen, CursorsOf
    <3>2. k # "left"
      BY DriverObjectsAssumption DEF DriverObjectsAssumption
    <3>3. QED
      BY <3>1, <3>2 DEF FireStmts
  <2>3. QED
    BY <2>1, <2>2
<1>6. \A h \in stranded : h[1] \in mysqls
  BY DEF FireStmts
<1>7. ASSUME spoilt \subseteq {"registered", "unnamed"}
      PROVE  /\ env # NULL => env.lock = Firebird!Cardinality(OpenConns)
             /\ \A c \in MoreConns : conn[c] # NULL =>
                  conn[c].lock = Firebird!Cardinality(Firebird!Locks(c))
             /\ mysqls = OpenConns
             /\ results = {k \in Curs : IsOpen(cur[k])}
  BY <1>2, <1>7, FireCardinality DEF FireExact
<1>8. spoilt \subseteq {"unnamed"} =>
        \A c \in MoreConns : <<c, c>> \in registry => conn[c].lock > 0
  BY DEF FireRegistered
<1>9. QED
  BY <1>3, <1>4, <1>5, <1>6, <1>7, <1>8 DEF Firebird!FirebirdOwns
-----------------------------------------------------------------------------
(* The ODBC driver: three levels of locks, each of which counts the open   *)
(* objects below it, or more of them when a clean-up call has failed.      *)
CursOf(s) == {k \in Curs : IsOpen(cur[k]) /\ cur[k].stmt = s}
StmtsOf(c) == {s \in Stmts : IsOpen(stmt[s]) /\ stmt[s].conn = c}
ConnsOpen == {c \in Conns : IsOpen(conn[c])}

(* No clean-up call has failed, nor what disturbs the locks themselves.    *)
Clean == spoilt \subseteq {"rebound"}

Counted(o, S) ==
  o # NULL => o.lock >= Cardinality(S) /\ (Clean => o.lock = Cardinality(S))

OdbcTypeOK ==
  /\ env \in Odbc!LockStructs \union {NULL}
  /\ conn \in [Conns -> Odbc!LockStructs \union {NULL}]
  /\ stmt \in [Stmts -> Odbc!StmtStructs \union {NULL}]
  /\ cur \in [Curs -> Odbc!CurStructs \union {NULL}]
  /\ mysqls \subseteq Conns \union Stmts \union {Env}

OdbcRefsInv ==
  /\ \A c \in Conns : c \in refs => conn[c] # NULL
  /\ \A s \in Stmts : s \in refs => stmt[s] # NULL
  /\ \A k \in Curs : k \in refs => cur[k] # NULL
  /\ Env \in refs => env # NULL

CursLevel ==
  /\ \A k \in Curs : IsOpen(cur[k]) => IsOpen(stmt[cur[k].stmt])
  /\ \A s \in Stmts : Counted(stmt[s], CursOf(s))

StmtLevel ==
  /\ \A s \in Stmts : IsOpen(stmt[s]) => IsOpen(conn[stmt[s].conn]) /\ s \in mysqls
  /\ \A c \in Conns : Counted(conn[c], StmtsOf(c))

ConnLevel ==
  /\ \A c \in Conns : IsOpen(conn[c]) => env # NULL
  /\ Counted(env, ConnsOpen)

(* The registry is exact whatever failed, the handles while no clean-up.   *)
Locked(o) == o # NULL /\ o.lock > 0
OdbcRegistry ==
  /\ registry \subseteq Conns \union Stmts \union {Env}
  /\ \A c \in Conns : c \in registry <=> Locked(conn[c])
  /\ \A s \in Stmts : s \in registry <=> Locked(stmt[s])
  /\ Env \in registry <=> Locked(env)

OdbcHandles ==
  Clean =>
    /\ \A c \in Conns : c \in mysqls <=> IsOpen(conn[c])
    /\ \A s \in Stmts : s \in mysqls <=> IsOpen(stmt[s])
    /\ Env \in mysqls <=> IsOpen(env)

OdbcSound ==
  /\ OdbcTypeOK /\ OdbcRefsInv /\ CursLevel /\ StmtLevel /\ ConnLevel
  /\ OdbcRegistry /\ OdbcHandles

OdbcGood == OdbcSound /\ misused = {}

(* Freed buffers stay bound only after a parameter could not be bound.     *)
OdbcBound ==
  \A s \in Stmts : stmt[s] # NULL /\ stmt[s].bound = "freed" => "rebound" \in spoilt

OdbcInv == Odbc!Astray \/ (OdbcSound /\ OdbcBound /\ Odbc!OdbcIsSafe)

LEMMA OdbcDisjoint ==
  /\ Conns \intersect Stmts = {} /\ Conns \intersect Curs = {} /\ Stmts \intersect Curs = {}
  /\ Env \notin Conns /\ Env \notin Stmts /\ Env \notin Curs
BY ObjectsAssumption, DriverObjectsAssumption DEF ObjectsAssumption, DriverObjectsAssumption

LEMMA OdbcStructs ==
  NULL \notin Odbc!LockStructs /\ NULL \notin Odbc!StmtStructs /\ NULL \notin Odbc!CurStructs
BY DriverNullAssumption DEF DriverNullAssumption

LEMMA OdbcLocks ==
  /\ \A o \in Odbc!LockStructs :
       /\ Odbc!Lock(o) \in Odbc!LockStructs /\ Odbc!Lock(o).closed = o.closed
       /\ Odbc!Lock(o).lock = o.lock + 1
       /\ Odbc!Unlock(o) \in Odbc!LockStructs /\ Odbc!Unlock(o).closed = o.closed
       /\ Odbc!Unlock(o).lock = o.lock - 1
       /\ o.lock \in Int /\ o.closed \in BOOLEAN
  /\ \A o \in Odbc!StmtStructs :
       /\ Odbc!Lock(o) \in Odbc!StmtStructs /\ Odbc!Lock(o).closed = o.closed
       /\ Odbc!Lock(o).lock = o.lock + 1 /\ Odbc!Lock(o).conn = o.conn
       /\ Odbc!Unlock(o) \in Odbc!StmtStructs /\ Odbc!Unlock(o).closed = o.closed
       /\ Odbc!Unlock(o).lock = o.lock - 1 /\ Odbc!Unlock(o).conn = o.conn
       /\ Odbc!Shutdown(o) \in Odbc!StmtStructs /\ Odbc!Shutdown(o).closed
       /\ Odbc!Shutdown(o).lock = o.lock /\ Odbc!Shutdown(o).bound = "none"
       /\ Odbc!Lock(o).bound = o.bound /\ Odbc!Unlock(o).bound = o.bound
       /\ o.lock \in Int /\ o.closed \in BOOLEAN /\ o.conn \in Conns
<1>1. "none" \in Odbc!Bindings
  BY DEF Odbc!Bindings
<1>2. \A o \in Odbc!LockStructs :
       /\ Odbc!Lock(o) \in Odbc!LockStructs /\ Odbc!Lock(o).closed = o.closed
       /\ Odbc!Lock(o).lock = o.lock + 1
       /\ Odbc!Unlock(o) \in Odbc!LockStructs /\ Odbc!Unlock(o).closed = o.closed
       /\ Odbc!Unlock(o).lock = o.lock - 1
       /\ o.lock \in Int /\ o.closed \in BOOLEAN
  BY DEF Odbc!Lock, Odbc!Unlock, Odbc!LockStructs
<1>3. \A o \in Odbc!StmtStructs :
       /\ Odbc!Lock(o) \in Odbc!StmtStructs /\ Odbc!Lock(o).closed = o.closed
       /\ Odbc!Lock(o).lock = o.lock + 1 /\ Odbc!Lock(o).conn = o.conn
       /\ Odbc!Unlock(o) \in Odbc!StmtStructs /\ Odbc!Unlock(o).closed = o.closed
       /\ Odbc!Unlock(o).lock = o.lock - 1 /\ Odbc!Unlock(o).conn = o.conn
       /\ Odbc!Lock(o).bound = o.bound /\ Odbc!Unlock(o).bound = o.bound
       /\ o.lock \in Int /\ o.closed \in BOOLEAN /\ o.conn \in Conns
  BY DEF Odbc!Lock, Odbc!Unlock, Odbc!StmtStructs
<1>4. \A o \in Odbc!StmtStructs :
       /\ Odbc!Shutdown(o) \in Odbc!StmtStructs /\ Odbc!Shutdown(o).closed
       /\ Odbc!Shutdown(o).lock = o.lock /\ Odbc!Shutdown(o).bound = "none"
  BY <1>1 DEF Odbc!Shutdown, Odbc!StmtStructs
<1>5. QED
  BY <1>2, <1>3, <1>4

LEMMA FiniteBelow ==
  /\ \A s : IsFiniteSet(CursOf(s)) /\ Cardinality(CursOf(s)) \in Nat
            /\ (Cardinality(CursOf(s)) = 0 <=> CursOf(s) = {})
  /\ \A c : IsFiniteSet(StmtsOf(c)) /\ Cardinality(StmtsOf(c)) \in Nat
            /\ (Cardinality(StmtsOf(c)) = 0 <=> StmtsOf(c) = {})
  /\ IsFiniteSet(ConnsOpen) /\ Cardinality(ConnsOpen) \in Nat
  /\ Cardinality(ConnsOpen) = 0 <=> ConnsOpen = {}
<1>1. IsFiniteSet(Curs) /\ IsFiniteSet(Stmts) /\ IsFiniteSet(Conns)
  BY ObjectsAssumption, DriverObjectsAssumption DEF ObjectsAssumption, DriverObjectsAssumption
<1>2. \A s : CursOf(s) \subseteq Curs
  BY DEF CursOf
<1>3. \A c : StmtsOf(c) \subseteq Stmts
  BY DEF StmtsOf
<1>4. ConnsOpen \subseteq Conns
  BY DEF ConnsOpen
<1>5. \A s : IsFiniteSet(CursOf(s))
  BY <1>1, <1>2, FS_Subset
<1>6. \A c : IsFiniteSet(StmtsOf(c))
  BY <1>1, <1>3, FS_Subset
<1>7. IsFiniteSet(ConnsOpen)
  BY <1>1, <1>4, FS_Subset
<1>8. QED
  BY <1>5, <1>6, <1>7, CountedNone

(* A level whose open objects stay the same.                               *)
LEMMA CursLevelKept ==
  ASSUME OdbcTypeOK, CursLevel, UNCHANGED cur, Clean' => Clean,
         \A s \in Stmts :
           stmt'[s] = stmt[s] \/ (CursOf(s) = {} /\ (stmt'[s] # NULL => stmt'[s].lock = 0))
  PROVE  CursLevel'
<1>1. \A s : CursOf(s)' = CursOf(s)
  BY DEF CursOf
<1>2. \A k \in Curs : IsOpen(cur[k]) => k \in CursOf(cur[k].stmt) /\ cur[k].stmt \in Stmts
  BY DEF CursOf, OdbcTypeOK, Odbc!CurStructs, IsOpen
<1>3. \A k \in Curs : IsOpen(cur'[k]) => IsOpen(stmt'[cur'[k].stmt])
  BY <1>2 DEF CursLevel
<1>4. ASSUME NEW s \in Stmts
      PROVE  Counted(stmt[s], CursOf(s))'
  <2>1. CASE stmt'[s] = stmt[s]
    BY <1>1, <2>1 DEF CursLevel, Counted
  <2>2. CASE CursOf(s) = {} /\ (stmt'[s] # NULL => stmt'[s].lock = 0)
    <3>1. Cardinality(CursOf(s)') = 0
      BY <1>1, <2>2, FiniteBelow
    <3>2. QED
      BY <2>2, <3>1 DEF Counted
  <2>3. QED
    BY <2>1, <2>2
<1>5. QED
  BY <1>3, <1>4 DEF CursLevel

LEMMA StmtLevelKept ==
  ASSUME OdbcTypeOK, StmtLevel, Clean' => Clean,
         \A s \in Stmts : /\ IsOpen(stmt'[s]) <=> IsOpen(stmt[s])
                          /\ IsOpen(stmt[s]) => stmt'[s].conn = stmt[s].conn
                          /\ s \in mysqls => s \in mysqls',
         \A c \in Conns :
           conn'[c] = conn[c] \/ (StmtsOf(c) = {} /\ (conn'[c] # NULL => conn'[c].lock = 0))
  PROVE  StmtLevel'
<1>1. \A c : StmtsOf(c)' = StmtsOf(c)
  BY DEF StmtsOf
<1>2. \A s \in Stmts : IsOpen(stmt[s]) => s \in StmtsOf(stmt[s].conn) /\ stmt[s].conn \in Conns
  BY DEF StmtsOf, OdbcTypeOK, Odbc!StmtStructs, IsOpen
<1>3. \A s \in Stmts : IsOpen(stmt'[s]) => IsOpen(conn'[stmt'[s].conn]) /\ s \in mysqls'
  BY <1>2 DEF StmtLevel
<1>4. ASSUME NEW c \in Conns
      PROVE  Counted(conn[c], StmtsOf(c))'
  <2>1. CASE conn'[c] = conn[c]
    BY <1>1, <2>1 DEF StmtLevel, Counted
  <2>2. CASE StmtsOf(c) = {} /\ (conn'[c] # NULL => conn'[c].lock = 0)
    <3>1. Cardinality(StmtsOf(c)') = 0
      BY <1>1, <2>2, FiniteBelow
    <3>2. QED
      BY <2>2, <3>1 DEF Counted
  <2>3. QED
    BY <2>1, <2>2
<1>5. QED
  BY <1>3, <1>4 DEF StmtLevel

LEMMA ConnLevelKept ==
  ASSUME ConnLevel, Clean' => Clean,
         \A c \in Conns : IsOpen(conn'[c]) <=> IsOpen(conn[c]),
         env' = env \/ (ConnsOpen = {} /\ (env' # NULL => env'.lock = 0))
  PROVE  ConnLevel'
<1>1. ConnsOpen' = ConnsOpen
  BY DEF ConnsOpen
<1>2. \A c \in Conns : IsOpen(conn'[c]) => env' # NULL
  BY DEF ConnLevel, ConnsOpen
<1>3. Counted(env, ConnsOpen)'
  <2>1. CASE env' = env
    BY <1>1, <2>1 DEF ConnLevel, Counted
  <2>2. CASE ConnsOpen = {} /\ (env' # NULL => env'.lock = 0)
    <3>1. Cardinality(ConnsOpen') = 0
      BY <1>1, <2>2, FiniteBelow
    <3>2. QED
      BY <2>2, <3>1 DEF Counted
  <2>3. QED
    BY <2>1, <2>2
<1>4. QED
  BY <1>2, <1>3 DEF ConnLevel

(* A level where one object is opened, and locks the one above it.         *)
LEMMA CursLevelMore ==
  ASSUME OdbcTypeOK, CursLevel, Clean' => Clean,
         NEW k \in Curs, NEW s \in Stmts,
         ~IsOpen(cur[k]), IsOpen(cur'[k]), cur'[k].stmt = s,
         \A j \in Curs \ {k} : cur'[j] = cur[j],
         \A d \in Stmts \ {s} : stmt'[d] = stmt[d],
         IsOpen(stmt'[s]),
         \/ stmt[s] # NULL /\ stmt'[s].lock = stmt[s].lock + 1
         \/ stmt[s] = NULL /\ stmt'[s].lock = 1
  PROVE  CursLevel'
<1>1. CursOf(s)' = CursOf(s) \union {k} /\ k \notin CursOf(s)
  BY DEF CursOf
<1>2. \A d : d # s => CursOf(d)' = CursOf(d)
  BY DEF CursOf
<1>3. Cardinality(CursOf(s)') = Cardinality(CursOf(s)) + 1 /\ Cardinality(CursOf(s)) \in Nat
  BY <1>1, FiniteBelow, CountedUp
<1>4. \A j \in Curs : IsOpen(cur[j]) => cur[j].stmt \in Stmts
  BY DEF OdbcTypeOK, Odbc!CurStructs, IsOpen
<1>5. \A j \in Curs : IsOpen(cur'[j]) => IsOpen(stmt'[cur'[j].stmt])
  BY <1>4 DEF CursLevel
<1>6. Counted(stmt[s], CursOf(s))'
  <2>1. CASE stmt[s] # NULL /\ stmt'[s].lock = stmt[s].lock + 1
    <3>1. stmt[s].lock \in Int
      BY <2>1, OdbcLocks DEF OdbcTypeOK
    <3>2. Counted(stmt[s], CursOf(s))
      BY DEF CursLevel
    <3>3. QED
      BY <1>3, <2>1, <3>1, <3>2 DEF Counted
  <2>2. CASE stmt[s] = NULL /\ stmt'[s].lock = 1
    <3>1. CursOf(s) = {}
      BY <2>2 DEF CursLevel, CursOf, IsOpen
    <3>2. Cardinality(CursOf(s)) = 0
      BY <3>1, FiniteBelow
    <3>3. QED
      BY <1>3, <2>2, <3>2 DEF Counted
  <2>3. QED
    BY <2>1, <2>2
<1>7. \A d \in Stmts \ {s} : Counted(stmt[d], CursOf(d))'
  BY <1>2 DEF CursLevel, Counted
<1>8. QED
  BY <1>5, <1>6, <1>7 DEF CursLevel

LEMMA StmtLevelMore ==
  ASSUME OdbcTypeOK, StmtLevel, Clean' => Clean,
         NEW s \in Stmts, NEW c \in Conns,
         ~IsOpen(stmt[s]), IsOpen(stmt'[s]), stmt'[s].conn = c, s \in mysqls',
         \A d \in Stmts \ {s} : stmt'[d] = stmt[d] /\ (d \in mysqls => d \in mysqls'),
         \A d \in Conns \ {c} : conn'[d] = conn[d],
         IsOpen(conn[c]), IsOpen(conn'[c]), conn'[c].lock = conn[c].lock + 1
  PROVE  StmtLevel'
<1>1. StmtsOf(c)' = StmtsOf(c) \union {s} /\ s \notin StmtsOf(c)
  BY DEF StmtsOf
<1>2. \A d : d # c => StmtsOf(d)' = StmtsOf(d)
  BY DEF StmtsOf
<1>3. Cardinality(StmtsOf(c)') = Cardinality(StmtsOf(c)) + 1 /\ Cardinality(StmtsOf(c)) \in Nat
  BY <1>1, FiniteBelow, CountedUp
<1>4. \A d \in Stmts : IsOpen(stmt[d]) => stmt[d].conn \in Conns
  BY DEF OdbcTypeOK, Odbc!StmtStructs, IsOpen
<1>5. \A d \in Stmts : IsOpen(stmt'[d]) => IsOpen(conn'[stmt'[d].conn]) /\ d \in mysqls'
  BY <1>4 DEF StmtLevel
<1>6. Counted(conn[c], StmtsOf(c))'
  <2>1. conn[c].lock \in Int
    BY OdbcLocks DEF OdbcTypeOK, IsOpen
  <2>2. Counted(conn[c], StmtsOf(c)) /\ conn[c] # NULL
    BY DEF StmtLevel, IsOpen
  <2>3. QED
    BY <1>3, <2>1, <2>2 DEF Counted
<1>7. \A d \in Conns \ {c} : Counted(conn[d], StmtsOf(d))'
  BY <1>2 DEF StmtLevel, Counted
<1>8. QED
  BY <1>5, <1>6, <1>7 DEF StmtLevel

LEMMA ConnLevelMore ==
  ASSUME OdbcTypeOK, ConnLevel, Clean' => Clean, NEW c \in Conns,
         ~IsOpen(conn[c]), IsOpen(conn'[c]),
         \A d \in Conns \ {c} : conn'[d] = conn[d],
         env # NULL, env' # NULL, env'.lock = env.lock + 1
  PROVE  ConnLevel'
<1>1. ConnsOpen' = ConnsOpen \union {c} /\ c \notin ConnsOpen
  BY DEF ConnsOpen
<1>2. Cardinality(ConnsOpen') = Cardinality(ConnsOpen) + 1 /\ Cardinality(ConnsOpen) \in Nat
  BY <1>1, FiniteBelow, CountedUp
<1>3. env.lock \in Int
  BY OdbcLocks DEF OdbcTypeOK
<1>4. Counted(env, ConnsOpen)'
  BY <1>2, <1>3 DEF ConnLevel, Counted
<1>5. QED
  BY <1>4 DEF ConnLevel

(* A level where one object is closed or gone, and unlocks the one above;  *)
(* a cursor that could not be closed does not.                             *)
LEMMA CursLevelLess ==
  ASSUME OdbcTypeOK, CursLevel, Clean' => Clean,
         NEW k \in Curs, NEW s \in Stmts,
         IsOpen(cur[k]), cur[k].stmt = s, ~IsOpen(cur'[k]),
         \A j \in Curs \ {k} : cur'[j] = cur[j],
         \A d \in Stmts \ {s} : stmt'[d] = stmt[d],
         IsOpen(stmt'[s]) \/ stmt'[s].lock = 0, stmt'[s] # NULL,
         \/ stmt'[s].lock = stmt[s].lock - 1
         \/ stmt'[s] = stmt[s] /\ ~Clean'
  PROVE  CursLevel'
<1>1. CursOf(s)' = CursOf(s) \ {k} /\ k \in CursOf(s)
  BY DEF CursOf
<1>2. \A d : d # s => CursOf(d)' = CursOf(d)
  BY DEF CursOf
<1>3. Cardinality(CursOf(s)') = Cardinality(CursOf(s)) - 1 /\ Cardinality(CursOf(s)) \in Nat
      /\ Cardinality(CursOf(s)) > 0
  BY <1>1, FiniteBelow, CountedDown
<1>4. IsOpen(stmt[s]) /\ stmt[s].lock \in Int
  BY OdbcLocks DEF CursLevel, OdbcTypeOK, IsOpen
<1>5. Counted(stmt[s], CursOf(s))'
  BY <1>3, <1>4 DEF CursLevel, Counted, IsOpen
<1>6. \A j \in Curs : IsOpen(cur'[j]) => j # k /\ IsOpen(cur[j]) /\ cur'[j] = cur[j]
                                         /\ cur[j].stmt \in Stmts
  BY DEF OdbcTypeOK, Odbc!CurStructs, IsOpen
<1>7. \A j \in Curs : IsOpen(cur'[j]) => IsOpen(stmt'[cur'[j].stmt])
  <2>1. ASSUME NEW j \in Curs, IsOpen(cur'[j]), cur[j].stmt = s
        PROVE  IsOpen(stmt'[s])
    <3>1. j \in CursOf(s)' /\ IsOpen(stmt[s])
      BY <1>4, <1>6, <2>1 DEF CursOf
    <3>2. IsFiniteSet(CursOf(s)')
      BY <1>1, FiniteBelow, FS_RemoveElement
    <3>3. Cardinality(CursOf(s)') \in Nat /\ Cardinality(CursOf(s)') # 0
      BY <3>1, <3>2, CountedNone
    <3>4. stmt'[s].lock >= Cardinality(CursOf(s)')
      BY <1>5 DEF Counted
    <3>5. stmt'[s].lock # 0
      BY <3>3, <3>4
    <3>6. QED
      BY <3>5
  <2>2. QED
    BY <1>6, <2>1 DEF CursLevel
<1>8. \A d \in Stmts \ {s} : Counted(stmt[d], CursOf(d))'
  BY <1>2 DEF CursLevel, Counted
<1>9. QED
  BY <1>5, <1>7, <1>8 DEF CursLevel

LEMMA StmtLevelLess ==
  ASSUME OdbcTypeOK, StmtLevel, Clean' => Clean,
         NEW s \in Stmts, NEW c \in Conns,
         IsOpen(stmt[s]), stmt[s].conn = c, ~IsOpen(stmt'[s]),
         \A d \in Stmts \ {s} : stmt'[d] = stmt[d] /\ (d \in mysqls => d \in mysqls'),
         \A d \in Conns \ {c} : conn'[d] = conn[d],
         IsOpen(conn'[c]), conn'[c].lock = conn[c].lock - 1
  PROVE  StmtLevel'
<1>1. StmtsOf(c)' = StmtsOf(c) \ {s} /\ s \in StmtsOf(c)
  BY DEF StmtsOf
<1>2. \A d : d # c => StmtsOf(d)' = StmtsOf(d)
  BY DEF StmtsOf
<1>3. Cardinality(StmtsOf(c)') = Cardinality(StmtsOf(c)) - 1 /\ Cardinality(StmtsOf(c)) \in Nat
  BY <1>1, FiniteBelow, CountedDown
<1>4. \A d \in Stmts : IsOpen(stmt[d]) => stmt[d].conn \in Conns
  BY DEF OdbcTypeOK, Odbc!StmtStructs, IsOpen
<1>5. \A d \in Stmts : IsOpen(stmt'[d]) => IsOpen(conn'[stmt'[d].conn]) /\ d \in mysqls'
  BY <1>4 DEF StmtLevel
<1>6. Counted(conn[c], StmtsOf(c))'
  <2>1. IsOpen(conn[c]) /\ conn[c].lock \in Int
    BY OdbcLocks DEF StmtLevel, OdbcTypeOK, IsOpen
  <2>2. QED
    BY <1>3, <2>1 DEF StmtLevel, Counted, IsOpen
<1>7. \A d \in Conns \ {c} : Counted(conn[d], StmtsOf(d))'
  BY <1>2 DEF StmtLevel, Counted
<1>8. QED
  BY <1>5, <1>6, <1>7 DEF StmtLevel

LEMMA ConnLevelLess ==
  ASSUME OdbcTypeOK, ConnLevel, Clean' => Clean, NEW c \in Conns,
         IsOpen(conn[c]), ~IsOpen(conn'[c]),
         \A d \in Conns \ {c} : conn'[d] = conn[d],
         env' # NULL, env'.lock = env.lock - 1
  PROVE  ConnLevel'
<1>1. ConnsOpen' = ConnsOpen \ {c} /\ c \in ConnsOpen
  BY DEF ConnsOpen
<1>2. Cardinality(ConnsOpen') = Cardinality(ConnsOpen) - 1 /\ Cardinality(ConnsOpen) \in Nat
  BY <1>1, FiniteBelow, CountedDown
<1>3. env # NULL /\ env.lock \in Int
  BY OdbcLocks DEF OdbcTypeOK, ConnLevel
<1>4. Counted(env, ConnsOpen)'
  BY <1>2, <1>3 DEF ConnLevel, Counted
<1>5. QED
  BY <1>4 DEF ConnLevel

LEMMA OdbcInit ==
  ASSUME Odbc!Init
  PROVE  OdbcInv
<1> USE DEF Odbc!Init
<1>1. OdbcTypeOK
  BY DEF OdbcTypeOK
<1>2. (\A s : CursOf(s) = {}) /\ (\A c : StmtsOf(c) = {}) /\ ConnsOpen = {}
  BY DEF CursOf, StmtsOf, ConnsOpen, IsOpen
<1>3. OdbcRefsInv /\ CursLevel /\ StmtLevel /\ ConnLevel
  BY DEF OdbcRefsInv, CursLevel, StmtLevel, ConnLevel, Counted, IsOpen
<1>4. OdbcRegistry /\ OdbcHandles
  BY DEF OdbcRegistry, OdbcHandles, Locked, IsOpen
<1>5. OdbcBound /\ Odbc!OdbcIsSafe
  BY DEF OdbcBound, Odbc!OdbcIsSafe
<1>6. QED
  BY <1>1, <1>3, <1>4, <1>5 DEF OdbcInv, OdbcSound

(* Nothing changes but what Lua code can reach.                            *)
LEMMA OdbcCallKeeps ==
  ASSUME OdbcSound, UNCHANGED <<env, conn, stmt, cur, registry, mysqls, spoilt>>,
         refs' \subseteq refs
  PROVE  OdbcSound'
<1> USE DEF OdbcGood, OdbcSound, Clean
<1>1. OdbcTypeOK' /\ OdbcRefsInv' /\ OdbcRegistry' /\ OdbcHandles'
  BY DEF OdbcTypeOK, OdbcRefsInv, OdbcRegistry, OdbcHandles, Locked
<1>2. CursLevel'
  BY CursLevelKept
<1>3. StmtLevel'
  BY StmtLevelKept
<1>4. ConnLevel'
  BY ConnLevelKept
<1>5. QED
  BY <1>1, <1>2, <1>3, <1>4

(* An object that is not locked has nothing open below it.                 *)
LEMMA UnlockedIsEmpty ==
  ASSUME OdbcGood
  PROVE  /\ env # NULL /\ ~Locked(env) => env.lock = 0 /\ ConnsOpen = {}
         /\ \A c \in Conns : conn[c] # NULL /\ ~Locked(conn[c]) =>
              conn[c].lock = 0 /\ StmtsOf(c) = {}
         /\ \A s \in Stmts : stmt[s] # NULL /\ ~Locked(stmt[s]) =>
              stmt[s].lock = 0 /\ CursOf(s) = {}
<1> USE DEF OdbcGood, OdbcSound, Clean
<1>1. ASSUME env # NULL, ~Locked(env)
      PROVE  env.lock = 0 /\ ConnsOpen = {}
  <2>1. env.lock \in Int /\ ~(env.lock > 0)
    BY <1>1, OdbcLocks DEF OdbcTypeOK, Locked
  <2>2. env.lock >= Cardinality(ConnsOpen) /\ Cardinality(ConnsOpen) \in Nat
    BY <1>1, FiniteBelow DEF ConnLevel, Counted
  <2>3. env.lock = 0 /\ Cardinality(ConnsOpen) = 0
    BY <2>1, <2>2
  <2>4. QED
    BY <2>3, FiniteBelow
<1>2. ASSUME NEW c \in Conns, conn[c] # NULL, ~Locked(conn[c])
      PROVE  conn[c].lock = 0 /\ StmtsOf(c) = {}
  <2>1. conn[c].lock \in Int /\ ~(conn[c].lock > 0)
    BY <1>2, OdbcLocks DEF OdbcTypeOK, Locked
  <2>2. conn[c].lock >= Cardinality(StmtsOf(c)) /\ Cardinality(StmtsOf(c)) \in Nat
    BY <1>2, FiniteBelow DEF StmtLevel, Counted
  <2>3. conn[c].lock = 0 /\ Cardinality(StmtsOf(c)) = 0
    BY <2>1, <2>2
  <2>4. QED
    BY <2>3, FiniteBelow
<1>3. ASSUME NEW s \in Stmts, stmt[s] # NULL, ~Locked(stmt[s])
      PROVE  stmt[s].lock = 0 /\ CursOf(s) = {}
  <2>1. stmt[s].lock \in Int /\ ~(stmt[s].lock > 0)
    BY <1>3, OdbcLocks DEF OdbcTypeOK, Locked
  <2>2. stmt[s].lock >= Cardinality(CursOf(s)) /\ Cardinality(CursOf(s)) \in Nat
    BY <1>3, FiniteBelow DEF CursLevel, Counted
  <2>3. stmt[s].lock = 0 /\ Cardinality(CursOf(s)) = 0
    BY <2>1, <2>2
  <2>4. QED
    BY <2>3, FiniteBelow
<1>4. QED
  BY <1>1, <1>2, <1>3

(* The environment is made, closed or collected: no connection is open.    *)
LEMMA OdbcEnvKeeps ==
  ASSUME OdbcGood, Odbc!CreateEnvironment \/ Odbc!EnvClose \/ Odbc!EnvGc
  PROVE  OdbcGood'
<1> USE DEF OdbcGood, OdbcSound, Clean
<1>1. UNCHANGED <<conn, stmt, cur, registry, misused, spoilt>>
  BY DEF Odbc!CreateEnvironment, Odbc!EnvClose, Odbc!EnvGc
<1>2. ConnsOpen = {} /\ ~Locked(env)
  <2>1. CASE Odbc!CreateEnvironment
    BY <2>1 DEF Odbc!CreateEnvironment, ConnLevel, ConnsOpen, Locked
  <2>2. CASE Odbc!EnvClose
    <3>1. env # NULL /\ env.lock = 0
      BY <2>2 DEF Odbc!EnvClose, OdbcRefsInv
    <3>2. ~Locked(env)
      BY <3>1 DEF Locked
    <3>3. QED
      BY <3>1, <3>2, UnlockedIsEmpty
  <2>3. CASE Odbc!EnvGc
    <3>1. env # NULL /\ ~Locked(env)
      BY <2>3 DEF Odbc!EnvGc, Odbc!Collectable, OdbcRegistry
    <3>2. QED
      BY <3>1, UnlockedIsEmpty
  <2>4. QED
    BY <2>1, <2>2, <2>3
<1>3. Clean => Odbc!EnvShut = mysqls \ {Env}
  <2>1. Clean => mysqls \intersect Conns = {}
    BY <1>2 DEF OdbcHandles, ConnsOpen
  <2>2. QED
    BY <2>1 DEF Odbc!EnvShut
<1>4. Odbc!EnvShut \in {mysqls, mysqls \ {Env}}
  BY DEF Odbc!EnvShut
<1>5. /\ env' \in Odbc!LockStructs \union {NULL}
      /\ env' # NULL => env'.lock = 0
      /\ Env \in refs' => env' # NULL
      /\ \A x : x \in refs' => x \in refs \/ x = Env
      /\ mysqls' \in {mysqls, mysqls \union {Env}, mysqls \ {Env}}
      /\ Clean => (Env \in mysqls' <=> IsOpen(env'))
  <2>1. CASE Odbc!CreateEnvironment
    <3> DEFINE struct == [closed |-> FALSE, lock |-> 0]
    <3>1. struct \in Odbc!LockStructs /\ struct.lock = 0 /\ ~struct.closed
      BY DEF Odbc!LockStructs
    <3>2. struct # NULL
      BY <3>1, OdbcStructs
    <3>3. env' = struct /\ refs' = refs \union {Env} /\ mysqls' = mysqls \union {Env}
      BY <2>1 DEF Odbc!CreateEnvironment
    <3> HIDE DEF struct
    <3>4. QED
      BY <3>1, <3>2, <3>3 DEF IsOpen
  <2>2. CASE Odbc!EnvClose
    <3> DEFINE struct == [env EXCEPT !.closed = TRUE]
    <3>1. env # NULL /\ env.lock = 0
      BY <2>2 DEF Odbc!EnvClose, OdbcRefsInv
    <3>2. env \in Odbc!LockStructs
      BY <3>1 DEF OdbcTypeOK
    <3>3. struct \in Odbc!LockStructs /\ struct.lock = 0 /\ struct.closed
      BY <3>1, <3>2 DEF Odbc!LockStructs
    <3>4. struct # NULL
      BY <3>3, OdbcStructs
    <3>5. env' = struct /\ refs' = refs /\ mysqls' = Odbc!EnvShut
      BY <2>2 DEF Odbc!EnvClose
    <3> HIDE DEF struct
    <3>6. QED
      BY <1>3, <1>4, <3>3, <3>4, <3>5 DEF IsOpen
  <2>3. CASE Odbc!EnvGc
    <3>1. /\ env' = NULL /\ Env \notin refs /\ refs' = refs /\ env # NULL
          /\ mysqls' = IF env.closed THEN mysqls ELSE Odbc!EnvShut
      BY <2>3 DEF Odbc!EnvGc, Odbc!Collectable
    <3>2. Clean => Env \notin mysqls'
      BY <1>3, <3>1 DEF OdbcHandles, IsOpen
    <3>3. QED
      BY <1>4, <3>1, <3>2 DEF IsOpen
  <2>4. QED
    BY <2>1, <2>2, <2>3
<1>6. OdbcTypeOK'
  BY <1>1, <1>5 DEF OdbcTypeOK
<1>7. OdbcRefsInv'
  BY <1>1, <1>5, OdbcDisjoint DEF OdbcRefsInv
<1>8. \A x : x # Env => (x \in mysqls' <=> x \in mysqls)
  BY <1>5
<1>9. CursLevel'
  BY <1>1, CursLevelKept
<1>10. StmtLevel'
  BY <1>1, <1>8, OdbcDisjoint, StmtLevelKept
<1>11. ConnLevel'
  BY <1>1, <1>2, <1>5, ConnLevelKept
<1>12. OdbcRegistry'
  BY <1>1, <1>2, <1>5 DEF OdbcRegistry, Locked
<1>13. OdbcHandles'
  BY <1>1, <1>5, <1>8, OdbcDisjoint DEF OdbcHandles
<1>14. QED
  BY <1>1, <1>6, <1>7, <1>9, <1>10, <1>11, <1>12, <1>13

LEMMA OdbcConnectKeeps ==
  ASSUME OdbcGood, NEW c \in Conns, Odbc!EnvConnect(c)
  PROVE  OdbcGood'
<1> USE DEF OdbcGood, OdbcSound, Clean
<1>1. /\ env # NULL /\ conn[c] = NULL /\ mysqls' = mysqls \union {c}
      /\ UNCHANGED <<stmt, cur, misused>>
  BY DEF Odbc!EnvConnect, OdbcRefsInv
<1>2. CursLevel' /\ mysqls' \subseteq Conns \union Stmts \union {Env}
  <2>1. Clean' => Clean
    BY DEF Odbc!EnvConnect
  <2>2. CursLevel'
    BY <1>1, <2>1, CursLevelKept
  <2>3. QED
    BY <1>1, <2>2 DEF OdbcTypeOK
<1>3. CASE /\ spoilt' = spoilt \union {"attribute"}
           /\ UNCHANGED <<env, conn, refs, registry>>
  <2>1. OdbcTypeOK' /\ OdbcRefsInv'
    BY <1>1, <1>2, <1>3 DEF OdbcTypeOK, OdbcRefsInv
  <2>2. ~Clean'
    BY <1>3
  <2>3. StmtLevel'
    BY <1>1, <1>3, <2>2, StmtLevelKept
  <2>4. ConnLevel'
    BY <1>1, <1>3, <2>2, ConnLevelKept
  <2>5. OdbcRegistry' /\ OdbcHandles'
    BY <1>1, <1>3, <2>2 DEF OdbcRegistry, OdbcHandles, Locked
  <2>6. QED
    BY <1>1, <1>2, <2>1, <2>3, <2>4, <2>5
<1>4. CASE /\ conn' = [conn EXCEPT ![c] = [closed |-> FALSE, lock |-> 0]]
           /\ refs' = refs \union {c}
           /\ env' = Odbc!Lock(env)
           /\ registry' = registry \union {Env}
           /\ UNCHANGED spoilt
  <2> DEFINE struct == [closed |-> FALSE, lock |-> 0]
  <2>1. struct \in Odbc!LockStructs /\ struct.lock = 0 /\ ~struct.closed
    BY DEF Odbc!LockStructs
  <2>2. struct # NULL /\ conn' = [conn EXCEPT ![c] = struct]
    BY <1>4, <2>1, OdbcStructs
  <2> HIDE DEF struct
  <2>3. conn' \in [Conns -> Odbc!LockStructs \union {NULL}] /\ conn'[c] = struct
        /\ \A d \in Conns \ {c} : conn'[d] = conn[d]
    BY <2>1, <2>2 DEF OdbcTypeOK
  <2>4. /\ env' \in Odbc!LockStructs /\ env'.lock = env.lock + 1
        /\ env'.closed = env.closed /\ env.lock \in Int
    BY <1>1, <1>4, OdbcLocks DEF OdbcTypeOK
  <2>5. env' # NULL /\ env'.lock > 0
    <3>1. env.lock >= Cardinality(ConnsOpen) /\ Cardinality(ConnsOpen) \in Nat
      BY <1>1, FiniteBelow DEF ConnLevel, Counted
    <3>2. QED
      BY <2>4, <3>1, OdbcStructs
  <2>6. OdbcTypeOK'
    BY <1>1, <1>2, <2>3, <2>4 DEF OdbcTypeOK
  <2>7. OdbcRefsInv'
    BY <1>1, <1>4, <2>2, <2>3, <2>5, OdbcDisjoint DEF OdbcRefsInv
  <2>8. ~IsOpen(conn[c]) /\ IsOpen(conn'[c])
    BY <1>1, <2>1, <2>2, <2>3 DEF IsOpen
  <2>9. StmtsOf(c) = {}
    BY <2>8 DEF StmtLevel, StmtsOf
  <2>10. StmtLevel'
    BY <1>1, <1>4, <2>1, <2>3, <2>9, StmtLevelKept
  <2>11. ConnLevel'
    BY <1>1, <1>4, <2>3, <2>4, <2>5, <2>8, ConnLevelMore
  <2>12. OdbcRegistry'
    <3>1. Locked(env') /\ ~Locked(conn'[c]) /\ ~Locked(conn[c])
      BY <1>1, <2>1, <2>3, <2>5 DEF Locked
    <3>2. QED
      BY <1>1, <1>4, <2>3, <3>1, OdbcDisjoint DEF OdbcRegistry
  <2>13. OdbcHandles'
    <3>1. IsOpen(env') <=> IsOpen(env)
      BY <1>1, <2>4, <2>5 DEF IsOpen
    <3>2. QED
      BY <1>1, <1>4, <2>3, <2>8, <3>1, OdbcDisjoint DEF OdbcHandles
  <2>14. QED
    BY <1>1, <1>2, <2>6, <2>7, <2>10, <2>11, <2>12, <2>13
<1>5. QED
  BY <1>3, <1>4 DEF Odbc!EnvConnect

LEMMA OdbcPrepared ==
  ASSUME NEW c \in Conns, NEW hidden \in BOOLEAN, NEW n \in Int
  PROVE  /\ Odbc!Prepared(c, hidden, n) \in Odbc!StmtStructs
         /\ Odbc!Prepared(c, hidden, n) # NULL
         /\ ~Odbc!Prepared(c, hidden, n).closed
         /\ Odbc!Prepared(c, hidden, n).lock = n
         /\ Odbc!Prepared(c, hidden, n).conn = c
<1>1. /\ Odbc!Prepared(c, hidden, n) \in Odbc!StmtStructs
      /\ ~Odbc!Prepared(c, hidden, n).closed
      /\ Odbc!Prepared(c, hidden, n).lock = n
      /\ Odbc!Prepared(c, hidden, n).conn = c
  BY DEF Odbc!Prepared, Odbc!Bindings, Odbc!StmtStructs
<1>2. QED
  BY <1>1, OdbcStructs

(* What locking an open connection does.                                   *)
LEMMA OdbcConnLocked ==
  ASSUME OdbcGood, NEW c \in Conns, IsOpen(conn[c]),
         conn' = [conn EXCEPT ![c] = Odbc!Lock(@)]
  PROVE  /\ conn' \in [Conns -> Odbc!LockStructs \union {NULL}]
         /\ \A d \in Conns \ {c} : conn'[d] = conn[d]
         /\ conn'[c].lock = conn[c].lock + 1 /\ IsOpen(conn'[c]) /\ Locked(conn'[c])
<1> USE DEF OdbcGood, OdbcSound, Clean
<1>1. conn[c] \in Odbc!LockStructs /\ conn[c].lock \in Int
  BY OdbcLocks DEF OdbcTypeOK, IsOpen
<1>2. /\ Odbc!Lock(conn[c]) \in Odbc!LockStructs /\ Odbc!Lock(conn[c]).closed = conn[c].closed
      /\ Odbc!Lock(conn[c]).lock = conn[c].lock + 1
  BY <1>1, OdbcLocks
<1>3. Odbc!Lock(conn[c]) # NULL
  BY <1>2, OdbcStructs
<1>4. conn[c].lock >= Cardinality(StmtsOf(c)) /\ Cardinality(StmtsOf(c)) \in Nat
  BY FiniteBelow DEF StmtLevel, Counted, IsOpen
<1>5. conn'[c] = Odbc!Lock(conn[c]) /\ \A d \in Conns \ {c} : conn'[d] = conn[d]
  BY DEF OdbcTypeOK
<1>6. conn' \in [Conns -> Odbc!LockStructs \union {NULL}]
  BY <1>2 DEF OdbcTypeOK
<1>7. QED
  BY <1>1, <1>2, <1>3, <1>4, <1>5, <1>6 DEF IsOpen, Locked

(* A statement is prepared, with or without a cursor on it already.        *)
LEMMA OdbcStmtOpens ==
  ASSUME OdbcGood, NEW c \in Conns, NEW s \in Stmts, NEW hidden \in BOOLEAN,
         IsOpen(conn[c]), stmt[s] = NULL, conn' = [conn EXCEPT ![c] = Odbc!Lock(@)],
         mysqls' = mysqls \union {s}, UNCHANGED <<env, misused, spoilt>>,
         \/ /\ stmt' = [stmt EXCEPT ![s] = Odbc!Prepared(c, hidden, 0)]
            /\ registry' = registry \union {c} /\ cur' = cur
            /\ refs' \subseteq refs \union {s}
         \/ \E k \in Curs :
              /\ Odbc!Created(k, s)
              /\ stmt' = [stmt EXCEPT ![s] = Odbc!Prepared(c, hidden, 1)]
              /\ registry' = registry \union {c, s}
              /\ refs' = refs \union {k}
  PROVE  OdbcGood'
<1> USE DEF OdbcGood, OdbcSound, Clean
<1>1. /\ conn' \in [Conns -> Odbc!LockStructs \union {NULL}]
      /\ \A d \in Conns \ {c} : conn'[d] = conn[d]
      /\ conn'[c].lock = conn[c].lock + 1 /\ IsOpen(conn'[c]) /\ Locked(conn'[c])
  BY OdbcConnLocked
<1>2. PICK n \in {0, 1} :
        /\ stmt' = [stmt EXCEPT ![s] = Odbc!Prepared(c, hidden, n)]
        /\ \/ n = 0 /\ registry' = registry \union {c} /\ cur' = cur
              /\ refs' \subseteq refs \union {s}
           \/ /\ n = 1 /\ registry' = registry \union {c, s}
              /\ \E k \in Curs : Odbc!Created(k, s) /\ refs' = refs \union {k}
  OBVIOUS
<1> DEFINE p == Odbc!Prepared(c, hidden, n)
<1>3. p \in Odbc!StmtStructs /\ p # NULL /\ ~p.closed /\ p.lock = n /\ p.conn = c
  BY OdbcPrepared
<1>4. stmt' = [stmt EXCEPT ![s] = p]
  BY <1>2
<1> HIDE DEF p
<1>5. stmt' \in [Stmts -> Odbc!StmtStructs \union {NULL}] /\ stmt'[s] = p
      /\ \A d \in Stmts \ {s} : stmt'[d] = stmt[d]
  BY <1>3, <1>4 DEF OdbcTypeOK
<1>6. IsOpen(stmt'[s]) /\ ~IsOpen(stmt[s]) /\ stmt'[s].lock = n /\ stmt'[s].conn = c
  BY <1>3, <1>5 DEF IsOpen
<1>7. /\ cur' \in [Curs -> Odbc!CurStructs \union {NULL}]
      /\ \A k \in Curs : k \in refs' => cur'[k] # NULL
      /\ CursLevel'
  <2>1. CASE n = 0 /\ cur' = cur /\ refs' \subseteq refs \union {s}
    <3>1. CursOf(s) = {}
      BY <1>6 DEF CursLevel, CursOf
    <3>2. CursLevel'
      BY <1>5, <1>6, <2>1, <3>1, CursLevelKept
    <3>3. QED
      BY <2>1, <3>2, OdbcDisjoint DEF OdbcTypeOK, OdbcRefsInv
  <2>2. CASE n = 1 /\ \E k \in Curs : Odbc!Created(k, s) /\ refs' = refs \union {k}
    <3>1. PICK k \in Curs : Odbc!Created(k, s) /\ refs' = refs \union {k}
      BY <2>2
    <3> DEFINE struct == [closed |-> FALSE, stmt |-> s]
    <3>2. struct \in Odbc!CurStructs /\ ~struct.closed /\ struct.stmt = s
      BY DEF Odbc!CurStructs
    <3>3. struct # NULL /\ cur[k] = NULL /\ cur' = [cur EXCEPT ![k] = struct]
      BY <3>1, <3>2, OdbcStructs DEF Odbc!Created
    <3> HIDE DEF struct
    <3>4. cur' \in [Curs -> Odbc!CurStructs \union {NULL}] /\ cur'[k] = struct
          /\ \A j \in Curs \ {k} : cur'[j] = cur[j]
      BY <3>2, <3>3 DEF OdbcTypeOK
    <3>5. ~IsOpen(cur[k]) /\ IsOpen(cur'[k]) /\ cur'[k].stmt = s
      BY <3>2, <3>3, <3>4 DEF IsOpen
    <3>6. CursLevel'
      BY <1>5, <1>6, <2>2, <3>4, <3>5, CursLevelMore
    <3>7. QED
      BY <3>1, <3>3, <3>4, <3>6 DEF OdbcRefsInv
  <2>3. QED
    BY <1>2, <2>1, <2>2
<1>8. StmtLevel'
  BY <1>1, <1>5, <1>6, StmtLevelMore
<1>9. ConnLevel'
  <2>1. \A d \in Conns : IsOpen(conn'[d]) <=> IsOpen(conn[d])
    BY <1>1
  <2>2. QED
    BY <2>1, ConnLevelKept
<1>10. OdbcTypeOK'
  <2>1. mysqls' \subseteq Conns \union Stmts \union {Env}
    BY DEF OdbcTypeOK
  <2>2. QED
    BY <1>1, <1>5, <1>7, <2>1 DEF OdbcTypeOK
<1>11. OdbcRefsInv'
  <2>1. \A x : x \in refs' => x \in refs \/ x = s \/ x \in Curs
    BY <1>2
  <2>2. \A d \in Conns : d \in refs' => conn'[d] # NULL
    BY <1>1, <2>1, OdbcDisjoint DEF OdbcRefsInv, IsOpen
  <2>3. \A d \in Stmts : d \in refs' => stmt'[d] # NULL
    BY <1>3, <1>5, <2>1, OdbcDisjoint DEF OdbcRefsInv
  <2>4. Env \in refs' => env' # NULL
    BY <2>1, OdbcDisjoint DEF OdbcRefsInv
  <2>5. QED
    BY <1>7, <2>2, <2>3, <2>4 DEF OdbcRefsInv
<1>12. OdbcRegistry'
  <2>1. Locked(stmt'[s]) <=> n = 1
    BY <1>2, <1>3, <1>5 DEF Locked
  <2>2. ~Locked(stmt[s])
    BY DEF Locked
  <2>3. registry' = registry \union (IF n = 1 THEN {c, s} ELSE {c})
    BY <1>2
  <2>4. QED
    BY <1>1, <1>5, <2>1, <2>2, <2>3, OdbcDisjoint DEF OdbcRegistry
<1>13. OdbcHandles'
  BY <1>1, <1>5, <1>6, OdbcDisjoint DEF OdbcHandles
<1>14. QED
  BY <1>7, <1>8, <1>9, <1>10, <1>11, <1>12, <1>13

(* A prepared statement is executed and has a cursor.                      *)
LEMMA OdbcCursorOpens ==
  ASSUME OdbcGood, NEW s \in Stmts, IsOpen(stmt[s]), stmt[s].lock = 0,
         NEW p \in Odbc!StmtStructs, ~p.closed, p.lock = 1, p.conn = stmt[s].conn,
         stmt' = [stmt EXCEPT ![s] = p],
         registry' = registry \union {s}, UNCHANGED <<env, conn, mysqls, spoilt>>,
         \E k \in Curs : Odbc!Created(k, s) /\ refs' \subseteq refs \union {k}
  PROVE  OdbcSound'
<1> USE DEF OdbcGood, OdbcSound, Clean
<1>1. /\ IsOpen(stmt[s]) /\ stmt[s].lock = 0
      /\ stmt' = [stmt EXCEPT ![s] = p]
      /\ registry' = registry \union {s}
      /\ UNCHANGED <<env, conn, mysqls, spoilt>>
  OBVIOUS
<1>2. PICK k \in Curs : Odbc!Created(k, s) /\ refs' \subseteq refs \union {k}
  OBVIOUS
<1> DEFINE struct == [closed |-> FALSE, stmt |-> s]
<1>3. struct \in Odbc!CurStructs /\ ~struct.closed /\ struct.stmt = s
  BY DEF Odbc!CurStructs
<1>4. struct # NULL /\ cur[k] = NULL /\ cur' = [cur EXCEPT ![k] = struct]
  BY <1>2, <1>3, OdbcStructs DEF Odbc!Created
<1>5. stmt[s] \in Odbc!StmtStructs
  BY <1>1 DEF OdbcTypeOK, IsOpen
<1>6. /\ p \in Odbc!StmtStructs /\ p.closed = stmt[s].closed /\ p.lock = 1
      /\ p.conn = stmt[s].conn
  BY <1>1, <1>5 DEF IsOpen, Odbc!StmtStructs
<1>7. p # NULL /\ stmt' = [stmt EXCEPT ![s] = p]
  BY <1>1, <1>6, OdbcStructs
<1> HIDE DEF struct
<1>8. cur' \in [Curs -> Odbc!CurStructs \union {NULL}] /\ cur'[k] = struct
      /\ \A j \in Curs \ {k} : cur'[j] = cur[j]
  BY <1>3, <1>4 DEF OdbcTypeOK
<1>9. stmt' \in [Stmts -> Odbc!StmtStructs \union {NULL}] /\ stmt'[s] = p
      /\ \A d \in Stmts \ {s} : stmt'[d] = stmt[d]
  BY <1>6, <1>7 DEF OdbcTypeOK
<1>10. ~IsOpen(cur[k]) /\ IsOpen(cur'[k]) /\ cur'[k].stmt = s /\ IsOpen(stmt'[s])
  BY <1>1, <1>3, <1>4, <1>6, <1>7, <1>8, <1>9 DEF IsOpen
<1>11. CursLevel'
  <2>1. stmt[s] # NULL /\ stmt'[s].lock = stmt[s].lock + 1
    BY <1>1, <1>6, <1>9 DEF IsOpen
  <2>2. QED
    BY <1>1, <1>8, <1>9, <1>10, <2>1, CursLevelMore
<1>12. \A d \in Stmts : /\ IsOpen(stmt'[d]) <=> IsOpen(stmt[d])
                        /\ IsOpen(stmt[d]) => stmt'[d].conn = stmt[d].conn
  BY <1>1, <1>6, <1>9, <1>10
<1>13. StmtLevel'
  BY <1>1, <1>12, StmtLevelKept
<1>14. ConnLevel'
  BY <1>1, ConnLevelKept
<1>15. OdbcTypeOK'
  BY <1>1, <1>8, <1>9 DEF OdbcTypeOK
<1>16. OdbcRefsInv'
  <2>1. \A d \in Conns : d \in refs' => conn'[d] # NULL
    BY <1>1, <1>2, OdbcDisjoint DEF OdbcRefsInv
  <2>2. \A d \in Stmts : d \in refs' => stmt'[d] # NULL
    BY <1>2, <1>7, <1>9, OdbcDisjoint DEF OdbcRefsInv
  <2>3. \A j \in Curs : j \in refs' => cur'[j] # NULL
    BY <1>2, <1>4, <1>8 DEF OdbcRefsInv
  <2>4. Env \in refs' => env' # NULL
    BY <1>1, <1>2, OdbcDisjoint DEF OdbcRefsInv
  <2>5. QED
    BY <2>1, <2>2, <2>3, <2>4 DEF OdbcRefsInv
<1>17. OdbcRegistry'
  <2>1. Locked(stmt'[s])
    BY <1>6, <1>7, <1>9 DEF Locked
  <2>2. QED
    BY <1>1, <1>9, <2>1, OdbcDisjoint DEF OdbcRegistry
<1>18. OdbcHandles'
  BY <1>1, <1>12 DEF OdbcHandles
<1>19. QED
  BY <1>1, <1>11, <1>13, <1>14, <1>15, <1>16, <1>17, <1>18

(* A closed statement, connection or cursor is collected.                  *)
LEMMA OdbcGone ==
  ASSUME OdbcGood, UNCHANGED <<env, registry, mysqls, misused, spoilt, refs>>,
         \/ \E s \in Stmts : /\ stmt[s] # NULL /\ ~IsOpen(stmt[s]) /\ s \notin refs
                             /\ ~Locked(stmt[s]) /\ stmt' = [stmt EXCEPT ![s] = NULL]
                             /\ UNCHANGED <<conn, cur>>
         \/ \E c \in Conns : /\ conn[c] # NULL /\ ~IsOpen(conn[c]) /\ c \notin refs
                             /\ ~Locked(conn[c]) /\ conn' = [conn EXCEPT ![c] = NULL]
                             /\ UNCHANGED <<stmt, cur>>
         \/ \E k \in Curs : /\ ~IsOpen(cur[k]) /\ k \notin refs
                            /\ cur' = [cur EXCEPT ![k] = NULL] /\ UNCHANGED <<stmt, conn>>
  PROVE  OdbcGood'
<1> USE DEF OdbcGood, OdbcSound, Clean
<1>1. /\ \A s \in Stmts : \/ stmt'[s] = stmt[s]
                          \/ /\ stmt[s] # NULL /\ ~IsOpen(stmt[s]) /\ ~Locked(stmt[s])
                             /\ stmt'[s] = NULL /\ s \notin refs
      /\ \A c \in Conns : \/ conn'[c] = conn[c]
                          \/ /\ conn[c] # NULL /\ ~IsOpen(conn[c]) /\ ~Locked(conn[c])
                             /\ conn'[c] = NULL /\ c \notin refs
      /\ \A k \in Curs : \/ cur'[k] = cur[k]
                         \/ ~IsOpen(cur[k]) /\ cur'[k] = NULL /\ k \notin refs
      /\ stmt' \in [Stmts -> Odbc!StmtStructs \union {NULL}]
      /\ conn' \in [Conns -> Odbc!LockStructs \union {NULL}]
      /\ cur' \in [Curs -> Odbc!CurStructs \union {NULL}]
  BY DEF OdbcTypeOK
<1>2. OdbcTypeOK' /\ OdbcRefsInv'
  BY <1>1 DEF OdbcTypeOK, OdbcRefsInv
<1>3. /\ \A s \in Stmts : stmt'[s] = stmt[s] \/ (stmt'[s] = NULL /\ CursOf(s) = {})
      /\ \A c \in Conns : conn'[c] = conn[c] \/ (conn'[c] = NULL /\ StmtsOf(c) = {})
  BY <1>1, UnlockedIsEmpty
<1>4. /\ \A s \in Stmts : IsOpen(stmt'[s]) <=> IsOpen(stmt[s])
      /\ \A s \in Stmts : IsOpen(stmt[s]) => stmt'[s].conn = stmt[s].conn
      /\ \A c \in Conns : IsOpen(conn'[c]) <=> IsOpen(conn[c])
      /\ \A s \in Stmts : Locked(stmt'[s]) <=> Locked(stmt[s])
      /\ \A c \in Conns : Locked(conn'[c]) <=> Locked(conn[c])
  BY <1>1 DEF IsOpen, Locked
<1>5. CursLevel'
  <2>1. \A s : CursOf(s)' = CursOf(s)
    BY <1>1 DEF CursOf, IsOpen
  <2>2. \A k \in Curs : IsOpen(cur'[k]) => cur'[k] = cur[k] /\ k \in CursOf(cur[k].stmt)
                                           /\ cur[k].stmt \in Stmts
    BY <1>1 DEF CursOf, OdbcTypeOK, Odbc!CurStructs, IsOpen
  <2>3. \A k \in Curs : IsOpen(cur'[k]) => IsOpen(stmt'[cur'[k].stmt])
    BY <1>3, <2>2 DEF CursLevel, CursOf
  <2>4. \A s \in Stmts : Counted(stmt[s], CursOf(s))'
    BY <1>3, <2>1 DEF CursLevel, Counted
  <2>5. QED
    BY <2>3, <2>4 DEF CursLevel
<1>6. StmtLevel'
  BY <1>3, <1>4, StmtLevelKept
<1>7. ConnLevel'
  BY <1>4, ConnLevelKept
<1>8. OdbcRegistry' /\ OdbcHandles'
  BY <1>4 DEF OdbcRegistry, OdbcHandles
<1>9. QED
  BY <1>2, <1>5, <1>6, <1>7, <1>8

(* stmt_shut of an open statement.                                         *)
LEMMA OdbcStmtShut ==
  ASSUME OdbcGood, NEW s \in Stmts, IsOpen(stmt[s]), NEW c \in Conns, c = stmt[s].conn,
         NEW extra, extra \subseteq {s}, Odbc!StmtShut(s, extra),
         ~IsOpen(stmt'[s]), \A d \in Stmts \ {s} : stmt'[d] = stmt[d],
         UNCHANGED <<env, spoilt>>
  PROVE  /\ conn' \in [Conns -> Odbc!LockStructs \union {NULL}] /\ IsOpen(conn'[c])
         /\ \A d \in Conns \ {c} : conn'[d] = conn[d]
         /\ StmtLevel' /\ ConnLevel' /\ mysqls' = mysqls \ {s}
         /\ \A d \in Conns : d \in registry' <=> Locked(conn'[d])
         /\ \A x : x \notin Conns => (x \in registry' <=> x \in registry \ extra)
<1> USE DEF OdbcGood, OdbcSound, Clean
<1>1. /\ conn' = [conn EXCEPT ![c] = Odbc!Unlock(@)]
      /\ registry' = registry \ (Odbc!Unregister(conn[c], c) \union extra)
      /\ mysqls' = mysqls \ {s}
  BY DEF Odbc!StmtShut
<1>2. IsOpen(conn[c])
  BY DEF StmtLevel
<1>3. conn[c] \in Odbc!LockStructs /\ conn[c].lock \in Int
  BY <1>2, OdbcLocks DEF OdbcTypeOK, IsOpen
<1>4. /\ Odbc!Unlock(conn[c]) \in Odbc!LockStructs
      /\ Odbc!Unlock(conn[c]).closed = conn[c].closed
      /\ Odbc!Unlock(conn[c]).lock = conn[c].lock - 1
  BY <1>3, OdbcLocks
<1>5. Odbc!Unlock(conn[c]) # NULL
  BY <1>4, OdbcStructs
<1>6. /\ conn'[c] = Odbc!Unlock(conn[c]) /\ \A d \in Conns \ {c} : conn'[d] = conn[d]
      /\ conn' \in [Conns -> Odbc!LockStructs \union {NULL}]
  BY <1>1, <1>4 DEF OdbcTypeOK
<1>7. IsOpen(conn'[c]) /\ conn'[c].lock = conn[c].lock - 1
  BY <1>2, <1>4, <1>5, <1>6 DEF IsOpen
<1>8. conn[c].lock >= 1
  <2>1. s \in StmtsOf(c)
    BY DEF StmtsOf
  <2>2. Cardinality(StmtsOf(c)) \in Nat /\ Cardinality(StmtsOf(c)) # 0
    BY <2>1, FiniteBelow
  <2>3. conn[c].lock >= Cardinality(StmtsOf(c))
    BY <1>2 DEF StmtLevel, Counted, IsOpen
  <2>4. QED
    BY <1>3, <2>2, <2>3
<1>9. StmtLevel'
  BY <1>1, <1>6, <1>7, StmtLevelLess
<1>10. ConnLevel'
  <2>1. \A d \in Conns : IsOpen(conn'[d]) <=> IsOpen(conn[d])
    BY <1>2, <1>6, <1>7
  <2>2. QED
    BY <2>1, ConnLevelKept
<1>11. \A d \in Conns : d \in registry' <=> Locked(conn'[d])
  <2>1. c \in registry
    BY <1>2, <1>3, <1>8 DEF OdbcRegistry, Locked, IsOpen
  <2>2. c \in registry' <=> conn[c].lock # 1
    BY <1>1, <2>1, OdbcDisjoint DEF Odbc!Unregister
  <2>3. Locked(conn'[c]) <=> conn[c].lock # 1
    BY <1>3, <1>7, <1>8 DEF Locked, IsOpen
  <2>4. \A d \in Conns \ {c} : d \in registry' <=> d \in registry
    BY <1>1, OdbcDisjoint DEF Odbc!Unregister
  <2>5. QED
    BY <1>6, <2>2, <2>3, <2>4 DEF OdbcRegistry
<1>12. \A x : x \notin Conns => (x \in registry' <=> x \in registry \ extra)
  BY <1>1 DEF Odbc!Unregister
<1>13. QED
  BY <1>1, <1>6, <1>7, <1>9, <1>10, <1>11, <1>12

(* An open statement without cursors is closed or collected.               *)
LEMMA OdbcStmtEnds ==
  ASSUME OdbcGood, NEW s \in Stmts, IsOpen(stmt[s]), ~Locked(stmt[s]),
         Odbc!StmtShut(s, {}),
         NEW p \in Odbc!StmtStructs \union {NULL}, stmt' = [stmt EXCEPT ![s] = p],
         ~IsOpen(p), p # NULL => p.lock = 0, s \in refs => p # NULL,
         UNCHANGED <<env, cur, refs, misused, spoilt>>
  PROVE  OdbcGood'
<1> USE DEF OdbcGood, OdbcSound, Clean
<1>1. stmt' \in [Stmts -> Odbc!StmtStructs \union {NULL}] /\ stmt'[s] = p
      /\ \A d \in Stmts \ {s} : stmt'[d] = stmt[d]
  BY DEF OdbcTypeOK
<1>2. stmt[s].conn \in Conns
  BY OdbcLocks DEF OdbcTypeOK, IsOpen
<1>3. PICK c \in Conns : c = stmt[s].conn
  BY <1>2
<1>4. /\ conn' \in [Conns -> Odbc!LockStructs \union {NULL}] /\ IsOpen(conn'[c])
      /\ \A d \in Conns \ {c} : conn'[d] = conn[d]
      /\ StmtLevel' /\ ConnLevel' /\ mysqls' = mysqls \ {s}
      /\ \A d \in Conns : d \in registry' <=> Locked(conn'[d])
      /\ \A x : x \notin Conns => (x \in registry' <=> x \in registry \ {})
  BY <1>1, <1>3, OdbcStmtShut
<1>5. CursLevel'
  <2>1. CursOf(s) = {}
    BY UnlockedIsEmpty DEF IsOpen
  <2>2. QED
    BY <1>1, <2>1, CursLevelKept
<1>6. OdbcTypeOK'
  BY <1>1, <1>4 DEF OdbcTypeOK
<1>7. OdbcRefsInv'
  BY <1>1, <1>4 DEF OdbcRefsInv, IsOpen
<1>8. OdbcRegistry'
  <2>1. ~Locked(stmt'[s])
    BY <1>1 DEF Locked
  <2>2. QED
    BY <1>1, <1>4, <2>1, OdbcDisjoint DEF OdbcRegistry
<1>9. OdbcHandles'
  <2>1. IsOpen(conn[c])
    BY <1>3 DEF StmtLevel
  <2>2. QED
    BY <1>1, <1>4, <2>1, OdbcDisjoint DEF OdbcHandles
<1>10. QED
  BY <1>4, <1>5, <1>6, <1>7, <1>8, <1>9

LEMMA OdbcStmtEndKeeps ==
  ASSUME OdbcGood, NEW s \in Stmts, Odbc!StmtClose(s) \/ Odbc!StmtGc(s)
  PROVE  OdbcGood'
<1> USE DEF OdbcGood, OdbcSound, Clean
<1>1. CASE Odbc!StmtClose(s)
  <2> DEFINE p == Odbc!Shutdown(stmt[s])
  <2>1. /\ IsOpen(stmt[s]) /\ stmt[s].lock = 0 /\ Odbc!StmtShut(s, {})
        /\ stmt' = [stmt EXCEPT ![s] = p]
        /\ UNCHANGED <<env, cur, refs, misused, spoilt>>
    BY <1>1 DEF Odbc!StmtClose, OdbcRefsInv, IsOpen
  <2>2. stmt[s] \in Odbc!StmtStructs
    BY <2>1 DEF OdbcTypeOK, IsOpen
  <2>3. p \in Odbc!StmtStructs /\ p.closed /\ p.lock = 0
    BY <2>1, <2>2, OdbcLocks
  <2>4. p # NULL
    BY <2>3, OdbcStructs
  <2> HIDE DEF p
  <2>5. ~IsOpen(p) /\ ~Locked(stmt[s])
    BY <2>1, <2>3 DEF IsOpen, Locked
  <2>6. QED
    BY <2>1, <2>3, <2>4, <2>5, OdbcStmtEnds
<1>2. CASE Odbc!StmtGc(s)
  <2>1. /\ stmt[s] # NULL /\ s \notin refs /\ ~Locked(stmt[s])
        /\ stmt' = [stmt EXCEPT ![s] = NULL]
        /\ UNCHANGED <<env, cur, refs, misused, spoilt>>
    BY <1>2 DEF Odbc!StmtGc, Odbc!Collectable, OdbcRegistry
  <2>2. stmt[s].lock = 0
    BY <2>1, UnlockedIsEmpty
  <2>3. CASE IsOpen(stmt[s])
    <3>1. Odbc!StmtShut(s, {})
      BY <1>2, <2>2, <2>3 DEF Odbc!StmtGc, IsOpen
    <3>2. ~IsOpen(NULL)
      BY DEF IsOpen
    <3>3. QED
      BY <2>1, <2>3, <3>1, <3>2, OdbcStmtEnds
  <2>4. CASE ~IsOpen(stmt[s])
    <3>1. UNCHANGED <<conn, registry, mysqls>>
      BY <1>2, <2>1, <2>4 DEF Odbc!StmtGc, IsOpen
    <3>2. QED
      BY <2>1, <2>4, <3>1, OdbcGone
  <2>5. QED
    BY <2>3, <2>4
<1>3. QED
  BY <1>1, <1>2

(* cur_shut of an open cursor, closed or collected.                        *)
LEMMA OdbcCurEnds ==
  ASSUME OdbcGood, NEW k \in Curs, IsOpen(cur[k]), Odbc!CurShut(k),
         NEW struct \in Odbc!CurStructs \union {NULL}, cur' = [cur EXCEPT ![k] = struct],
         ~IsOpen(struct), k \in refs => struct # NULL,
         UNCHANGED <<env, refs, misused>>
  PROVE  OdbcGood'
<1> USE DEF OdbcGood, OdbcSound, Clean
<1>1. cur' \in [Curs -> Odbc!CurStructs \union {NULL}] /\ cur'[k] = struct
      /\ \A j \in Curs \ {k} : cur'[j] = cur[j]
  BY DEF OdbcTypeOK
<1>2. cur[k].stmt \in Stmts
  BY DEF OdbcTypeOK, Odbc!CurStructs, IsOpen
<1>3. PICK s \in Stmts : s = cur[k].stmt
  BY <1>2
<1>4. IsOpen(stmt[s]) /\ stmt[s] \in Odbc!StmtStructs /\ stmt[s].lock \in Int
  BY <1>3, OdbcLocks DEF CursLevel, OdbcTypeOK, IsOpen
<1>5. stmt[s].lock >= 1 /\ Locked(stmt[s])
  <2>1. k \in CursOf(s)
    BY <1>3 DEF CursOf
  <2>2. Cardinality(CursOf(s)) \in Nat /\ Cardinality(CursOf(s)) # 0
    BY <2>1, FiniteBelow
  <2>3. stmt[s].lock >= Cardinality(CursOf(s))
    BY <1>4 DEF CursLevel, Counted, IsOpen
  <2>4. QED
    BY <1>4, <2>2, <2>3 DEF Locked, IsOpen
<1>6. CASE /\ spoilt' = spoilt \union {"cursor"}
           /\ UNCHANGED <<conn, stmt, registry, mysqls>>
  <2>1. ~Clean'
    BY <1>6
  <2>2. CursLevel'
    BY <1>1, <1>3, <1>4, <1>6, <2>1, CursLevelLess DEF IsOpen
  <2>3. StmtLevel'
    BY <1>6, <2>1, StmtLevelKept
  <2>4. ConnLevel'
    BY <1>6, <2>1, ConnLevelKept
  <2>5. OdbcTypeOK' /\ OdbcRefsInv'
    BY <1>1, <1>6 DEF OdbcTypeOK, OdbcRefsInv
  <2>6. OdbcRegistry' /\ OdbcHandles'
    BY <1>6, <2>1 DEF OdbcRegistry, OdbcHandles, Locked
  <2>7. QED
    BY <2>2, <2>3, <2>4, <2>5, <2>6
<1> DEFINE p == Odbc!Unlock(stmt[s])
<1> DEFINE q == Odbc!Shutdown(Odbc!Unlock(stmt[s]))
<1>7. /\ p \in Odbc!StmtStructs /\ p.closed = stmt[s].closed
      /\ p.lock = stmt[s].lock - 1 /\ p.conn = stmt[s].conn
  BY <1>4, OdbcLocks
<1>8. q \in Odbc!StmtStructs /\ q.closed /\ q.lock = stmt[s].lock - 1
  BY <1>7, OdbcLocks
<1>9. p # NULL /\ q # NULL
  BY <1>7, <1>8, OdbcStructs
<1>10. CASE /\ Odbc!StmtShut(s, {s}) /\ stmt[s].lock = 1
            /\ stmt' = [stmt EXCEPT ![s] = Odbc!Shutdown(Odbc!Unlock(@))]
            /\ UNCHANGED spoilt
  <2>1. stmt' = [stmt EXCEPT ![s] = q]
    BY <1>10
  <2> HIDE DEF p, q
  <2>2. stmt' \in [Stmts -> Odbc!StmtStructs \union {NULL}] /\ stmt'[s] = q
        /\ \A d \in Stmts \ {s} : stmt'[d] = stmt[d]
    BY <1>8, <2>1 DEF OdbcTypeOK
  <2>3. ~IsOpen(stmt'[s]) /\ stmt'[s].lock = 0 /\ ~Locked(stmt'[s])
    <3>1. stmt[s].lock = 1
      BY <1>10
    <3>2. q.lock = 0 /\ q.closed
      BY <1>8, <3>1
    <3>3. QED
      BY <2>2, <3>2 DEF IsOpen, Locked
  <2>4. stmt[s].conn \in Conns
    BY <1>4, OdbcLocks
  <2>5. PICK c \in Conns : c = stmt[s].conn
    BY <2>4
  <2>6. /\ conn' \in [Conns -> Odbc!LockStructs \union {NULL}] /\ IsOpen(conn'[c])
        /\ \A d \in Conns \ {c} : conn'[d] = conn[d]
        /\ StmtLevel' /\ ConnLevel' /\ mysqls' = mysqls \ {s}
        /\ \A d \in Conns : d \in registry' <=> Locked(conn'[d])
        /\ \A x : x \notin Conns => (x \in registry' <=> x \in registry \ {s})
    <3>1. Odbc!StmtShut(s, {s}) /\ UNCHANGED <<env, spoilt>> /\ {s} \subseteq {s}
      BY <1>10
    <3>2. IsOpen(stmt[s]) /\ ~IsOpen(stmt'[s]) /\ \A d \in Stmts \ {s} : stmt'[d] = stmt[d]
      BY <1>4, <2>2, <2>3
    <3>3. QED
      BY <2>5, <3>1, <3>2, OdbcStmtShut
  <2>7. CursLevel'
    <3>1. stmt'[s].lock = stmt[s].lock - 1 /\ stmt'[s] # NULL
      BY <1>8, <1>9, <2>2
    <3>2. QED
      BY <1>1, <1>3, <1>10, <2>2, <2>3, <3>1, CursLevelLess
  <2>8. OdbcTypeOK'
    BY <1>1, <2>2, <2>6 DEF OdbcTypeOK
  <2>9. OdbcRefsInv'
    BY <1>1, <1>9, <2>2, <2>6 DEF OdbcRefsInv, IsOpen
  <2>10. OdbcRegistry'
    BY <2>2, <2>3, <2>6, OdbcDisjoint DEF OdbcRegistry
  <2>11. OdbcHandles'
    <3>1. IsOpen(conn[c])
      BY <1>4, <2>5 DEF StmtLevel
    <3>2. QED
      BY <1>10, <2>2, <2>3, <2>6, <3>1, OdbcDisjoint DEF OdbcHandles
  <2>12. QED
    BY <2>6, <2>7, <2>8, <2>9, <2>10, <2>11
<1>11. CASE /\ stmt' = [stmt EXCEPT ![s] = Odbc!Unlock(@)]
            /\ registry' = registry \ Odbc!Unregister(stmt[s], s)
            /\ UNCHANGED <<conn, mysqls, spoilt>>
  <2>1. stmt' = [stmt EXCEPT ![s] = p]
    BY <1>11
  <2> HIDE DEF p, q
  <2>2. stmt' \in [Stmts -> Odbc!StmtStructs \union {NULL}] /\ stmt'[s] = p
        /\ \A d \in Stmts \ {s} : stmt'[d] = stmt[d]
    BY <1>7, <2>1 DEF OdbcTypeOK
  <2>3. IsOpen(stmt'[s])
    BY <1>4, <1>7, <1>9, <2>2 DEF IsOpen
  <2>4. CursLevel'
    <3>1. stmt'[s].lock = stmt[s].lock - 1 /\ stmt'[s] # NULL
      BY <1>7, <1>9, <2>2
    <3>2. QED
      BY <1>1, <1>3, <1>11, <2>2, <2>3, <3>1, CursLevelLess
  <2>5. \A d \in Stmts : /\ IsOpen(stmt'[d]) <=> IsOpen(stmt[d])
                         /\ IsOpen(stmt[d]) => stmt'[d].conn = stmt[d].conn
    BY <1>4, <1>7, <2>2, <2>3
  <2>6. StmtLevel'
    BY <1>11, <2>5, StmtLevelKept
  <2>7. ConnLevel'
    BY <1>11, ConnLevelKept
  <2>8. OdbcTypeOK'
    BY <1>1, <1>11, <2>2 DEF OdbcTypeOK
  <2>9. OdbcRefsInv'
    BY <1>1, <1>9, <1>11, <2>2 DEF OdbcRefsInv
  <2>10. OdbcRegistry'
    <3>1. s \in registry
      BY <1>5 DEF OdbcRegistry
    <3>2. s \in registry' <=> stmt[s].lock # 1
      BY <1>11, <3>1 DEF Odbc!Unregister
    <3>3. Locked(stmt'[s]) <=> stmt[s].lock # 1
      BY <1>4, <1>5, <1>7, <1>9, <2>2 DEF Locked
    <3>4. \A x : x # s => (x \in registry' <=> x \in registry)
      BY <1>11 DEF Odbc!Unregister
    <3>5. QED
      BY <1>11, <2>2, <3>2, <3>3, <3>4, OdbcDisjoint DEF OdbcRegistry
  <2>11. OdbcHandles'
    BY <1>11, <2>5 DEF OdbcHandles
  <2>12. QED
    BY <2>4, <2>6, <2>7, <2>8, <2>9, <2>10, <2>11
<1>12. QED
  BY <1>3, <1>6, <1>10, <1>11 DEF Odbc!CurShut

LEMMA OdbcTouch ==
  ASSUME OdbcGood, NEW k \in Curs, IsOpen(cur[k])
  PROVE  Odbc!Touch(k) = {}
<1>1. cur[k].stmt \in Stmts
  BY DEF OdbcGood, OdbcSound, OdbcTypeOK, Odbc!CurStructs, IsOpen
<1>2. IsOpen(stmt[cur[k].stmt]) /\ cur[k].stmt \in mysqls
  BY <1>1 DEF OdbcGood, OdbcSound, CursLevel, StmtLevel
<1>3. QED
  BY <1>2 DEF Odbc!Touch, IsOpen

LEMMA OdbcCursorKeeps ==
  ASSUME OdbcGood, NEW k \in Curs,
         Odbc!CurFetch(k) \/ Odbc!CurClose(k) \/ Odbc!CurGc(k)
  PROVE  OdbcGood'
<1> USE DEF OdbcGood, OdbcSound, Clean
<1>1. cur[k] # NULL
  BY DEF Odbc!CurFetch, Odbc!CurClose, Odbc!CurGc, Odbc!CursorUsable, OdbcRefsInv
<1>2. CASE Odbc!CurFetch(k)
  <2>1. IsOpen(cur[k])
    BY <1>1, <1>2 DEF Odbc!CurFetch, Odbc!CursorUsable, IsOpen
  <2>2. misused' = {}
    BY <1>2, <2>1, OdbcTouch DEF Odbc!CurFetch
  <2>3. QED
    BY <1>2, <2>2, OdbcCallKeeps DEF Odbc!CurFetch
<1>3. CASE Odbc!CurClose(k)
  <2> DEFINE closed == [cur[k] EXCEPT !.closed = TRUE]
  <2>1. IsOpen(cur[k]) /\ cur' = [cur EXCEPT ![k] = closed] /\ Odbc!Shut(k)
    BY <1>1, <1>3 DEF Odbc!CurClose, Odbc!CursorUsable, IsOpen
  <2>2. cur[k] \in Odbc!CurStructs
    BY <1>1 DEF OdbcTypeOK
  <2>3. closed \in Odbc!CurStructs /\ closed.closed
    BY <2>2 DEF Odbc!CurStructs
  <2>4. closed # NULL /\ ~IsOpen(closed)
    BY <2>3, OdbcStructs DEF IsOpen
  <2>5. Odbc!CurShut(k) /\ UNCHANGED <<env, refs, misused>>
    BY <2>1, OdbcTouch DEF Odbc!Shut
  <2> HIDE DEF closed
  <2>6. QED
    BY <2>1, <2>3, <2>4, <2>5, OdbcCurEnds
<1>4. CASE Odbc!CurGc(k)
  <2>1. /\ k \notin refs /\ cur' = [cur EXCEPT ![k] = NULL] /\ ~IsOpen(NULL)
    BY <1>4 DEF Odbc!CurGc, IsOpen
  <2>2. CASE IsOpen(cur[k])
    <3>1. Odbc!Shut(k)
      BY <1>4, <2>2 DEF Odbc!CurGc, IsOpen
    <3>2. Odbc!CurShut(k) /\ UNCHANGED <<env, refs, misused>>
      BY <2>2, <3>1, OdbcTouch DEF Odbc!Shut
    <3>3. QED
      BY <2>1, <2>2, <3>2, OdbcCurEnds
  <2>3. CASE ~IsOpen(cur[k])
    <3>1. UNCHANGED <<env, conn, stmt, refs, registry, mysqls, misused, spoilt>>
      BY <1>1, <1>4, <2>3 DEF Odbc!CurGc, IsOpen
    <3>2. QED
      BY <2>1, <2>3, <3>1, OdbcGone
  <2>4. QED
    BY <2>2, <2>3
<1>5. QED
  BY <1>2, <1>3, <1>4

(* conn_shut of an open connection: it has no open statement.              *)
LEMMA OdbcConnEnds ==
  ASSUME OdbcGood, NEW c \in Conns, IsOpen(conn[c]), ~Locked(conn[c]), Odbc!ConnShut(c),
         NEW struct \in Odbc!LockStructs \union {NULL}, conn' = [conn EXCEPT ![c] = struct],
         ~IsOpen(struct), struct # NULL => struct.lock = 0, c \in refs => struct # NULL,
         UNCHANGED <<stmt, cur, refs, misused>>
  PROVE  OdbcGood'
<1> USE DEF OdbcGood, OdbcSound, Clean
<1>1. /\ env' = Odbc!Unlock(env) /\ registry' = registry \ Odbc!Unregister(env, Env)
      /\ \/ mysqls' = mysqls \ {c} /\ spoilt' = spoilt
         \/ ~Clean' /\ mysqls' = mysqls
  BY DEF Odbc!ConnShut
<1>2. conn' \in [Conns -> Odbc!LockStructs \union {NULL}] /\ conn'[c] = struct
      /\ \A d \in Conns \ {c} : conn'[d] = conn[d]
  BY DEF OdbcTypeOK
<1>3. env # NULL /\ env \in Odbc!LockStructs /\ env.lock \in Int
  BY OdbcLocks DEF ConnLevel, OdbcTypeOK
<1>4. env' \in Odbc!LockStructs /\ env'.closed = env.closed /\ env'.lock = env.lock - 1
  BY <1>1, <1>3, OdbcLocks
<1>5. env' # NULL
  BY <1>4, OdbcStructs
<1>6. env.lock >= 1
  <2>1. c \in ConnsOpen
    BY DEF ConnsOpen
  <2>2. Cardinality(ConnsOpen) \in Nat /\ Cardinality(ConnsOpen) # 0
    BY <2>1, FiniteBelow
  <2>3. env.lock >= Cardinality(ConnsOpen)
    BY <1>3 DEF ConnLevel, Counted
  <2>4. QED
    BY <1>3, <2>2, <2>3
<1>7. Clean' => Clean
  BY <1>1
<1>8. CursLevel'
  BY <1>7, CursLevelKept
<1>9. StmtLevel'
  <2>1. StmtsOf(c) = {}
    BY UnlockedIsEmpty DEF IsOpen
  <2>2. \A s \in Stmts : s \in mysqls => s \in mysqls'
    BY <1>1, OdbcDisjoint
  <2>3. QED
    BY <1>2, <1>7, <2>1, <2>2, StmtLevelKept
<1>10. ConnLevel'
  BY <1>2, <1>4, <1>5, <1>7, ConnLevelLess
<1>11. OdbcTypeOK' /\ OdbcRefsInv'
  BY <1>1, <1>2, <1>4, <1>5 DEF OdbcTypeOK, OdbcRefsInv
<1>12. OdbcRegistry'
  <2>1. Env \in registry
    BY <1>3, <1>6 DEF OdbcRegistry, Locked
  <2>2. Env \in registry' <=> env.lock # 1
    BY <1>1, <2>1 DEF Odbc!Unregister
  <2>3. Locked(env') <=> env.lock # 1
    BY <1>3, <1>4, <1>5, <1>6 DEF Locked
  <2>4. \A x : x # Env => (x \in registry' <=> x \in registry)
    BY <1>1 DEF Odbc!Unregister
  <2>5. ~Locked(conn'[c])
    BY <1>2 DEF Locked
  <2>6. QED
    BY <1>2, <2>2, <2>3, <2>4, <2>5, OdbcDisjoint DEF OdbcRegistry
<1>13. OdbcHandles'
  <2>1. IsOpen(env') <=> IsOpen(env)
    BY <1>3, <1>4, <1>5 DEF IsOpen
  <2>2. QED
    BY <1>1, <1>2, <2>1, OdbcDisjoint DEF OdbcHandles
<1>14. QED
  BY <1>8, <1>9, <1>10, <1>11, <1>12, <1>13

LEMMA OdbcConnEndKeeps ==
  ASSUME OdbcGood, NEW c \in Conns, Odbc!ConnClose(c) \/ Odbc!ConnGc(c)
  PROVE  OdbcGood'
<1> USE DEF OdbcGood, OdbcSound, Clean
<1>1. CASE Odbc!ConnClose(c)
  <2> DEFINE struct == [conn[c] EXCEPT !.closed = TRUE]
  <2>1. /\ IsOpen(conn[c]) /\ conn[c].lock = 0 /\ Odbc!ConnShut(c)
        /\ conn' = [conn EXCEPT ![c] = struct]
        /\ UNCHANGED <<stmt, cur, refs, misused>>
    BY <1>1 DEF Odbc!ConnClose, Odbc!Usable, OdbcRefsInv, IsOpen
  <2>2. conn[c] \in Odbc!LockStructs
    BY <2>1 DEF OdbcTypeOK, IsOpen
  <2>3. struct \in Odbc!LockStructs /\ struct.closed /\ struct.lock = 0
    BY <2>1, <2>2 DEF Odbc!LockStructs
  <2>4. struct # NULL
    BY <2>3, OdbcStructs
  <2> HIDE DEF struct
  <2>5. ~IsOpen(struct) /\ ~Locked(conn[c])
    BY <2>1, <2>3 DEF IsOpen, Locked
  <2>6. QED
    BY <2>1, <2>3, <2>4, <2>5, OdbcConnEnds
<1>2. CASE Odbc!ConnGc(c)
  <2>1. /\ conn[c] # NULL /\ c \notin refs /\ ~Locked(conn[c])
        /\ conn' = [conn EXCEPT ![c] = NULL]
        /\ UNCHANGED <<stmt, cur, refs, misused>> /\ ~IsOpen(NULL)
    BY <1>2 DEF Odbc!ConnGc, Odbc!Collectable, OdbcRegistry, IsOpen
  <2>2. CASE IsOpen(conn[c])
    <3>1. Odbc!ConnShut(c)
      BY <1>2, <2>2 DEF Odbc!ConnGc, IsOpen
    <3>2. QED
      BY <2>1, <2>2, <3>1, OdbcConnEnds
  <2>3. CASE ~IsOpen(conn[c])
    <3>1. UNCHANGED <<env, registry, mysqls, spoilt>>
      BY <1>2, <2>1, <2>3 DEF Odbc!ConnGc, IsOpen
    <3>2. QED
      BY <2>1, <2>3, <3>1, OdbcGone
  <2>4. QED
    BY <2>2, <2>3
<1>3. QED
  BY <1>1, <1>2

(* The calls of a connection, unless they are what leads astray.           *)
LEMMA OdbcMakeKeeps ==
  ASSUME OdbcGood, NEW c \in Conns, NEW s \in Stmts, ~Odbc!Astray',
         Odbc!ConnPrepare(c, s) \/ Odbc!ConnExecute(c, s)
  PROVE  OdbcGood'
<1> USE DEF OdbcGood, OdbcSound, Clean
<1>1. /\ IsOpen(conn[c]) /\ stmt[s] = NULL /\ UNCHANGED <<env, misused>>
  BY DEF Odbc!ConnPrepare, Odbc!ConnExecute, Odbc!Usable, Odbc!CanMake, OdbcRefsInv, IsOpen
<1>2. CASE Odbc!ConnPrepare(c, s)
  <2>1. /\ conn' = [conn EXCEPT ![c] = Odbc!Lock(@)] /\ mysqls' = mysqls \union {s}
        /\ stmt' = [stmt EXCEPT ![s] = Odbc!Prepared(c, FALSE, 0)]
        /\ registry' = registry \union {c} /\ cur' = cur
        /\ refs' \subseteq refs \union {s} /\ spoilt' = spoilt
    BY <1>2 DEF Odbc!ConnPrepare
  <2>2. QED
    BY <1>1, <2>1, OdbcStmtOpens
<1>3. CASE Odbc!ConnExecute(c, s)
  <2>1. CASE "columns" \in spoilt'
    BY <2>1 DEF Odbc!Astray
  <2>2. CASE /\ stmt' = [stmt EXCEPT ![s] = Odbc!Prepared(c, TRUE, 0)]
             /\ registry' = registry \union {c}
             /\ conn' = [conn EXCEPT ![c] = Odbc!Lock(@)]
             /\ mysqls' = mysqls \union {s}
             /\ UNCHANGED <<cur, refs, spoilt>>
    BY <1>1, <2>2, OdbcStmtOpens
  <2>3. CASE \E k \in Curs :
               /\ Odbc!Created(k, s)
               /\ stmt' = [stmt EXCEPT ![s] = Odbc!Prepared(c, TRUE, 1)]
               /\ registry' = registry \union {c, s}
               /\ refs' = refs \union {k}
               /\ conn' = [conn EXCEPT ![c] = Odbc!Lock(@)]
               /\ mysqls' = mysqls \union {s}
               /\ UNCHANGED spoilt
    BY <1>1, <2>3, OdbcStmtOpens
  <2>4. QED
    BY <1>3, <2>1, <2>2, <2>3 DEF Odbc!ConnExecute
<1>4. QED
  BY <1>2, <1>3

(* The buffers that a statement is bound to change, and no object does.    *)
LEMMA OdbcRebinds ==
  ASSUME OdbcGood, NEW s \in Stmts, IsOpen(stmt[s]), NEW b \in Odbc!Bindings,
         stmt' = [stmt EXCEPT ![s].bound = b],
         UNCHANGED <<env, conn, cur, refs, registry, mysqls>>,
         spoilt' \in {spoilt, spoilt \union {"rebound"}}
  PROVE  OdbcSound'
<1> USE DEF OdbcGood, OdbcSound
<1> DEFINE p == [stmt[s] EXCEPT !.bound = b]
<1>1. stmt[s] \in Odbc!StmtStructs
  BY DEF OdbcTypeOK, IsOpen
<1>2. /\ p \in Odbc!StmtStructs /\ p.closed = stmt[s].closed /\ p.lock = stmt[s].lock
      /\ p.conn = stmt[s].conn
  BY <1>1 DEF Odbc!StmtStructs
<1>3. p # NULL /\ stmt' = [stmt EXCEPT ![s] = p]
  BY <1>2, OdbcStructs
<1> HIDE DEF p
<1>4. stmt' \in [Stmts -> Odbc!StmtStructs \union {NULL}] /\ stmt'[s] = p
      /\ \A d \in Stmts \ {s} : stmt'[d] = stmt[d]
  BY <1>2, <1>3 DEF OdbcTypeOK
<1>5. \A d \in Stmts : /\ IsOpen(stmt'[d]) <=> IsOpen(stmt[d])
                       /\ stmt'[d] # NULL <=> stmt[d] # NULL
                       /\ stmt'[d].lock = stmt[d].lock /\ stmt'[d].conn = stmt[d].conn
  BY <1>2, <1>3, <1>4 DEF IsOpen
<1>6. Clean' <=> Clean
  BY DEF Clean
<1>7. OdbcTypeOK' /\ OdbcRefsInv'
  BY <1>4, <1>5 DEF OdbcTypeOK, OdbcRefsInv
<1>8. CursLevel'
  <2>1. \A d : CursOf(d)' = CursOf(d)
    BY DEF CursOf
  <2>2. \A k \in Curs : IsOpen(cur[k]) => cur[k].stmt \in Stmts
    BY DEF OdbcTypeOK, Odbc!CurStructs, IsOpen
  <2>3. \A k \in Curs : IsOpen(cur'[k]) => IsOpen(stmt'[cur'[k].stmt])
    BY <1>5, <2>2 DEF CursLevel
  <2>4. \A d \in Stmts : Counted(stmt[d], CursOf(d))'
    BY <1>5, <1>6, <2>1 DEF CursLevel, Counted
  <2>5. QED
    BY <2>3, <2>4 DEF CursLevel
<1>9. StmtLevel'
  BY <1>5, <1>6, StmtLevelKept
<1>10. ConnLevel'
  BY <1>6, ConnLevelKept
<1>11. OdbcRegistry' /\ OdbcHandles'
  BY <1>5, <1>6 DEF OdbcRegistry, OdbcHandles, Locked
<1>12. QED
  BY <1>7, <1>8, <1>9, <1>10, <1>11

LEMMA OdbcExecuteKeeps ==
  ASSUME OdbcGood, NEW s \in Stmts, NEW params \in BOOLEAN, ~Odbc!Astray',
         Odbc!StmtExecute(s, params)
  PROVE  OdbcSound'
<1>1. IsOpen(stmt[s]) /\ stmt[s].bound \in Odbc!Bindings
  BY DEF Odbc!StmtExecute, OdbcGood, OdbcSound, OdbcRefsInv, OdbcTypeOK, Odbc!StmtStructs,
     IsOpen
<1>2. PICK b \in Odbc!Bindings :
        \/ /\ stmt' = [stmt EXCEPT ![s].bound = b]
           /\ UNCHANGED <<cur, refs, registry, spoilt>>
        \/ /\ stmt[s].lock = 0
           /\ \E k \in Curs, described \in BOOLEAN :
                /\ Odbc!Created(k, s)
                /\ refs' = IF described THEN refs \union {k} ELSE refs
           /\ stmt' = [stmt EXCEPT ![s] = [Odbc!Lock(@) EXCEPT !.bound = b]]
           /\ IF params THEN spoilt' = spoilt \union {"parameter"} /\ UNCHANGED registry
              ELSE registry' = registry \union {s} /\ UNCHANGED spoilt
  <2>1. {"none", "live"} \subseteq Odbc!Bindings
    BY DEF Odbc!Bindings
  <2>2. QED
    BY <1>1, <2>1 DEF Odbc!StmtExecute
<1>3. UNCHANGED <<env, conn, mysqls>>
  BY DEF Odbc!StmtExecute
<1>4. CASE /\ stmt' = [stmt EXCEPT ![s].bound = b]
           /\ UNCHANGED <<cur, refs, registry, spoilt>>
  BY <1>1, <1>3, <1>4, OdbcRebinds
<1>5. CASE "parameter" \in spoilt'
  BY <1>5 DEF Odbc!Astray
<1>6. CASE /\ stmt[s].lock = 0
           /\ \E k \in Curs, described \in BOOLEAN :
                /\ Odbc!Created(k, s)
                /\ refs' = IF described THEN refs \union {k} ELSE refs
           /\ stmt' = [stmt EXCEPT ![s] = [Odbc!Lock(@) EXCEPT !.bound = b]]
           /\ registry' = registry \union {s} /\ UNCHANGED spoilt
  <2>1. \E k \in Curs : Odbc!Created(k, s) /\ refs' \subseteq refs \union {k}
    BY <1>6
  <2> DEFINE l == Odbc!Lock(stmt[s])
             p == [l EXCEPT !.bound = b]
  <2>2. /\ l \in Odbc!StmtStructs /\ ~l.closed /\ l.lock = 1 /\ l.conn = stmt[s].conn
    BY <1>1, <1>6, OdbcLocks DEF OdbcGood, OdbcSound, OdbcTypeOK, IsOpen
  <2>3. stmt' = [stmt EXCEPT ![s] = p]
    BY <1>6
  <2> HIDE DEF l
  <2>4. p \in Odbc!StmtStructs /\ ~p.closed /\ p.lock = 1 /\ p.conn = stmt[s].conn
    BY <2>2 DEF Odbc!StmtStructs
  <2> HIDE DEF p
  <2>5. QED
    BY <1>1, <1>3, <1>6, <2>1, <2>3, <2>4, OdbcCursorOpens
<1>7. QED
  BY <1>2, <1>4, <1>5, <1>6

LEMMA OdbcBindFailsKeeps ==
  ASSUME OdbcGood, NEW s \in Stmts, Odbc!BindFails(s)
  PROVE  OdbcGood'
<1>1. IsOpen(stmt[s]) /\ stmt[s].bound \in Odbc!Bindings
  BY DEF Odbc!BindFails, OdbcGood, OdbcSound, OdbcRefsInv, OdbcTypeOK, Odbc!StmtStructs, IsOpen
<1>2. Odbc!PartlyBound(s) \subseteq Odbc!Bindings
  BY DEF Odbc!PartlyBound, Odbc!Bindings
<1>3. PICK b \in Odbc!Bindings : stmt' = [stmt EXCEPT ![s].bound = b]
  BY <1>2 DEF Odbc!BindFails
<1>4. /\ UNCHANGED <<env, conn, cur, refs, registry, mysqls, misused>>
      /\ spoilt' \in {spoilt, spoilt \union {"rebound"}}
  BY DEF Odbc!BindFails
<1>5. QED
  BY <1>1, <1>3, <1>4, OdbcRebinds DEF OdbcGood

(* What went wrong is not made up for.                                     *)
LEMMA OdbcSpoils ==
  ASSUME Odbc!Next \/ UNCHANGED Odbc!vars
  PROVE  spoilt \subseteq spoilt'
BY DEF Odbc!Next, Odbc!vars, Odbc!CreateEnvironment, Odbc!EnvClose, Odbc!EnvGc,
   Odbc!EnvConnect, Odbc!ConnClose, Odbc!ConnGc, Odbc!ConnPrepare, Odbc!ConnExecute,
   Odbc!BindFails, Odbc!StmtExecute, Odbc!StmtClose, Odbc!StmtGc, Odbc!CurFetch,
   Odbc!CurClose, Odbc!CurGc, Odbc!Drop, Odbc!ConnShut, Odbc!Shut, Odbc!CurShut

(* One statement changes, and is bound to freed buffers only if it was     *)
(* before.                                                                 *)
LEMMA OdbcBoundOne ==
  ASSUME OdbcTypeOK, OdbcBound, spoilt \subseteq spoilt', NEW s \in Stmts,
         NEW p, stmt' = [stmt EXCEPT ![s] = p],
         p # NULL /\ p.bound = "freed" =>
           "rebound" \in spoilt' \/ (stmt[s] # NULL /\ stmt[s].bound = "freed")
  PROVE  OdbcBound'
<1>1. stmt'[s] = p /\ \A d \in Stmts \ {s} : stmt'[d] = stmt[d]
  BY DEF OdbcTypeOK
<1>2. ASSUME NEW d \in Stmts, stmt'[d] # NULL, stmt'[d].bound = "freed"
      PROVE  "rebound" \in spoilt'
  <2>1. CASE d = s
    BY <1>1, <1>2, <2>1 DEF OdbcBound
  <2>2. CASE d # s
    BY <1>1, <1>2, <2>2 DEF OdbcBound
  <2>3. QED
    BY <2>1, <2>2
<1>3. QED
  BY <1>2 DEF OdbcBound

LEMMA OdbcBoundKept ==
  ASSUME OdbcGood, OdbcBound, Odbc!Next
  PROVE  OdbcBound'
<1> USE DEF OdbcGood, OdbcSound
<1>1. spoilt \subseteq spoilt'
  BY OdbcSpoils
<1>2. CASE UNCHANGED stmt
  BY <1>1, <1>2 DEF OdbcBound
<1>3. ASSUME NEW c \in Conns, NEW s \in Stmts,
             Odbc!ConnPrepare(c, s) \/ Odbc!ConnExecute(c, s)
      PROVE  OdbcBound'
  <2>1. \E hidden \in BOOLEAN, n \in {0, 1} :
          LET p == Odbc!Prepared(c, hidden, n)
          IN  stmt' \in {[stmt EXCEPT ![s] = p],
                         [stmt EXCEPT ![s] = [p EXCEPT !.closed = TRUE]]}
    BY <1>3 DEF Odbc!ConnPrepare, Odbc!ConnExecute
  <2>2. PICK hidden \in BOOLEAN, n \in {0, 1} :
          stmt' \in {[stmt EXCEPT ![s] = Odbc!Prepared(c, hidden, n)],
                     [stmt EXCEPT ![s] = [Odbc!Prepared(c, hidden, n) EXCEPT !.closed = TRUE]]}
    BY <2>1
  <2> DEFINE p == Odbc!Prepared(c, hidden, n)
             q == [p EXCEPT !.closed = TRUE]
  <2>3. p.bound = "none" /\ q.bound = "none"
    BY DEF Odbc!Prepared
  <2>4. stmt' = [stmt EXCEPT ![s] = p] \/ stmt' = [stmt EXCEPT ![s] = q]
    BY <2>2
  <2> HIDE DEF p, q
  <2>5. QED
    BY <1>1, <2>3, <2>4, OdbcBoundOne
<1>4. ASSUME NEW s \in Stmts, Odbc!BindFails(s)
      PROVE  OdbcBound'
  <2>1. PICK b \in Odbc!PartlyBound(s) : stmt' = [stmt EXCEPT ![s].bound = b]
    BY <1>4 DEF Odbc!BindFails
  <2>2. stmt[s] \in Odbc!StmtStructs
    BY <1>4 DEF Odbc!BindFails, OdbcRefsInv, OdbcTypeOK
  <2> DEFINE p == [stmt[s] EXCEPT !.bound = b]
  <2>3. p.bound = b /\ stmt' = [stmt EXCEPT ![s] = p]
    BY <2>1, <2>2 DEF Odbc!StmtStructs
  <2>4. b = "freed" => "rebound" \in spoilt'
    BY <1>4 DEF Odbc!BindFails, Odbc!PartlyBound
  <2> HIDE DEF p
  <2>5. QED
    BY <1>1, <2>3, <2>4, OdbcBoundOne
<1>5. ASSUME NEW s \in Stmts, NEW params \in BOOLEAN, Odbc!StmtExecute(s, params)
      PROVE  OdbcBound'
  <2>1. PICK b \in IF params THEN {"none", "live"} ELSE {stmt[s].bound} :
          stmt' \in {[stmt EXCEPT ![s].bound = b],
                     [stmt EXCEPT ![s] = [Odbc!Lock(@) EXCEPT !.bound = b]]}
    BY <1>5 DEF Odbc!StmtExecute
  <2>2. stmt[s] \in Odbc!StmtStructs /\ stmt[s] # NULL
    BY <1>5 DEF Odbc!StmtExecute, OdbcRefsInv, OdbcTypeOK
  <2> DEFINE p == [stmt[s] EXCEPT !.bound = b]
             l == Odbc!Lock(stmt[s])
             q == [l EXCEPT !.bound = b]
  <2>3. stmt' = [stmt EXCEPT ![s] = p] \/ stmt' = [stmt EXCEPT ![s] = q]
    BY <2>1
  <2>4. l \in Odbc!StmtStructs
    BY <2>2, OdbcLocks
  <2> HIDE DEF l
  <2>5. p.bound = b /\ q.bound = b
    BY <2>2, <2>4 DEF Odbc!StmtStructs
  <2>6. b = "freed" => stmt[s].bound = "freed"
    BY <2>1
  <2> HIDE DEF p, q
  <2>7. QED
    BY <1>1, <2>2, <2>3, <2>5, <2>6, OdbcBoundOne
<1>6. ASSUME NEW s \in Stmts, Odbc!StmtClose(s) \/ Odbc!StmtGc(s)
      PROVE  OdbcBound'
  <2>1. stmt' \in {[stmt EXCEPT ![s] = Odbc!Shutdown(@)], [stmt EXCEPT ![s] = NULL]}
        /\ stmt[s] \in Odbc!StmtStructs
    BY <1>6 DEF Odbc!StmtClose, Odbc!StmtGc, OdbcRefsInv, OdbcTypeOK
  <2> DEFINE p == Odbc!Shutdown(stmt[s])
  <2>2. p.bound = "none" /\ (stmt' = [stmt EXCEPT ![s] = p] \/ stmt' = [stmt EXCEPT ![s] = NULL])
    BY <2>1, OdbcLocks
  <2> HIDE DEF p
  <2>3. QED
    BY <1>1, <2>2, OdbcBoundOne
<1>7. ASSUME NEW k \in Curs, Odbc!CurFetch(k) \/ Odbc!CurClose(k) \/ Odbc!CurGc(k)
      PROVE  OdbcBound'
  <2>1. UNCHANGED stmt \/ (IsOpen(cur[k]) /\ Odbc!CurShut(k))
    BY <1>7 DEF Odbc!CurFetch, Odbc!CurClose, Odbc!CurGc, Odbc!CursorUsable, Odbc!Shut,
       OdbcRefsInv, IsOpen
  <2>2. CASE IsOpen(cur[k]) /\ Odbc!CurShut(k)
    <3>1. PICK s \in Stmts : s = cur[k].stmt /\ stmt[s] \in Odbc!StmtStructs /\ stmt[s] # NULL
      BY <2>2 DEF CursLevel, OdbcTypeOK, Odbc!CurStructs, IsOpen
    <3> DEFINE p == Odbc!Unlock(stmt[s])
               q == Odbc!Shutdown(Odbc!Unlock(stmt[s]))
    <3>2. stmt' \in {stmt, [stmt EXCEPT ![s] = p], [stmt EXCEPT ![s] = q]}
      BY <2>2, <3>1 DEF Odbc!CurShut
    <3>3. p.bound = stmt[s].bound /\ q.bound = "none"
      BY <3>1, OdbcLocks
    <3> HIDE DEF p, q
    <3>4. QED
      BY <1>1, <1>2, <3>1, <3>2, <3>3, OdbcBoundOne
  <2>3. QED
    BY <1>2, <2>1, <2>2
<1>8. CASE \/ Odbc!CreateEnvironment \/ Odbc!EnvClose \/ Odbc!EnvGc
           \/ (\E c \in Conns : Odbc!EnvConnect(c) \/ Odbc!ConnClose(c) \/ Odbc!ConnGc(c))
           \/ (\E x \in refs : Odbc!Drop(x))
  BY <1>2, <1>8 DEF Odbc!CreateEnvironment, Odbc!EnvClose, Odbc!EnvGc, Odbc!EnvConnect,
     Odbc!ConnClose, Odbc!ConnGc, Odbc!Drop
<1>9. QED
  BY <1>3, <1>4, <1>5, <1>6, <1>7, <1>8 DEF Odbc!Next

(* An execute reads freed buffers only after one could not bind a          *)
(* parameter.                                                              *)
LEMMA OdbcReadsBound ==
  ASSUME OdbcGood, OdbcBound, NEW s \in Stmts, NEW params \in BOOLEAN, ~Odbc!Astray',
         Odbc!StmtExecute(s, params)
  PROVE  Odbc!OdbcIsSafe'
<1>1. PICK b \in IF params THEN {"none", "live"} ELSE {stmt[s].bound} :
        misused' = misused \union Odbc!ReadParams(s, b)
  BY DEF Odbc!StmtExecute
<1>2. stmt[s] # NULL /\ misused = {}
  BY DEF Odbc!StmtExecute, OdbcGood, OdbcSound, OdbcRefsInv
<1>3. misused' \subseteq {"freed parameter"} /\ (misused' # {} => b = "freed")
  BY <1>1, <1>2 DEF Odbc!ReadParams
<1>4. b = "freed" => stmt[s].bound = "freed"
  BY <1>1
<1>5. misused' # {} => "rebound" \in spoilt
  BY <1>2, <1>3, <1>4 DEF OdbcBound
<1>6. spoilt \subseteq spoilt'
  BY DEF Odbc!StmtExecute
<1>7. QED
  BY <1>3, <1>5, <1>6 DEF Odbc!OdbcIsSafe

LEMMA OdbcInvKept ==
  ASSUME OdbcInv, Odbc!Next \/ UNCHANGED Odbc!vars
  PROVE  OdbcInv'
<1>1. CASE Odbc!Astray
  BY <1>1, OdbcSpoils DEF OdbcInv, Odbc!Astray
<1>2. CASE Odbc!Astray'
  BY <1>2 DEF OdbcInv
<1>3. CASE UNCHANGED Odbc!vars
  <2>1. OdbcSound => OdbcSound'
    BY <1>3, OdbcCallKeeps DEF Odbc!vars
  <2>2. QED
    BY <1>3, <2>1 DEF Odbc!vars, OdbcInv, OdbcBound, Odbc!Astray, Odbc!OdbcIsSafe
<1>4. ASSUME ~Odbc!Astray, ~Odbc!Astray', Odbc!Next
      PROVE  OdbcSound' /\ OdbcBound' /\ Odbc!OdbcIsSafe'
  <2>1. OdbcGood /\ OdbcBound
    BY <1>4 DEF OdbcInv, OdbcGood, Odbc!Next
  <2>2. OdbcBound'
    BY <1>4, <2>1, OdbcBoundKept
  <2>3. ASSUME NEW s \in Stmts, NEW params \in BOOLEAN, Odbc!StmtExecute(s, params)
        PROVE  OdbcSound' /\ Odbc!OdbcIsSafe'
    BY <1>4, <2>1, <2>3, OdbcExecuteKeeps, OdbcReadsBound
  <2>4. ASSUME NEW x \in refs, Odbc!Drop(x)
        PROVE  OdbcGood'
    BY <2>1, <2>4, OdbcCallKeeps DEF Odbc!Drop, OdbcGood
  <2>5. OdbcGood' => OdbcSound' /\ Odbc!OdbcIsSafe'
    BY DEF OdbcGood, Odbc!OdbcIsSafe
  <2>6. OdbcSound' /\ Odbc!OdbcIsSafe'
    BY <1>4, <2>1, <2>3, <2>4, <2>5, OdbcEnvKeeps, OdbcConnectKeeps, OdbcConnEndKeeps,
       OdbcMakeKeeps, OdbcBindFailsKeeps, OdbcStmtEndKeeps, OdbcCursorKeeps
    DEF Odbc!Next
  <2>7. QED
    BY <2>2, <2>6
<1>5. QED
  BY <1>1, <1>2, <1>3, <1>4 DEF OdbcInv

LEMMA OdbcCardinality == \A S : Odbc!Cardinality(S) = Cardinality(S)
BY DEF Odbc!Cardinality, Cardinality

LEMMA OdbcInvOwns == OdbcInv => Odbc!OdbcOwns /\ Odbc!OdbcIsSafe
<1>1. Odbc!Astray => ~Clean
  BY DEF Odbc!Astray, Clean
<1> SUFFICES ASSUME OdbcSound, OdbcBound, Odbc!OdbcIsSafe
             PROVE  Odbc!OdbcOwns
  BY <1>1 DEF OdbcInv, Odbc!OdbcOwns, Odbc!OdbcIsSafe, Clean
<1> USE DEF OdbcSound
<1>2. \A x : Odbc!IsOpen(x) <=> IsOpen(x)
  BY DEF Odbc!IsOpen, IsOpen
<1>3. /\ {c \in Conns : Odbc!IsOpen(conn[c])} = ConnsOpen
      /\ \A c : {s \in Stmts : Odbc!IsOpen(stmt[s]) /\ stmt[s].conn = c} = StmtsOf(c)
      /\ \A s : {k \in Curs : Odbc!IsOpen(cur[k]) /\ cur[k].stmt = s} = CursOf(s)
  BY <1>2 DEF ConnsOpen, StmtsOf, CursOf
<1>4. /\ env # NULL => env.lock >= Odbc!Cardinality(ConnsOpen)
      /\ \A c \in Conns : conn[c] # NULL => conn[c].lock >= Odbc!Cardinality(StmtsOf(c))
      /\ \A s \in Stmts : stmt[s] # NULL => stmt[s].lock >= Odbc!Cardinality(CursOf(s))
  BY OdbcCardinality DEF ConnLevel, StmtLevel, CursLevel, Counted
<1>5. registry = {c \in Conns : conn[c] # NULL /\ conn[c].lock > 0}
        \union {s \in Stmts : stmt[s] # NULL /\ stmt[s].lock > 0}
        \union {e \in {Env} : env # NULL /\ env.lock > 0}
  BY DEF OdbcRegistry, Locked
<1>6. Clean =>
        /\ env # NULL => env.lock = Odbc!Cardinality(ConnsOpen)
        /\ \A c \in Conns : conn[c] # NULL => conn[c].lock = Odbc!Cardinality(StmtsOf(c))
        /\ \A s \in Stmts : stmt[s] # NULL => stmt[s].lock = Odbc!Cardinality(CursOf(s))
  BY OdbcCardinality DEF ConnLevel, StmtLevel, CursLevel, Counted
<1>7. Clean =>
        mysqls = {c \in Conns : Odbc!IsOpen(conn[c])}
          \union {s \in Stmts : Odbc!IsOpen(stmt[s])} \union {e \in {Env} : Odbc!IsOpen(env)}
  BY <1>2 DEF OdbcHandles, OdbcTypeOK
<1>8. QED
  BY <1>3, <1>4, <1>5, <1>6, <1>7 DEF Odbc!OdbcOwns, Clean
-----------------------------------------------------------------------------
(* The four drivers together: a behaviour runs one of them.                *)
DriversInv ==
  /\ library = "sqlite3" => LiteInv
  /\ library = "firebird" => FireSafe
  /\ library = "odbc" => OdbcInv
  /\ library \notin {"sqlite3", "firebird", "odbc"} => SqlInv

LEMMA DriversInit == MCInit => DriversInv
<1> SUFFICES ASSUME MCInit
             PROVE  DriversInv
  OBVIOUS
<1>1. CASE library \in {"sqlite3", "firebird"}
  <2>1. Sqlite!Init
    BY <1>1 DEF MCInit
  <2>2. Firebird!Init
    BY <2>1 DEF MCInit, Sqlite!Init, Firebird!Init
  <2>3. FireSafe
    BY <2>2, FireInit DEF FireInv, FireSafe, Firebird!FirebirdIsSafe
  <2>4. QED
    BY <1>1, <2>1, <2>3, LiteInit DEF DriversInv
<1>2. CASE library \notin {"sqlite3", "firebird"}
  <2>1. SqlInit /\ Odbc!Init
    BY <1>2 DEF MCInit
  <2>2. QED
    BY <1>2, <2>1, SqlInit0, OdbcInit DEF DriversInv
<1>3. QED
  BY <1>1, <1>2

LEMMA DriversStep == DriversInv /\ [MCNext]_vars => DriversInv'
<1> SUFFICES ASSUME DriversInv, [MCNext]_vars
             PROVE  DriversInv'
  OBVIOUS
<1>1. library' = library
  BY DEF MCNext, vars
<1>2. CASE library = "sqlite3"
  <2>1. Sqlite!Next \/ UNCHANGED Sqlite!vars
    BY <1>2 DEF MCNext, vars, DriverNext, MysqlStep, SqliteStep, FirebirdStep, OdbcStep,
       driverVars, sqlVars, Sqlite!vars
  <2>2. QED
    BY <1>1, <1>2, <2>1, LiteStep DEF DriversInv
<1>3. CASE library = "firebird"
  <2>1. Firebird!Next \/ UNCHANGED Firebird!vars
    BY <1>3 DEF MCNext, vars, DriverNext, MysqlStep, SqliteStep, FirebirdStep, OdbcStep,
       driverVars, sqlVars, Firebird!vars
  <2>2. QED
    BY <1>1, <1>3, <2>1, FireStep DEF DriversInv
<1>4. CASE library = "odbc"
  <2>1. Odbc!Next \/ UNCHANGED Odbc!vars
    BY <1>4 DEF MCNext, vars, DriverNext, MysqlStep, SqliteStep, FirebirdStep, OdbcStep,
       driverVars, sqlVars, Odbc!vars
  <2>2. QED
    BY <1>1, <1>4, <2>1, OdbcInvKept DEF DriversInv
<1>5. CASE library \notin {"sqlite3", "firebird", "odbc"}
  <2>1. SqlNext \/ UNCHANGED sqlVars
    BY <1>5 DEF MCNext, vars, DriverNext, MysqlStep, SqliteStep, FirebirdStep, OdbcStep,
       driverVars
  <2>2. QED
    BY <1>1, <1>5, <2>1, SqlStep DEF DriversInv
<1>6. QED
  BY <1>2, <1>3, <1>4, <1>5

(* The invariants of the four drivers hold together: what each object      *)
(* holds, locks and counts follows its open children in every order of     *)
(* calls, lost references and collections.                                 *)
THEOREM DriversInvariance == MCSpec => []DriversInv
<1>1. MCSpec => MCInit /\ [][MCNext]_vars
  BY PTL DEF MCSpec
<1>2. QED
  BY <1>1, DriversInit, DriversStep, PTL

LEMMA DriversInvOwns == DriversInv => HandlesAreOwned /\ FreedIsUntouched
<1> SUFFICES ASSUME DriversInv
             PROVE  HandlesAreOwned /\ FreedIsUntouched
  OBVIOUS
<1>1. CASE library = "sqlite3"
  BY <1>1, LiteInvOwns DEF DriversInv, HandlesAreOwned, FreedIsUntouched
<1>2. CASE library = "firebird"
  BY <1>2, FireInvOwns DEF DriversInv, HandlesAreOwned, FreedIsUntouched
<1>3. CASE library = "odbc"
  BY <1>3, OdbcInvOwns DEF DriversInv, HandlesAreOwned, FreedIsUntouched
<1>4. CASE library \notin {"sqlite3", "firebird", "odbc"}
  BY <1>4 DEF DriversInv, SqlInv, HandlesAreOwned, FreedIsUntouched
<1>5. QED
  BY <1>1, <1>2, <1>3, <1>4

(* Each driver's locks, counts, statements and handles agree with the      *)
(* objects that are open, for any number of connections, statements and    *)
(* cursors: no lock is ever missing, a Firebird statement handle belongs   *)
(* to an open cursor or to nobody, and to an attached database; and until  *)
(* a failure that the driver does not make up for, nothing is left over.   *)
THEOREM HandlesAreOwnedHolds == MCSpec => []HandlesAreOwned
BY DriversInvariance, DriversInvOwns, PTL

(* No order of closing, dropping and collecting makes a driver use what    *)
(* was given back, but for the cases that FreedIsUntouched names: a MySQL  *)
(* library that is ended under open connections, a MySQL cursor that was   *)
(* moved to a next result, a Firebird cursor that could not be named, the  *)
(* buffers of an ODBC statement one of whose parameters could not be       *)
(* bound, and an ODBC statement that was given parameters or whose columns *)
(* could not be described.                                                 *)
THEOREM FreedIsUntouchedHolds == MCSpec => []FreedIsUntouched
BY DriversInvariance, DriversInvOwns, PTL
=============================================================================
