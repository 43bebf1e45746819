---------------------------- MODULE StoragePool ----------------------------
(***************************************************************************)
(* The storage pool: storage_manager/api/api_pool_disk_append.lua,         *)
(* api_pool_disk_remove.lua and data_pool_apply of SM_utils.lua, run by    *)
(* several nginx workers.                                                  *)
(*                                                                         *)
(* Table disk_list says which disks form the pool.  After each change the  *)
(* worker reads the table back and applies it: it unmounts /nfs, mounts    *)
(* every listed disk again and mounts their union (mergerfs) on /nfs.      *)
(* Each of these is a command the worker waits for; nothing excludes       *)
(* another worker meanwhile.  Most results are ignored.  Requests that     *)
(* fail the token check or lack an argument change nothing and are left    *)
(* out.                                                                    *)
(***************************************************************************)
EXTENDS Naturals, FiniteSets, Sequences

CONSTANTS
  Workers,    \* nginx worker processes
  Devs,       \* block devices
  Types,      \* the devtypes requests name
  None,       \* no device; the UUID when blkid reports none
  MaxGen,     \* bound: file systems made on one device
  MaxStuck    \* bound: umounts of /nfs that fail because it is in use

(* A UUID is that of the n-th file system made on a device.                *)
Uuids == [dev : Devs, gen : 1..MaxGen]

ASSUME WorkersAssumption == IsFiniteSet(Workers)
ASSUME TypesAssumption == Types \subseteq {"BLK", "IMG", "VHD"} /\ Types # {}
ASSUME BoundAssumption == MaxGen \in Nat \ {0} /\ MaxStuck \in Nat
ASSUME NoneAssumption == None \notin Devs /\ None \notin Uuids

(* The image file of a UUID, on the disk or, by mistake, on the root file  *)
(* system.                                                                 *)
Images == Uuids \X {"disk", "root"}

Rows == [uuid : Uuids \union {None}, type : Types]

VARIABLES
  rows,       \* disk_list
  attached,   \* devices plugged in
  fs,         \* file systems made on each device so far; 0 if it has none
  img,        \* EC_NAS.img of a UUID: "none", "raw" (no file system yet) or "xfs"
  mounted,    \* UUIDs mounted on /mnt/<uuid>
  loops,      \* images mounted on /mnt/<uuid>_IMG
  nfs,        \* the unions mounted on /nfs, the visible one first
  pc,         \* where each worker is
  req,        \* the locals of its request
  answer,     \* the answer given in the last step, if it gave one
  stuck,      \* history: umounts of /nfs that failed
  tidy,       \* history: workers whose request ran alone and met no failing mount
  disturbed   \* history: devices appended twice at once or replugged meanwhile

devVars == <<attached, fs, img>>
mntVars == <<mounted, loops, nfs, stuck>>
vars == <<rows, attached, fs, img, mounted, loops, nfs, pc, req, answer, stuck, tidy, disturbed>>

AppendSteps == {"umount", "probe", "mkfs", "reprobe", "info", "insert"}
ImageSteps  == {"image", "fallocate", "image_fs", "loop_on"}
MountSteps  == {"disk", "loop_off", "disk_off", "disk_on", "union"} \union ImageSteps
Steps == AppendSteps \union MountSteps \union
         {"delete", "select_append", "select_remove", "check", "umount_nfs"}

Request ==
  [dev    : Devs \union {None},              \* device to append
   uuid   : Uuids \union {None},             \* its UUID, or the UUID to remove
   type   : Types,
   list   : SUBSET Rows,                     \* what SELECT returned
   todo   : SUBSET Rows,                     \* rows the current loop has still to treat
   cur    : Rows,                            \* row being mounted
   mounts : SUBSET Rows]                     \* rows mounted so far

TypeOK ==
  /\ rows \in SUBSET Rows
  /\ attached \in SUBSET Devs
  /\ fs \in [Devs -> 0..MaxGen]
  /\ img \in [Images -> {"none", "raw", "xfs"}]
  /\ mounted \in SUBSET Uuids
  /\ loops \in SUBSET Images
  /\ nfs \in Seq(SUBSET Rows)
  /\ pc \in [Workers -> Steps \union {"idle"}]
  /\ req \in [Workers -> Request]
  /\ \A w \in Workers : pc[w] \in ImageSteps => req[w].cur.uuid # None
  /\ answer \in {"none", "SUCCESS", "SYSTEM"}
  /\ stuck \in 0..MaxStuck
  /\ tidy \in SUBSET Workers
  /\ disturbed \in SUBSET Devs

SomeType == CHOOSE t \in Types : TRUE

NoRequest ==
  [dev |-> None, uuid |-> None, type |-> SomeType, list |-> {}, todo |-> {},
   cur |-> [uuid |-> None, type |-> SomeType], mounts |-> {}]

Init ==
  /\ rows = {}
  /\ attached \in SUBSET Devs
  /\ fs \in [Devs -> {0, 1}]      \* blank, or formatted by an earlier owner
  /\ img = [i \in Images |-> "none"]
  /\ mounted = {} /\ loops = {} /\ nfs = <<>>
  /\ pc = [w \in Workers |-> "idle"]
  /\ req = [w \in Workers |-> NoRequest]
  /\ answer = "none"
  /\ stuck = 0 /\ tidy = {} /\ disturbed = {}

-----------------------------------------------------------------------------
(* A handler starts, goes on to a step with its locals changed to r, or    *)
(* answers.                                                                *)
Begin(w, step, r) ==
  /\ pc[w] = "idle"
  /\ pc' = [pc EXCEPT ![w] = step]
  /\ req' = [req EXCEPT ![w] = r]
  /\ answer' = "none"
  /\ tidy' = IF \A x \in Workers \ {w} : pc[x] = "idle" THEN {w} ELSE {}

GotoWith(w, step, r) ==
  /\ pc' = [pc EXCEPT ![w] = step]
  /\ req' = [req EXCEPT ![w] = r]
  /\ answer' = "none"

Goto(w, step) == GotoWith(w, step, req[w])

Answer(w, code) ==
  /\ pc' = [pc EXCEPT ![w] = "idle"]
  /\ req' = [req EXCEPT ![w] = NoRequest]
  /\ answer' = code

Appending(w, d) == pc[w] \in AppendSteps /\ req[w].dev = d

(* The UUID blkid reports of a device; whether it reports a UUID at all.   *)
Uuid(d) == IF d \in attached /\ fs[d] > 0 THEN [dev |-> d, gen |-> fs[d]] ELSE None

Active(u) == u # None /\ Uuid(u.dev) = u

(* umount fails when the mount is in use: always when a loop device uses   *)
(* it, at any time otherwise.  Its result is ignored.                      *)
Unmount(u) ==
  \/ mounted' = mounted \ {u} /\ <<u, "disk">> \notin loops
  \/ UNCHANGED mounted

-----------------------------------------------------------------------------
(* Appending a disk, up to the row.                                        *)

AppendBegin(w, d, type) ==
  /\ Begin(w, "umount", [NoRequest EXCEPT !.dev = d, !.type = type])
  /\ disturbed' = IF \E x \in Workers : Appending(x, d) THEN disturbed \union {d} ELSE disturbed
  /\ UNCHANGED <<rows, devVars, mntVars>>

(* umount /dev/<dev>, whether the disk is in the pool or not.              *)
AppendUmount(w) ==
  /\ pc[w] = "umount"
  /\ Unmount(Uuid(req[w].dev))
  /\ Goto(w, "probe")
  /\ UNCHANGED <<rows, devVars, loops, nfs, stuck, tidy, disturbed>>

(* Mutant of AppendProbe: every appended disk is formatted.                *)
AppendProbeFormats(w) ==
  /\ pc[w] = "probe"
  /\ GotoWith(w, "mkfs", [req[w] EXCEPT !.uuid = Uuid(req[w].dev)])
  /\ UNCHANGED <<rows, devVars, mntVars, tidy, disturbed>>

(* blkid; a disk it reports no file system on is to be formatted.          *)
AppendProbe(w) ==
  /\ pc[w] = "probe"
  /\ LET u == Uuid(req[w].dev)
     IN  GotoWith(w, IF u = None THEN "mkfs" ELSE "info", [req[w] EXCEPT !.uuid = u])
  /\ UNCHANGED <<rows, devVars, mntVars, tidy, disturbed>>

(* mkfs.xfs -f makes a new file system unless the old one is mounted; its  *)
(* result is ignored.                                                      *)
AppendMkfs(w) ==
  LET d == req[w].dev
  IN
  /\ pc[w] = "mkfs"
  /\ Goto(w, "reprobe")
  /\ \/ /\ d \in attached /\ Uuid(d) \notin mounted /\ fs[d] < MaxGen
        /\ fs' = [fs EXCEPT ![d] = @ + 1]
     \/ UNCHANGED fs
  /\ UNCHANGED <<rows, attached, img, mntVars, tidy, disturbed>>

(* blkid again, after mkfs.                                                *)
AppendReprobe(w) ==
  /\ pc[w] = "reprobe"
  /\ GotoWith(w, "info", [req[w] EXCEPT !.uuid = Uuid(req[w].dev)])
  /\ UNCHANGED <<rows, devVars, mntVars, tidy, disturbed>>

(* lsblk of the device.                                                    *)
AppendInfo(w) ==
  /\ pc[w] = "info"
  /\ IF req[w].dev \in attached THEN Goto(w, "insert") ELSE Answer(w, "SYSTEM")
  /\ UNCHANGED <<rows, devVars, mntVars, tidy, disturbed>>

(* INSERT ... ON DUPLICATE KEY UPDATE: a row with this UUID stays, with    *)
(* its devtype.  A failed command may have taken effect (MysqlPool).       *)
AppendInsert(w) ==
  LET row == [uuid |-> req[w].uuid, type |-> req[w].type]
      inserted == IF \E r \in rows : r.uuid = row.uuid THEN rows ELSE rows \union {row}
  IN
  /\ pc[w] = "insert"
  /\ \/ rows' = inserted /\ Goto(w, "select_append")
     \/ rows' \in {rows, inserted} /\ Answer(w, "SYSTEM")
  /\ UNCHANGED <<devVars, mntVars, tidy, disturbed>>

-----------------------------------------------------------------------------
(* Removing a disk, up to the row.                                         *)

RemoveBegin(w, r) ==
  /\ Begin(w, "delete", [NoRequest EXCEPT !.uuid = r.uuid])
  /\ UNCHANGED <<rows, devVars, mntVars, disturbed>>

RemoveRow(w) ==
  LET deleted == {r \in rows : r.uuid # req[w].uuid}
  IN
  /\ pc[w] = "delete"
  /\ \/ rows' = deleted /\ Goto(w, "select_remove")
     \/ rows' \in {rows, deleted} /\ Answer(w, "SYSTEM")
  /\ UNCHANGED <<devVars, mntVars, tidy, disturbed>>

-----------------------------------------------------------------------------
(* SELECT * FROM disk_list.                                                *)
Selected(w) == GotoWith(w, "check", [req[w] EXCEPT !.list = rows, !.todo = rows])

(* An append does not apply an empty list.                                 *)
AppendSelect(w) ==
  /\ pc[w] = "select_append"
  /\ \/ rows # {} /\ Selected(w)
     \/ rows = {} /\ Answer(w, "SUCCESS")
     \/ Answer(w, "SYSTEM")
  /\ UNCHANGED <<rows, devVars, mntVars, tidy, disturbed>>

RemoveSelect(w) ==
  /\ pc[w] = "select_remove"
  /\ \/ Selected(w)
     \/ Answer(w, "SYSTEM")
  /\ UNCHANGED <<rows, devVars, mntVars, tidy, disturbed>>

-----------------------------------------------------------------------------
(* data_pool_apply.  Whatever it meets, the request is answered SUCCESS.   *)

(* blkid for one row; an inactive disk ends it before anything is done.    *)
ApplyCheck(w) ==
  /\ pc[w] = "check"
  /\ \/ /\ req[w].todo = {}
        /\ GotoWith(w, "umount_nfs", [req[w] EXCEPT !.todo = req[w].list])
        /\ UNCHANGED tidy
     \/ \E r \in req[w].todo :
          /\ Active(r.uuid)
          /\ GotoWith(w, "check", [req[w] EXCEPT !.todo = @ \ {r}])
          /\ UNCHANGED tidy
     \/ \E r \in req[w].todo :
          /\ ~Active(r.uuid)
          /\ Answer(w, "SUCCESS")
          /\ tidy' = tidy \ {w}
  /\ UNCHANGED <<rows, devVars, mntVars, disturbed>>

(* Mutant of ApplyUmountNfs: the visible union stays.                      *)
ApplyUmountNfsForgotten(w) ==
  /\ pc[w] = "umount_nfs"
  /\ IF req[w].list = {} THEN Answer(w, "SUCCESS") ELSE Goto(w, "disk")
  /\ UNCHANGED <<rows, devVars, mntVars, tidy, disturbed>>

(* umount /nfs takes the visible union away, or fails because it is in use.*)
ApplyUmountNfs(w) ==
  /\ pc[w] = "umount_nfs"
  /\ \/ nfs' = (IF nfs = <<>> THEN nfs ELSE Tail(nfs)) /\ UNCHANGED stuck
     \/ nfs # <<>> /\ stuck < MaxStuck /\ stuck' = stuck + 1 /\ UNCHANGED nfs
  /\ IF req[w].list = {} THEN Answer(w, "SUCCESS") ELSE Goto(w, "disk")
  /\ UNCHANGED <<rows, devVars, mounted, loops, tidy, disturbed>>

(* The next row of the list; when there is none left and nothing could be  *)
(* mounted, there is no union to mount.                                    *)
ApplyNext(w) ==
  /\ pc[w] = "disk"
  /\ \/ \E r \in req[w].todo :
          GotoWith(w, CASE r.type = "IMG" -> "loop_off"
                        [] r.type = "BLK" -> "disk_off"
                        [] r.type = "VHD" -> "disk",
                   [req[w] EXCEPT !.cur = r, !.todo = @ \ {r}])
     \/ /\ req[w].todo = {}
        /\ IF req[w].mounts = {} THEN Answer(w, "SUCCESS") ELSE Goto(w, "union")
  /\ UNCHANGED <<rows, devVars, mntVars, tidy, disturbed>>

(* The row being mounted is mounted, or given up.                          *)
Mounted(w) ==
  /\ GotoWith(w, "disk", [req[w] EXCEPT !.mounts = @ \union {req[w].cur}])
  /\ UNCHANGED tidy

GiveUp(w) ==
  /\ Goto(w, "disk")
  /\ tidy' = tidy \ {w}

(* umount_path of /mnt/<uuid>_IMG.                                         *)
LoopOff(w) ==
  /\ pc[w] = "loop_off"
  /\ \/ loops' = {l \in loops : l[1] # req[w].cur.uuid}
     \/ UNCHANGED loops
  /\ Goto(w, "disk_off")
  /\ UNCHANGED <<rows, devVars, mounted, nfs, stuck, tidy, disturbed>>

DiskOff(w) ==
  /\ pc[w] = "disk_off"
  /\ Unmount(req[w].cur.uuid)
  /\ Goto(w, "disk_on")
  /\ UNCHANGED <<rows, devVars, loops, nfs, stuck, tidy, disturbed>>

(* Mutant of DiskOn: the image is looked for though the mount failed.      *)
DiskOnUnchecked(w) ==
  LET u == req[w].cur.uuid
  IN
  /\ pc[w] = "disk_on"
  /\ mounted' = IF Active(u) THEN mounted \union {u} ELSE mounted
  /\ IF req[w].cur.type = "BLK" THEN Mounted(w) ELSE Goto(w, "image") /\ UNCHANGED tidy
  /\ UNCHANGED <<rows, devVars, loops, nfs, stuck, disturbed>>

(* mount fails for a disk that is gone or still mounted; it may always.    *)
DiskOn(w) ==
  LET u == req[w].cur.uuid
  IN
  /\ pc[w] = "disk_on"
  /\ \/ /\ Active(u) /\ u \notin mounted
        /\ mounted' = mounted \union {u}
        /\ IF req[w].cur.type = "BLK" THEN Mounted(w) ELSE Goto(w, "image") /\ UNCHANGED tidy
     \/ GiveUp(w) /\ UNCHANGED mounted
  /\ UNCHANGED <<rows, devVars, loops, nfs, stuck, disturbed>>

(* The path /mnt/<uuid>/EC_NAS.img is on the disk only while the disk is   *)
(* mounted there, and on the root file system otherwise.                   *)
Image(u) == <<u, IF u \in mounted THEN "disk" ELSE "root">>

ImageProbe(w) ==
  /\ pc[w] = "image"
  /\ Goto(w, IF img[Image(req[w].cur.uuid)] = "none" THEN "fallocate" ELSE "loop_on")
  /\ UNCHANGED <<rows, devVars, mntVars, tidy, disturbed>>

(* fallocate; when it fails it may leave the file behind.                  *)
ImageAllocate(w) ==
  LET i == Image(req[w].cur.uuid)
      created == [img EXCEPT ![i] = IF @ = "none" THEN "raw" ELSE @]
  IN
  /\ pc[w] = "fallocate"
  /\ \/ img' = created /\ Goto(w, "image_fs") /\ UNCHANGED tidy
     \/ img' \in {img, created} /\ GiveUp(w)
  /\ UNCHANGED <<rows, attached, fs, mntVars, disturbed>>

(* mkfs.xfs of the image; its result is ignored.                           *)
ImageFormat(w) ==
  LET i == Image(req[w].cur.uuid)
  IN
  /\ pc[w] = "image_fs"
  /\ img' \in {img, [img EXCEPT ![i] = IF @ = "none" THEN "none" ELSE "xfs"]}
  /\ Goto(w, "loop_on")
  /\ UNCHANGED <<rows, attached, fs, mntVars, tidy, disturbed>>

(* mount -o loop of an image that exists and holds a file system.          *)
LoopOn(w) ==
  LET u == req[w].cur.uuid
  IN
  /\ pc[w] = "loop_on"
  /\ \/ /\ img[Image(u)] = "xfs" /\ \A l \in loops : l[1] # u
        /\ loops' = loops \union {Image(u)}
        /\ Mounted(w)
     \/ GiveUp(w) /\ UNCHANGED loops
  /\ UNCHANGED <<rows, devVars, mounted, nfs, stuck, disturbed>>

(* mergerfs mounts the union of what was mounted on top of what is still   *)
(* mounted on /nfs.                                                        *)
ApplyUnion(w) ==
  /\ pc[w] = "union"
  /\ \/ nfs' = <<req[w].mounts>> \o nfs /\ UNCHANGED tidy
     \/ UNCHANGED nfs /\ tidy' = tidy \ {w}
  /\ Answer(w, "SUCCESS")
  /\ UNCHANGED <<rows, devVars, mounted, loops, stuck, disturbed>>

-----------------------------------------------------------------------------
(* A device is plugged in or unplugged.                                    *)
Replug(d) ==
  /\ attached' \in {attached \union {d}, attached \ {d}}
  /\ disturbed' = IF \E w \in Workers : Appending(w, d) THEN disturbed \union {d} ELSE disturbed
  /\ answer' = "none"
  /\ UNCHANGED <<rows, fs, img, mntVars, pc, req, tidy>>

(* A worker is killed; its request is never answered.                      *)
Crash(w) ==
  /\ pc[w] # "idle"
  /\ Answer(w, "none")
  /\ UNCHANGED <<rows, devVars, mntVars, tidy, disturbed>>

(* The host restarts.  Nothing mounts the pool again before the next       *)
(* append or remove.                                                       *)
Reboot ==
  /\ mounted' = {} /\ loops' = {} /\ nfs' = <<>>
  /\ pc' = [w \in Workers |-> "idle"]
  /\ req' = [w \in Workers |-> NoRequest]
  /\ answer' = "none"
  /\ UNCHANGED <<rows, devVars, stuck, tidy, disturbed>>

Step(w) ==
  \/ AppendUmount(w) \/ AppendProbe(w) \/ AppendMkfs(w) \/ AppendReprobe(w)
  \/ AppendInfo(w) \/ AppendInsert(w) \/ AppendSelect(w)
  \/ RemoveRow(w) \/ RemoveSelect(w)
  \/ ApplyCheck(w) \/ ApplyUmountNfs(w) \/ ApplyNext(w) \/ LoopOff(w) \/ DiskOff(w)
  \/ DiskOn(w) \/ ImageProbe(w) \/ ImageAllocate(w) \/ ImageFormat(w) \/ LoopOn(w)
  \/ ApplyUnion(w)

Next ==
  \/ \E w \in Workers : Step(w) \/ Crash(w)
  \/ \E w \in Workers, d \in Devs, type \in Types : AppendBegin(w, d, type)
  \/ \E w \in Workers, r \in rows : RemoveBegin(w, r)
  \/ \E d \in Devs : Replug(d)
  \/ Reboot

Spec == Init /\ [][Next]_vars

-----------------------------------------------------------------------------
(* Properties.                                                             *)

(* Who has taken a union off /nfs and not yet put one back.                *)
Applying == {w \in Workers : pc[w] \in MountSteps}

(* Overlapping changes may leave unions stacked on /nfs, each hiding the   *)
(* one below for good, but never more than one per worker and one per      *)
(* umount that failed.                                                     *)
LayersBounded == Len(nfs) + Cardinality(Applying) <= Cardinality(Workers) + stuck

(* The row of a disk names the file system that is on it, so that the next *)
(* apply can mount it, unless the disk was appended twice at once or       *)
(* replugged during an append: then mkfs destroys a file system another    *)
(* request has entered in the table.                                       *)
RowsAreCurrent ==
  \A r \in rows :
    r.uuid # None /\ r.uuid.dev \notin disturbed => fs[r.uuid.dev] = r.uuid.gen

(* A branch of the union is served by its disk, not by the empty directory *)
(* the disk is normally mounted on.                                        *)
OnItsDisk(r) ==
  /\ r.uuid \in mounted
  /\ r.type = "IMG" => <<r.uuid, "disk">> \in loops

(* The strengthening that makes these inductive: while a disk is not       *)
(* disturbed only one request appends it, that request formats it only if  *)
(* it holds no file system, and the UUID it is to enter is the disk's.     *)
Undisturbed(w) == pc[w] \in AppendSteps /\ req[w].dev \notin disturbed

SoleAppender ==
  \A w, x \in Workers :
    Undisturbed(w) /\ Undisturbed(x) /\ req[w].dev = req[x].dev => w = x

AppendInv ==
  \A w \in Workers :
    LET d == req[w].dev
        u == req[w].uuid
    IN  /\ pc[w] \in AppendSteps => d # None
        /\ Undisturbed(w) /\ pc[w] = "mkfs" => fs[d] = 0 \/ d \notin attached
        /\ pc[w] \in {"info", "insert"} /\ u # None
             => u.dev = d /\ (Undisturbed(w) => u.gen = fs[d])

IInv == TypeOK /\ LayersBounded /\ RowsAreCurrent /\ SoleAppender /\ AppendInv

Answers(w, code) == pc[w] # "idle" /\ pc'[w] = "idle" /\ answer' = code

(* A request that ran alone and met neither an inactive disk nor a failing *)
(* mount makes /nfs show exactly the disks of the table, each served from  *)
(* that disk, whatever earlier races, crashes and failures left behind.    *)
(* (VHD rows are never mounted.)                                           *)
CleanApplyServesTable ==
  [][\A w \in Workers :
       LET shown == {r \in rows : r.type # "VHD"}
       IN  Answers(w, "SUCCESS") /\ w \in tidy' /\ shown # {}
           => nfs' # <<>> /\ Head(nfs') = shown /\ \A r \in shown : OnItsDisk(r)']_vars

(* The documentation of poolDiskAppend, "add a disk to the storage pool",  *)
(* devtype one of BLK/IMG/VHD: after SUCCESS the disk is part of what /nfs *)
(* shows, at least when the request ran alone and nothing failed.          *)
AppendedIsPooled ==
  [][\A w \in Workers :
       LET row == [uuid |-> req[w].uuid, type |-> req[w].type]
       IN  Answers(w, "SUCCESS") /\ w \in tidy' /\ req[w].dev # None /\ row \in rows
           => nfs' # <<>> /\ row \in Head(nfs')]_vars
=============================================================================
