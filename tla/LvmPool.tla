------------------------------- MODULE LvmPool -------------------------------
(***************************************************************************)
(* A pool on LVM: a volume group with one logical volume of ours, and      *)
(* possibly a volume of someone else.  What is persistent is in LVM: the   *)
(* group, the volumes and their tags.  What is not is the bdev over the    *)
(* logical volume, which every look-up of the volume loads and brings in   *)
(* line with the tags it has read.  Every LVM command is run on the tokio  *)
(* runtime and awaited, so requests of the pool service and requests of    *)
(* the replica service interleave between any two commands; each service   *)
(* serves one request that changes something at a time.                    *)
(***************************************************************************)
EXTENDS Naturals, FiniteSets

CONSTANTS LvHostSets,    \* the sets of allowed hosts that are asked for
          LvSizes,       \* the sizes that are asked for
          MaxLvmOps,     \* bound: requests, by service
          MaxLvmFaults   \* bound: commands that fail, restarts and volumes of others

VARIABLES
  vg,       \* the volume group: is it there, has it our tag
  pv,       \* the disk has the label of a physical volume
  stale,    \* /dev/<name> was left behind by an earlier group
  lv,       \* our logical volume and its tags
  foreign,  \* the group holds a volume of someone else
  lvBdev,   \* the aio bdev over the logical volume
  lvLock,   \* who holds the resource lock of the pool
  poolReq,  \* the request the pool service serves
  replReq,  \* the request the replica service serves
  lvmOps, lvmFaults,
  confirmed,    \* ghost: how the volume is shared, as last confirmed to a client
  marks     \* ghost: what went wrong on the way, for the properties to tell apart

lvmVars == <<vg, pv, stale, lv, foreign, lvBdev, lvLock, poolReq, replReq, lvmOps, lvmFaults,
             confirmed, marks>>
diskVars == <<vg, pv, stale, foreign>>

\* A volume and the tags of its share: the tags of the allowed hosts are values
\* as LVM has them.
Volumes == [share : {"off", "nvmf"}, hosts : SUBSET LvHostSets, size : LvSizes]
Bdevs == [share : {"off", "nvmf"}, hosts : SUBSET UNION LvHostSets, size : LvSizes]
NoLv == [share |-> "off", hosts |-> {}, size |-> 0]
NoVg == [there |-> FALSE, ours |-> FALSE]
Confirmed(share, hosts) == [known |-> TRUE, share |-> share, hosts |-> hosts]
Unknown == [known |-> FALSE, share |-> "off", hosts |-> {}]
NoRequest == [op |-> "none", pc |-> "none"]

\* The tag of the allowed hosts joins them with commas, and LVM reports the tags
\* of a volume separated by commas: of several hosts the first stays.
DecodedHosts(hosts) ==
  IF Cardinality(hosts) <= 1 THEN hosts ELSE {CHOOSE h \in hosts : TRUE}

\* import_attrs(), property(): what a look-up reads of the volume, the first tag
\* of the hosts if there are several.
Fetched(tag) == [lv EXCEPT !.hosts = DecodedHosts(tag)]
HostTags == IF lv.hosts = {} THEN {{}} ELSE lv.hosts

\* build_set_property_args(): the tags that are there are removed by the value
\* they were read as, and the new one is added unless it was read.
SetHosts(hosts) ==
  LET old == {DecodedHosts(t) : t \in lv.hosts} IN
  (lv.hosts \ (old \ {hosts})) \union (IF hosts \in old THEN {} ELSE {hosts})

CommandFails == lvmFaults < MaxLvmFaults /\ lvmFaults' = lvmFaults + 1

LvmInit ==
  /\ vg = NoVg /\ pv = FALSE /\ stale \in BOOLEAN /\ lv = NoLv /\ foreign = FALSE
  /\ lvBdev = NoLv /\ lvLock = "none" /\ poolReq = NoRequest /\ replReq = NoRequest
  /\ lvmOps = [pool |-> 0, replica |-> 0] /\ lvmFaults = 0
  /\ confirmed = Unknown /\ marks = {}

-----------------------------------------------------------------------------
(* The bdev over the logical volume.                                       *)

\* import_bdev(), bdev_sync_props(): creates the bdev unless it is there, and
\* shares it, updates its hosts or unshares it, as the tags read earlier say.
ImportBdev(h) ==
  /\ lv # NoLv
  /\ lvBdev' = [share |-> h.share, hosts |-> IF h.share = "nvmf" THEN h.hosts ELSE {},
                size |-> IF lvBdev = NoLv THEN lv.size ELSE lvBdev.size]

\* export_bdev(): unshares and destroys the bdev; one that is gone is fine.
ExportBdev == lvBdev' = NoLv

-----------------------------------------------------------------------------
(* The pool service.                                                       *)

\* A request arrives when no other is served.
PoolArrives(op) ==
  /\ poolReq = NoRequest /\ lvmOps.pool < MaxLvmOps.pool
  /\ lvmOps' = [lvmOps EXCEPT !.pool = @ + 1]
  /\ poolReq' = [op |-> op, pc |-> IF op \in {"create", "import"} THEN "lock" ELSE "find",
                 found |-> NoLv]
  /\ UNCHANGED <<diskVars, lv, lvBdev, lvLock, replReq, lvmFaults, confirmed, marks>>

PoolGoes(pc) == poolReq' = [poolReq EXCEPT !.pc = pc]

\* The request is answered and the guard of the pool's lock dropped.
PoolEnds ==
  /\ poolReq' = NoRequest
  /\ lvLock' = IF lvLock = "pool" THEN "none" ELSE lvLock

\* PoolLvmFactory::find(): only a group with our tag is a pool.
FindPool ==
  /\ poolReq.pc = "find"
  /\ IF vg.ours THEN PoolGoes("lock") /\ UNCHANGED lvLock ELSE PoolEnds
  /\ UNCHANGED <<diskVars, lv, lvBdev, replReq, lvmOps, lvmFaults, confirmed, marks>>

\* The resource lock, by name of the pool.
LockPool ==
  /\ poolReq.pc = "lock" /\ lvLock = "none"
  /\ lvLock' = "pool"
  /\ PoolGoes(CASE poolReq.op = "create" -> "lookup" [] poolReq.op = "import" -> "import"
              [] OTHER -> "fetch")
  /\ UNCHANGED <<diskVars, lv, lvBdev, replReq, lvmOps, lvmFaults, confirmed, marks>>

\* VolumeGroup::create(): a group of that name is imported.
LookupGroup ==
  /\ poolReq.pc = "lookup"
  /\ PoolGoes(IF vg.there THEN "import" ELSE "pvcreate")
  /\ UNCHANGED <<diskVars, lv, lvBdev, lvLock, replReq, lvmOps, lvmFaults, confirmed, marks>>

PvCreate ==
  /\ poolReq.pc = "pvcreate"
  /\ pv' = TRUE /\ PoolGoes("vgcreate")
  /\ UNCHANGED <<vg, stale, foreign, lv, lvBdev, lvLock, replReq, lvmOps, lvmFaults, confirmed, marks>>

\* "A broken vg as a result of improper cleanup": the devices left behind are
\* removed and the command is run again.
RemoveStale ==
  /\ poolReq.pc = "vgcreate" /\ stale
  /\ stale' = FALSE
  /\ UNCHANGED <<vg, pv, foreign, lv, lvBdev, lvLock, poolReq, replReq, lvmOps, lvmFaults, confirmed, marks>>

VgCreate ==
  /\ poolReq.pc = "vgcreate" /\ ~stale
  /\ vg' = [there |-> TRUE, ours |-> TRUE] /\ PoolEnds
  /\ UNCHANGED <<pv, stale, foreign, lv, lvBdev, replReq, lvmOps, lvmFaults, confirmed, marks>>

\* import_inner(): a group that is not there, whose disks differ, or whose uuid
\* the client wants to choose is refused; one without our tag gets it.
ImportInner ==
  /\ poolReq.pc = "import"
  /\ \/ PoolEnds /\ UNCHANGED vg
     \/ /\ vg.there
        /\ vg' = [vg EXCEPT !.ours = TRUE]
        /\ IF poolReq.op = "import" THEN PoolGoes("fetch") /\ UNCHANGED lvLock ELSE PoolEnds
  /\ UNCHANGED <<pv, stale, foreign, lv, lvBdev, replReq, lvmOps, lvmFaults, confirmed, marks>>

\* list_lvs(): the volumes of ours in this group, if it is still ours.
FetchLvs ==
  /\ poolReq.pc = "fetch"
  /\ \E t \in HostTags :
       poolReq' = [poolReq EXCEPT !.pc = "load",
                                  !.found = IF vg.ours /\ lv # NoLv THEN Fetched(t) ELSE NoLv]
  /\ UNCHANGED <<diskVars, lv, lvBdev, lvLock, replReq, lvmOps, lvmFaults, confirmed, marks>>

\* "All lv's are imported and all imports must succeed."
LoadLvs ==
  /\ poolReq.pc = "load"
  /\ IF poolReq.found = NoLv THEN UNCHANGED lvBdev ELSE ImportBdev(poolReq.found)
  /\ marks' = IF lvBdev = NoLv /\ replReq.op = "resize" THEN marks \union {"unnoticed"} ELSE marks
  /\ IF poolReq.op = "import" THEN PoolEnds ELSE PoolGoes("unload") /\ UNCHANGED lvLock
  /\ UNCHANGED <<diskVars, lv, replReq, lvmOps, lvmFaults, confirmed>>

\* The volume was removed between the list and its import.
LoadFails ==
  /\ poolReq.pc = "load" /\ poolReq.found # NoLv /\ lv = NoLv
  /\ PoolEnds
  /\ UNCHANGED <<diskVars, lv, lvBdev, replReq, lvmOps, lvmFaults, confirmed, marks>>

UnloadLvs ==
  /\ poolReq.pc = "unload"
  /\ IF poolReq.found = NoLv THEN UNCHANGED lvBdev ELSE ExportBdev
  /\ PoolGoes("untag")
  /\ UNCHANGED <<diskVars, lv, lvLock, replReq, lvmOps, lvmFaults, confirmed, marks>>

\* export(): our tag goes last.
UntagGroup ==
  /\ poolReq.pc = "untag"
  /\ vg' = [vg EXCEPT !.ours = FALSE]
  /\ IF poolReq.op = "export" THEN PoolEnds ELSE PoolGoes("foreign") /\ UNCHANGED lvLock
  /\ UNCHANGED <<pv, stale, foreign, lv, lvBdev, replReq, lvmOps, lvmFaults, confirmed, marks>>

\* list_foreign_lvs(): the group is kept if it holds volumes of others.
ListForeignLvs ==
  /\ poolReq.pc = "foreign"
  /\ IF foreign THEN PoolEnds ELSE PoolGoes("vgremove") /\ UNCHANGED lvLock
  /\ UNCHANGED <<diskVars, lv, lvBdev, replReq, lvmOps, lvmFaults, confirmed, marks>>

\* vgremove removes every volume; it is refused while one is open.
VgRemove ==
  /\ poolReq.pc = "vgremove"
  /\ IF lvBdev # NoLv THEN PoolEnds /\ UNCHANGED <<vg, lv, foreign>>
     ELSE vg' = NoVg /\ lv' = NoLv /\ foreign' = FALSE /\ PoolGoes("pvremove") /\ UNCHANGED lvLock
  /\ UNCHANGED <<pv, stale, lvBdev, replReq, lvmOps, lvmFaults, confirmed, marks>>

PvRemove ==
  /\ poolReq.pc = "pvremove"
  /\ pv' = FALSE /\ PoolEnds
  /\ UNCHANGED <<vg, stale, foreign, lv, lvBdev, replReq, lvmOps, lvmFaults, confirmed, marks>>

\* A command fails, or the bdev cannot be created, shared or destroyed: the
\* request returns the error, and what it did stays done.
PoolCommandFails ==
  /\ poolReq.pc \in {"find", "lookup", "pvcreate", "vgcreate", "import", "fetch", "load", "unload",
                     "untag", "foreign", "vgremove", "pvremove"}
  /\ CommandFails /\ PoolEnds
  /\ UNCHANGED <<diskVars, lv, lvBdev, replReq, lvmOps, confirmed, marks>>

PoolStep ==
  \/ FindPool \/ LockPool \/ LookupGroup \/ PvCreate \/ RemoveStale \/ VgCreate \/ ImportInner
  \/ FetchLvs \/ LoadLvs \/ LoadFails \/ UnloadLvs \/ UntagGroup \/ ListForeignLvs \/ VgRemove
  \/ PvRemove \/ PoolCommandFails

-----------------------------------------------------------------------------
(* The replica service.                                                    *)

\* A request arrives when no other is served.  A create names the pool, and a
\* destroy may: they find it, and hold its lock, before they do anything.
ReplArrives(op, hosts, size, named) ==
  /\ replReq = NoRequest /\ lvmOps.replica < MaxLvmOps.replica
  /\ op \notin {"share", "createShared"} => hosts = {}
  /\ op \notin {"create", "createShared", "resize"} => size = CHOOSE s \in LvSizes : TRUE
  /\ named = (op \in {"create", "createShared"}) \/ op = "destroy"
  /\ lvmOps' = [lvmOps EXCEPT !.replica = @ + 1]
  /\ replReq' = [op |-> op, pc |-> IF named THEN "pool" ELSE "find", hosts |-> hosts, size |-> size,
                 found |-> NoLv, ours |-> FALSE, loaded |-> FALSE, existed |-> FALSE]
  /\ UNCHANGED <<diskVars, lv, lvBdev, lvLock, poolReq, lvmFaults, confirmed, marks>>

ReplGoes(pc) == replReq' = [replReq EXCEPT !.pc = pc]

\* The request is answered and the guard of the pool's lock, if held, dropped.
ReplEnds ==
  /\ replReq' = NoRequest
  /\ lvLock' = IF lvLock = "replica" THEN "none" ELSE lvLock

\* pool_finder(): the pool, and then its lock.
FindNamedPool ==
  /\ replReq.pc = "pool"
  /\ IF vg.ours THEN ReplGoes("poollock") /\ UNCHANGED lvLock ELSE ReplEnds
  /\ UNCHANGED <<diskVars, lv, lvBdev, poolReq, lvmOps, lvmFaults, confirmed, marks>>

LockNamedPool ==
  /\ replReq.pc = "poollock" /\ lvLock = "none"
  /\ lvLock' = "replica"
  /\ ReplGoes(IF replReq.op = "destroy" THEN "find" ELSE "lvcreate")
  /\ UNCHANGED <<diskVars, lv, lvBdev, poolReq, lvmOps, lvmFaults, confirmed, marks>>

\* create_lvoli(): "Logical Volume ... already exists" is not an error yet.
LvCreate ==
  /\ replReq.pc = "lvcreate"
  /\ IF vg.there
     THEN /\ lv' = IF lv = NoLv THEN [share |-> "off", hosts |-> {}, size |-> replReq.size] ELSE lv
          /\ confirmed' = IF lv = NoLv THEN Confirmed("off", {}) ELSE confirmed
          /\ replReq' = [replReq EXCEPT !.pc = "find", !.existed = (lv # NoLv)]
          /\ UNCHANGED lvLock
     ELSE ReplEnds /\ UNCHANGED <<lv, confirmed>>
  /\ UNCHANGED <<diskVars, lvBdev, poolReq, lvmOps, lvmFaults, marks>>

\* LogicalVolume::fetch(): the volume by its uuid.  A list, and the look-up of a
\* create, also want the group to be ours.
FetchLv ==
  /\ replReq.pc = "find"
  /\ IF lv # NoLv /\ (replReq.op \in {"list", "create", "createShared"} => vg.ours)
     THEN /\ \E t \in HostTags :
               replReq' = [replReq EXCEPT !.pc = "load", !.found = Fetched(t), !.ours = vg.ours]
          /\ UNCHANGED lvLock
     ELSE ReplEnds
  /\ UNCHANGED <<diskVars, lv, lvBdev, poolReq, lvmOps, lvmFaults, confirmed, marks>>

\* Where a request goes on once it has the volume.  A create that found the
\* volume there wants it to be what it would have created.
AfterLoad ==
  CASE replReq.op \in {"share", "unshare"} -> "lock"
    [] replReq.op = "resize" -> "lvresize"
    [] replReq.op = "destroy" -> "export"
    [] replReq.op = "createShared" /\ (replReq.existed => replReq.found.share = "off"
                                                     /\ replReq.found.size = replReq.size) -> "share"
    [] OTHER -> "end"

\* import(): loads the bdev if volume and group were ours when they were read.
LoadLv ==
  /\ replReq.pc = "load"
  /\ IF replReq.ours THEN ImportBdev(replReq.found) ELSE UNCHANGED lvBdev
  /\ marks' = IF replReq.ours /\ (~vg.ours \/ poolReq.pc = "untag") THEN marks \union {"overtaken"} ELSE marks
  /\ IF AfterLoad = "end" THEN ReplEnds
     ELSE /\ replReq' = [replReq EXCEPT !.pc = AfterLoad, !.loaded = replReq.ours]
          /\ UNCHANGED lvLock
  /\ UNCHANGED <<diskVars, lv, poolReq, lvmOps, lvmFaults, confirmed>>

LoadLvFails ==
  /\ replReq.pc = "load" /\ replReq.ours /\ lv = NoLv
  /\ ReplEnds
  /\ UNCHANGED <<diskVars, lv, lvBdev, poolReq, lvmOps, lvmFaults, confirmed, marks>>

\* Mutant: the lock of the pool is not taken.
LockForShareNever ==
  /\ replReq.pc = "lock"
  /\ ReplGoes(replReq.op)
  /\ UNCHANGED <<diskVars, lv, lvBdev, lvLock, poolReq, lvmOps, lvmFaults, confirmed, marks>>

\* ReplicaGrpc::share(), unshare(): the lock is taken once the replica is known.
LockForShare ==
  /\ replReq.pc = "lock" /\ lvLock = "none"
  /\ lvLock' = "replica"
  /\ ReplGoes(replReq.op)
  /\ UNCHANGED <<diskVars, lv, lvBdev, poolReq, lvmOps, lvmFaults, confirmed, marks>>

\* share_nvmf(), update_share_props(): a volume without its bdev is refused.
ShareLv ==
  /\ replReq.pc = "share"
  /\ IF replReq.loaded /\ lvBdev # NoLv
     THEN /\ lvBdev' = [lvBdev EXCEPT !.share = "nvmf", !.hosts = replReq.hosts]
          /\ confirmed' = Unknown /\ ReplGoes("sync") /\ UNCHANGED lvLock
     ELSE /\ IF replReq.op = "createShared" THEN ReplGoes("export") /\ UNCHANGED lvLock ELSE ReplEnds
          /\ UNCHANGED <<lvBdev, confirmed>>
  /\ UNCHANGED <<diskVars, lv, poolReq, lvmOps, lvmFaults, marks>>

\* sync_share_opts(), set_properties(): the tags of the protocol and the hosts.
SyncShareOpts ==
  /\ replReq.pc = "sync" /\ lv # NoLv
  /\ lv' = [lv EXCEPT !.share = "nvmf", !.hosts = SetHosts(replReq.hosts)]
  /\ confirmed' = Confirmed("nvmf", replReq.hosts)
  /\ ReplEnds
  /\ UNCHANGED <<diskVars, lvBdev, poolReq, lvmOps, lvmFaults, marks>>

\* unshare(): a volume whose bdev is not loaded counts as unshared, whatever its
\* tag says.
UnshareLv ==
  /\ replReq.pc = "unshare"
  /\ IF replReq.loaded /\ lvBdev # NoLv
     THEN /\ lvBdev' = [lvBdev EXCEPT !.share = "off", !.hosts = {}]
          /\ confirmed' = Unknown /\ ReplGoes("syncoff") /\ UNCHANGED lvLock
     ELSE ReplEnds /\ UNCHANGED <<lvBdev, confirmed>>
  /\ UNCHANGED <<diskVars, lv, poolReq, lvmOps, lvmFaults, marks>>

\* sync_share_protocol(): the hosts keep their tag.
SyncShareProtocol ==
  /\ replReq.pc = "syncoff" /\ lv # NoLv
  /\ lv' = [lv EXCEPT !.share = "off"]
  /\ confirmed' = Confirmed("off", {})
  /\ ReplEnds
  /\ UNCHANGED <<diskVars, lvBdev, poolReq, lvmOps, lvmFaults, marks>>

\* resize_lv()
ResizeLv ==
  /\ replReq.pc = "lvresize"
  /\ IF lv = NoLv THEN ReplEnds /\ UNCHANGED lv
     ELSE lv' = [lv EXCEPT !.size = replReq.size] /\ ReplGoes("notify") /\ UNCHANGED lvLock
  /\ UNCHANGED <<diskVars, lvBdev, poolReq, lvmOps, lvmFaults, confirmed, marks>>

\* resize_bdev(): "If the SPDK Bdev is not loaded, then it is also not resized and
\* the operation still succeeds."  Loaded means: when the volume was looked up.
ResizeBdev ==
  /\ replReq.pc = "notify"
  /\ IF ~replReq.loaded THEN ReplEnds /\ UNCHANGED lvBdev
     ELSE IF lvBdev = NoLv THEN ReplGoes("revert") /\ UNCHANGED <<lvLock, lvBdev>>
     ELSE lvBdev' = [lvBdev EXCEPT !.size = replReq.size] /\ ReplEnds
  /\ UNCHANGED <<diskVars, lv, poolReq, lvmOps, lvmFaults, confirmed, marks>>

\* A bdev that is open does not shrink.
ResizeRefused ==
  /\ replReq.pc = "notify" /\ replReq.loaded /\ replReq.size < lvBdev.size
  /\ CommandFails /\ ReplGoes("revert")
  /\ UNCHANGED <<diskVars, lv, lvBdev, lvLock, poolReq, lvmOps, confirmed, marks>>

\* "If the SPDK Bdev fails to be resized, then the LV size is reverted back."
RevertSize ==
  /\ replReq.pc = "revert"
  /\ lv' = IF lv = NoLv THEN lv ELSE [lv EXCEPT !.size = replReq.found.size]
  /\ ReplEnds
  /\ UNCHANGED <<diskVars, lvBdev, poolReq, lvmOps, lvmFaults, confirmed, marks>>

\* That it cannot be reverted is ignored.
RevertFails ==
  /\ replReq.pc = "revert"
  /\ CommandFails /\ ReplEnds
  /\ marks' = marks \union {"unreverted"}
  /\ UNCHANGED <<diskVars, lv, lvBdev, poolReq, lvmOps, confirmed>>

\* destroy(): the bdev first.
UnloadLv ==
  /\ replReq.pc = "export"
  /\ IF replReq.loaded THEN ExportBdev ELSE UNCHANGED lvBdev
  /\ ReplGoes("lvremove")
  /\ UNCHANGED <<diskVars, lv, lvLock, poolReq, lvmOps, lvmFaults, confirmed, marks>>

\* "if the Bdev is not unloaded first, then lv removal will be reject by the lvm
\* driver."
LvRemove ==
  /\ replReq.pc = "lvremove"
  /\ lv' = IF lvBdev = NoLv THEN NoLv ELSE lv
  /\ ReplEnds
  /\ UNCHANGED <<diskVars, lvBdev, poolReq, lvmOps, lvmFaults, confirmed, marks>>

\* A command fails: the request returns the error.  A create that could not
\* share the volume destroys it.
ReplCommandFails ==
  /\ replReq.pc \in {"pool", "lvcreate", "find", "load", "share", "sync", "unshare", "syncoff",
                     "lvresize", "export", "lvremove"}
  /\ CommandFails
  /\ IF replReq.op = "createShared" /\ replReq.pc \in {"share", "sync"}
     THEN ReplGoes("export") /\ UNCHANGED lvLock ELSE ReplEnds
  /\ UNCHANGED <<diskVars, lv, lvBdev, poolReq, lvmOps, confirmed, marks>>

\* lvchange of a volume that is gone.
SyncGone ==
  /\ replReq.pc \in {"sync", "syncoff"} /\ lv = NoLv
  /\ IF replReq.op = "createShared" THEN ReplGoes("export") /\ UNCHANGED lvLock ELSE ReplEnds
  /\ UNCHANGED <<diskVars, lv, lvBdev, poolReq, lvmOps, lvmFaults, confirmed, marks>>

ReplStep ==
  \/ FindNamedPool \/ LockNamedPool \/ LvCreate \/ FetchLv \/ LoadLv \/ LoadLvFails \/ LockForShare
  \/ ShareLv \/ SyncShareOpts \/ UnshareLv \/ SyncShareProtocol \/ ResizeLv \/ ResizeBdev
  \/ ResizeRefused \/ RevertSize \/ RevertFails \/ UnloadLv \/ LvRemove \/ ReplCommandFails \/ SyncGone

-----------------------------------------------------------------------------
(* The rest of the world.                                                  *)

\* The administrator of the node makes a volume of their own in the group.
ForeignCreate ==
  /\ vg.there /\ ~foreign /\ lvmFaults < MaxLvmFaults
  /\ foreign' = TRUE /\ lvmFaults' = lvmFaults + 1
  /\ marks' = IF poolReq.pc = "vgremove" THEN marks \union {"late"} ELSE marks
  /\ UNCHANGED <<vg, pv, stale, lv, lvBdev, lvLock, poolReq, replReq, lvmOps, confirmed>>

\* The engine dies and starts again: bdevs and requests are gone, LVM is as it is.
LvmRestart ==
  /\ vg.there /\ lvmFaults < MaxLvmFaults
  /\ lvmFaults' = lvmFaults + 1
  /\ lvBdev' = NoLv /\ lvLock' = "none" /\ poolReq' = NoRequest /\ replReq' = NoRequest
  /\ marks' = marks \ {"overtaken", "unnoticed", "unreverted"}
  /\ UNCHANGED <<diskVars, lv, lvmOps, confirmed>>

LvmNext ==
  \/ \E op \in {"create", "import", "export", "destroy"} : PoolArrives(op)
  \/ PoolStep
  \/ \E op \in {"create", "createShared", "share", "unshare", "resize", "destroy", "list"},
        hosts \in LvHostSets, size \in LvSizes, named \in BOOLEAN : ReplArrives(op, hosts, size, named)
  \/ ReplStep
  \/ ForeignCreate \/ LvmRestart

LvmSpec == LvmInit /\ [][LvmNext]_lvmVars

-----------------------------------------------------------------------------
(* Properties                                                              *)

\* The state has its type, and the lock belongs to a request that is served.
LvmTypeOK ==
  /\ vg \in [there : BOOLEAN, ours : BOOLEAN] /\ pv \in BOOLEAN /\ foreign \in BOOLEAN
  /\ lv \in Volumes \union {NoLv} /\ lvBdev \in Bdevs \union {NoLv}
  /\ lvLock = "pool" => poolReq # NoRequest
  /\ lvLock = "replica" => replReq # NoRequest
  /\ vg.ours => vg.there

\* Across restarts, exports and imports, whatever the other service does in
\* between: a volume that is loaded while nothing is confirmed of it is shared, and to
\* the hosts, as was last confirmed to a client.  (A tag of several hosts is the
\* exception: it is not read back as it was written.)
SharedAsAsked ==
  poolReq = NoRequest /\ replReq = NoRequest /\ lvBdev # NoLv /\ confirmed.known
    => /\ lvBdev.share = confirmed.share
       /\ (\A t \in lv.hosts : Cardinality(t) <= 1) => lvBdev.hosts = confirmed.hosts

\* An exported pool has nothing loaded, unless a replica was looked up before the
\* tag went and loaded after the export had unloaded it.
ExportedIsUnloaded == ~vg.ours /\ "overtaken" \notin marks /\ poolReq = NoRequest => lvBdev = NoLv

\* resize() reverts the volume when the bdev does not follow: a bdev does not
\* reach beyond its volume once the request has ended, unless reverting failed or
\* the pool's volumes were loaded meanwhile.
NeverBeyondLv ==
  replReq = NoRequest /\ lvBdev # NoLv /\ marks \intersect {"unnoticed", "unreverted"} = {}
    => lvBdev.size <= lv.size

\* The bdevs of the volumes of an LVM pool follow the volumes: in sharing, in
\* being there, and in size.
LvmIsSound == LvmTypeOK /\ SharedAsAsked /\ ExportedIsUnloaded /\ NeverBeyondLv
=============================================================================
