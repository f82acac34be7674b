-------------------------------- MODULE LvsPool --------------------------------
(***************************************************************************)
(* The life of a pool on one disk (lvs_store.rs), as version 1 of the gRPC *)
(* API drives it (grpc/v1/pool.rs, grpc/v1/replica.rs).  A pool is an lvol *)
(* store on the base bdev of the disk, or on a crypto vbdev above it; it   *)
(* holds one replica.  A request is a future on the primary reactor, and   *)
(* an action is what it does between two awaits.  What SPDK does while the *)
(* future waits (load, create or unload a store, delete a bdev) belongs to *)
(* the action that resumes it, except the unload of a store, whose end and *)
(* the resumption of the future are two steps.                             *)
(*                                                                         *)
(* Two locks keep requests apart.  A gRPC service runs one request at a    *)
(* time, but only while the client waits: the future of a client that went *)
(* away runs on, and the next request starts.  The resource lock of a      *)
(* pool's name is held by the future itself; who finds it taken fails.     *)
(***************************************************************************)
EXTENDS Naturals, FiniteSets

CONSTANTS
  Reqs,       \* the futures that may run at the same time
  Names,      \* the names of pools
  Ops,        \* what clients ask for: [kind, name, uuid, enc], uuid 0 if not given
  MaxOps,     \* bound on the requests
  MaxEvents   \* bound on the clients that go away, the hot removals of the disk,
              \* the restarts of the engine and the calls to SPDK that fail

VARIABLES
  disk,       \* the store on the disk
  base,       \* whether the base bdev exists
  crypto,     \* the names of the pools whose crypto vbdev exists
  going,      \* the bdevs that are deleted once the store above them is removed
  lvs,        \* the store that is loaded
  shared,     \* the stores, by uuid, whose replica is an NVMe-oF target
  info,       \* the names in POOL_INFO
  rpc,        \* the requests that run
  served, cancels, hots, crashes, faults,
  stuck,      \* a bdev could not be deleted
  unshared,   \* a share, an unshare or an unload failed
  dropped,    \* a failed creation of a crypto vbdev deleted the bdev of a store
  taken,      \* another request deleted the bdev of a store
  mismatched, \* a store was loaded by the import of a pool of another name
  dangling    \* a future used a store that was freed while it waited

bounds == <<served, cancels, hots, crashes>>
ghosts == <<unshared, dropped, mismatched, dangling>>
bdevs == <<base, crypto, going>>
lvsPoolVars == <<disk, bdevs, lvs, shared, info, rpc, bounds, faults, stuck, taken, ghosts>>

\* A store on the disk has a name and a uuid; it is encrypted or not; prop is
\* the property "shared" of its replica.  One that is loaded also has the bdev
\* it is on (top), its address (id), and who removes it.
None == [name |-> "none"]
Store(n, u, e, p) == [name |-> n, uuid |-> u, enc |-> e, prop |-> p]
FreshUuid(n) == n + 2

Load(d, id) ==
  [name |-> d.name, uuid |-> d.uuid, top |-> IF d.enc THEN d.name ELSE "disk",
   prop |-> d.prop, removing |-> "no", id |-> id]

\* What a future keeps of a store while it waits.
Handle(l) == [name |-> l.name, uuid |-> l.uuid, top |-> l.top, id |-> l.id]
Alive(h) == lvs # None /\ lvs.id = h.id

Idle == [pc |-> "idle"]
Request(o) ==
  [pc |-> "new", op |-> o, seq |-> served + 1, created |-> FALSE, createdCrypto |-> FALSE,
   store |-> None, failed |-> FALSE, waits |-> FALSE, attached |-> TRUE]
Busy == {r \in Reqs : rpc[r] # Idle}
Unlucky == cancels + hots + crashes + faults < MaxEvents

PoolInit ==
  /\ disk \in {None} \cup {Store(n, 1, e, TRUE) : n \in Names, e \in BOOLEAN}
  /\ base = FALSE /\ crypto = {} /\ going = {} /\ lvs = None /\ shared = {} /\ info = {}
  /\ rpc = [r \in Reqs |-> Idle]
  /\ served = 0 /\ cancels = 0 /\ hots = 0 /\ crashes = 0 /\ faults = 0
  /\ stuck = FALSE /\ unshared = FALSE /\ dropped = FALSE /\ taken = FALSE
  /\ mismatched = FALSE /\ dangling = FALSE

-----------------------------------------------------------------------------
(* Bdevs and stores.                                                       *)

\* The bdev the store of a pool is on: pool_bdev_name.
Top(o) == IF o.enc THEN o.name ELSE "disk"
Exists(t) == IF t = "disk" THEN base ELSE t \in crypto

\* Bdev::is_claimed(): by the store on it or, the base bdev, by a crypto vbdev.
IsClaimed(t) == (lvs # None /\ lvs.top = t) \/ (t = "disk" /\ crypto # {})

\* Lvs::lookup() also finds a store that is being removed, base_bdev() does not.
Lookup(n) == lvs # None /\ lvs.name = n
LvsRemoving == lvs.removing # "no"

\* What is read through the bdev t makes sense.
Readable(t) == disk # None /\ t = IF disk.enc THEN disk.name ELSE "disk"

\* The store is on the bdev t, or on a vbdev above it.
Carries(t) == lvs # None /\ t \in {"disk", lvs.top}

\* A bdev that goes takes those above it with it; SPDK removes the store first.
Above(t) == IF t = "disk" THEN {"disk"} \cup crypto ELSE {t}
Unregister(t) ==
  IF Carries(t)
    THEN /\ going' = going \cup Above(t)
         /\ lvs' = IF LvsRemoving THEN lvs ELSE [lvs EXCEPT !.removing = "hot"]
         /\ UNCHANGED <<base, crypto>>
    ELSE /\ base' = (base /\ t # "disk") /\ crypto' = crypto \ Above(t)
         /\ UNCHANGED <<going, lvs>>

\* The store is gone, and with it the bdevs that waited for that.
StoreGone ==
  /\ lvs' = None
  /\ base' = (base /\ "disk" \notin going) /\ crypto' = crypto \ going /\ going' = {}

-----------------------------------------------------------------------------
(* Where a request goes next.                                              *)

To(r, q) == rpc' = [rpc EXCEPT ![r] = q]
Goto(q, p) == [q EXCEPT !.pc = p]

\* LvsBackendBdevs::undo() deletes what this request created.
Undo(q) ==
  IF q.createdCrypto THEN Goto(q, "undoCrypto")
  ELSE IF q.created THEN Goto(q, "undoBase") ELSE Idle

\* An export ends with the reply or, if the import found another store than the
\* one it was asked for, with the undo of the import.
ExportEnds(q) == IF q.op.kind \in {"create", "import"} THEN Undo(q) ELSE Idle

\* export() and destroy() of a store.  Only destroy() stops the targets before
\* it looks whether the store is being removed.
Destroy(q, l) == [q EXCEPT !.pc = "unshare", !.store = Handle(l)]
Export(q, l) ==
  IF l.removing # "no" THEN ExportEnds(q) ELSE [q EXCEPT !.pc = "unshare", !.store = Handle(l)]

-----------------------------------------------------------------------------
(* The locks.                                                              *)

Service(k) == IF k \in {"share", "unshare"} THEN "replica" ELSE "pool"

\* RWSerializer::locked(): the lock of the service, while its client waits.
Served(k) == \E r \in Busy : rpc[r].attached /\ Service(rpc[r].op.kind) = Service(k)

\* acquire_subsystem_lock(): the lock of the pool's name is taken.
PoolLocked(n) == \E r \in Busy : rpc[r].op.name = n

-----------------------------------------------------------------------------
(* Requests arrive.                                                        *)

\* RWSerializer::locked() of a service; one that must wait arrives later.
Arrive(r, o) ==
  /\ rpc[r] = Idle /\ served < MaxOps
  /\ \A s \in Reqs : rpc[s] = Idle => r <= s
  /\ ~Served(o.kind)
  /\ served' = served + 1
  /\ UNCHANGED <<disk, lvs, shared, info, cancels, hots, crashes, faults, stuck, taken, ghosts>>

\* LvsBackendBdevs::new() and Lvs::import() up to the call that reads the disk.
\* A bdev that exists is taken as it is.  The crypto vbdev cannot be created on
\* a base bdev that is in use; the base bdev is then deleted, whoever made it.
NewBackend(r, o) ==
  /\ ~Lookup(o.name)
  /\ base' = TRUE
  /\ UNCHANGED going
  /\ LET needed == o.enc /\ o.name \notin crypto
         q == [Request(o) EXCEPT !.created = ~base, !.createdCrypto = needed /\ ~IsClaimed("disk")]
     IN  /\ crypto' = IF q.createdCrypto THEN crypto \cup {o.name} ELSE crypto
         /\ To(r, IF needed /\ ~q.createdCrypto THEN Goto(q, "noCrypto")
                  ELSE IF IsClaimed(Top(o)) THEN Undo(q) ELSE Goto(q, "import"))

\* GrpcPoolFactory::create() and import() take the lock of the name.
FactoryCreate(r, o) == ~PoolLocked(o.name) /\ NewBackend(r, o)
FactoryImport(r, o) == ~PoolLocked(o.name) /\ NewBackend(r, o)

CreatePool(r, o) == o.kind = "create" /\ Arrive(r, o) /\ FactoryCreate(r, o)
ImportPool(r, o) == o.kind = "import" /\ Arrive(r, o) /\ FactoryImport(r, o)

\* GrpcPoolFactory::finder(): the pool is found first, and locked then.
Finder(o) == Lookup(o.name) /\ ~PoolLocked(o.name)

ExportPool(r, o) ==
  /\ o.kind = "export" /\ Finder(o)
  /\ Arrive(r, o)
  /\ To(r, Export(Request(o), lvs))
  /\ UNCHANGED bdevs

DestroyPool(r, o) ==
  /\ o.kind = "destroy" /\ Finder(o)
  /\ Arrive(r, o)
  /\ To(r, Destroy(Request(o), lvs))
  /\ UNCHANGED bdevs

\* grow() up to its first await: that of an encrypted pool first waits until the
\* crypto vbdev has the new size.
Grow(q, l) ==
  [q EXCEPT !.pc = IF l.top = "disk" THEN "grow" ELSE "resize", !.store = Handle(l)]

GrowPool(r, o) ==
  /\ o.kind = "grow" /\ Finder(o) /\ ~LvsRemoving
  /\ Arrive(r, o)
  /\ To(r, Grow(Request(o), lvs))
  /\ UNCHANGED bdevs

\* ReplicaGrpc::share() and unshare(): nothing to do if it is so already.
ShareReplica(r, o) ==
  /\ o.kind = "share" /\ Finder(o) /\ lvs.uuid \notin shared
  /\ Arrive(r, o)
  /\ To(r, [Request(o) EXCEPT !.pc = "target", !.store = Handle(lvs)])
  /\ UNCHANGED bdevs

UnshareReplica(r, o) ==
  /\ o.kind = "unshare" /\ Finder(o) /\ lvs.uuid \in shared
  /\ Arrive(r, o)
  /\ To(r, [Request(o) EXCEPT !.pc = "noTarget", !.store = Handle(lvs)])
  /\ UNCHANGED bdevs

-----------------------------------------------------------------------------
(* A store is loaded or created.                                           *)

At(r, p) == rpc[r].pc = p

\* A future goes on with the store h it had before it waited.
Uses(h) == dangling' = (dangling \/ ~Alive(h))

\* A bdev t is deleted by name, and the future waits until it is gone; q is
\* where it goes then.  The deletion may fail.
Delete(r, t, q) ==
  LET waits == rpc[r].waits
      woken == IF q = Idle THEN Idle ELSE [q EXCEPT !.waits = FALSE]
  IN  \/ /\ ~waits /\ t \notin going
         /\ Unregister(t)
         /\ To(r, IF Carries(t) THEN [rpc[r] EXCEPT !.waits = TRUE] ELSE woken)
         /\ UNCHANGED <<faults, stuck>>
      \/ /\ IF waits THEN t \notin going ELSE t \in going
         /\ To(r, woken)
         /\ UNCHANGED <<bdevs, lvs, faults, stuck>>
      \/ /\ ~waits /\ t \notin going /\ Exists(t) /\ Unlucky
         /\ faults' = faults + 1 /\ stuck' = TRUE
         /\ To(r, woken)
         /\ UNCHANGED <<bdevs, lvs>>

\* The crypto vbdev could not be created.
DropBase(r) ==
  /\ At(r, "noCrypto")
  /\ Delete(r, "disk", Idle)
  /\ dropped' = (dropped \/ (going' # going /\ ~rpc[r].created))
  /\ UNCHANGED <<disk, shared, info, bounds, taken, unshared, mismatched, dangling>>

\* vbdev_lvs_import() answers.  If the disk holds no store that can be read, the
\* answer is EILSEQ, and a request to create a pool goes on to create it.  A
\* store of another name is exported again.
ImportDone(r) ==
  /\ At(r, "import")
  /\ LET q == rpc[r]
         t == Top(q.op)
         free == Exists(t) /\ ~IsClaimed(t)
         l == Load(disk, q.seq)
     IN  /\ lvs' = IF free /\ Readable(t) THEN l ELSE lvs
         /\ To(r, IF free /\ Readable(t)
                    THEN IF l.name = q.op.name
                           THEN [q EXCEPT !.pc = "shareAll", !.store = Handle(l)]
                           ELSE Export(q, l)
                  ELSE IF free /\ q.op.kind = "create" THEN Goto(q, "create") ELSE Undo(q))
         /\ mismatched' = (mismatched \/ (free /\ Readable(t) /\ l.name # q.op.name))
  /\ UNCHANGED <<disk, bdevs, shared, info, bounds, faults, stuck, taken, unshared, dropped, dangling>>

\* share_all() and the end of import(): the replica is shared, or that fails;
\* the pool is known to POOL_INFO, and stalls of its I/O are detected.
ShareAllDone(r) ==
  /\ At(r, "shareAll")
  /\ LET q == rpc[r]
         h == q.store
     IN  /\ Uses(h)
         /\ To(r, Goto(q, "collect"))
         /\ info' = info \cup {h.name}
         /\ \/ /\ shared' = IF Alive(h) /\ lvs.prop THEN shared \cup {h.uuid} ELSE shared
               /\ UNCHANGED <<faults, unshared>>
            \/ /\ Unlucky
               /\ faults' = faults + 1 /\ unshared' = TRUE
               /\ shared' = shared \ {h.uuid}
  /\ UNCHANGED <<disk, bdevs, lvs, bounds, stuck, taken, dropped, mismatched>>

\* The end of import_from_args_(): the discarded snapshots have been destroyed,
\* and a pool of another uuid is exported again.
CheckUuid(r) ==
  /\ At(r, "collect")
  /\ LET q == rpc[r]
         h == q.store
     IN  /\ Uses(h)
         /\ To(r, IF q.op.uuid \in {0, h.uuid} THEN Idle
                  ELSE IF Alive(h) THEN Export(q, lvs) ELSE ExportEnds(q))
  /\ UNCHANGED <<disk, bdevs, lvs, shared, info, bounds, faults, stuck, taken, unshared, dropped, mismatched>>

\* create_from_args_inner(): the store is written and loaded, or that fails.
CreateDone(r) ==
  /\ At(r, "create")
  /\ LET q == rpc[r]
         t == Top(q.op)
         d == Store(q.op.name, IF q.op.uuid = 0 THEN FreshUuid(q.seq) ELSE q.op.uuid, q.op.enc, FALSE)
     IN  \/ /\ Exists(t) /\ ~IsClaimed(t)
            /\ disk' = d /\ lvs' = Load(d, q.seq)
            /\ info' = info \cup {d.name}
            /\ To(r, Idle)
            /\ UNCHANGED faults
         \/ /\ Exists(t) /\ ~IsClaimed(t) => Unlucky
            /\ faults' = IF Exists(t) /\ ~IsClaimed(t) THEN faults + 1 ELSE faults
            /\ To(r, Undo(q))
            /\ UNCHANGED <<disk, lvs, info>>
  /\ UNCHANGED <<bdevs, shared, bounds, stuck, taken, ghosts>>

-----------------------------------------------------------------------------
(* A store is unloaded or destroyed.                                       *)

\* unshare_all(), then the call that unloads the store, or destroys it.  The
\* call finds no store if it is gone or is being removed already.
UnshareAllDone(r) ==
  /\ At(r, "unshare")
  /\ LET q == rpc[r]
         h == q.store
         ok == Alive(h) /\ ~LvsRemoving
     IN  /\ \/ /\ shared' = IF Alive(h) THEN shared \ {h.uuid} ELSE shared
               /\ UNCHANGED <<faults, unshared>>
            \/ /\ Unlucky /\ h.uuid \in shared
               /\ faults' = faults + 1 /\ unshared' = TRUE /\ UNCHANGED shared
         /\ lvs' = IF ok THEN [lvs EXCEPT !.removing = "unload"] ELSE lvs
         /\ To(r, IF ok THEN Goto(q, "unload")
                  ELSE IF q.op.kind = "destroy" THEN Idle
                  ELSE [q EXCEPT !.pc = "unloaded", !.failed = TRUE])
  /\ UNCHANGED <<disk, bdevs, info, bounds, stuck, taken, dropped, mismatched, dangling>>

\* SPDK unloads or destroys the store.  If that fails, the store may be gone; if
\* it is not, its targets are gone all the same.
Unload(r) ==
  /\ At(r, "unload")
  /\ LET q == rpc[r]
     IN  \/ /\ StoreGone
            /\ disk' = IF q.op.kind = "destroy" THEN None ELSE disk
            /\ To(r, Goto(q, "unloaded"))
            /\ UNCHANGED <<faults, unshared>>
         \/ /\ Unlucky
            /\ faults' = faults + 1 /\ unshared' = TRUE
            /\ \/ StoreGone
               \/ going = {} /\ lvs' = [lvs EXCEPT !.removing = "no"] /\ UNCHANGED bdevs
            /\ To(r, [q EXCEPT !.pc = "unloaded", !.failed = TRUE])
            /\ UNCHANGED disk
  /\ UNCHANGED <<shared, info, bounds, stuck, taken, dropped, mismatched, dangling>>

\* export() and destroy() go on: a store that is gone has no PoolInfo, and the
\* bdevs below it are looked up by name and deleted (lvs_cleanup).
Unloaded(r) ==
  /\ At(r, "unloaded")
  /\ LET q == rpc[r]
         t == q.store.top
         gone == ~Lookup(q.store.name)
     IN  /\ info' = IF gone THEN info \ {q.store.name} ELSE info
         /\ To(r, IF (q.failed /\ ~gone) \/ ~Exists(t) THEN ExportEnds(q)
                  ELSE Goto(q, IF t = "disk" THEN "cleanBase" ELSE "cleanCrypto"))
  /\ UNCHANGED <<disk, bdevs, lvs, shared, bounds, faults, stuck, taken, ghosts>>

\* undo() and lvs_cleanup(): the crypto vbdev, then the base bdev.
CleanUp(r, t, q) ==
  /\ Delete(r, t, q)
  /\ taken' = (taken \/ (going' # going /\ going' # {} /\ lvs.id # rpc[r].seq))
  /\ UNCHANGED <<disk, shared, info, bounds, ghosts>>

UndoCrypto(r) ==
  /\ At(r, "undoCrypto")
  /\ CleanUp(r, rpc[r].op.name, IF rpc[r].created THEN Goto(rpc[r], "undoBase") ELSE Idle)

UndoBase(r) ==
  /\ At(r, "undoBase")
  /\ CleanUp(r, "disk", Idle)

CleanCrypto(r) ==
  /\ At(r, "cleanCrypto")
  /\ CleanUp(r, rpc[r].store.top, IF base THEN Goto(rpc[r], "cleanBase") ELSE ExportEnds(rpc[r]))

CleanBase(r) ==
  /\ At(r, "cleanBase")
  /\ CleanUp(r, "disk", ExportEnds(rpc[r]))

-----------------------------------------------------------------------------
(* The other requests.                                                     *)

\* crypto_vbdev_resized(): the vbdev has followed the disk, or has not in time.
CryptoResized(r) ==
  /\ At(r, "resize")
  /\ Uses(rpc[r].store)
  /\ \/ Alive(rpc[r].store) /\ ~LvsRemoving /\ To(r, Goto(rpc[r], "grow"))
     \/ To(r, Idle)
  /\ UNCHANGED <<disk, bdevs, lvs, shared, info, bounds, faults, stuck, taken, unshared, dropped, mismatched>>

\* grow() ends, well or not; it reads the capacity of the store.
GrowDone(r) ==
  /\ At(r, "grow")
  /\ Uses(rpc[r].store)
  /\ To(r, Idle)
  /\ UNCHANGED <<disk, bdevs, lvs, shared, info, bounds, faults, stuck, taken, unshared, dropped, mismatched>>

\* Lvol::share_nvmf() and unshare(): first the target, or that fails.
Target(r, with) ==
  LET h == rpc[r].store
  IN  /\ \/ /\ Alive(h)
            /\ shared' = with
            /\ To(r, Goto(rpc[r], "props"))
            /\ UNCHANGED faults
         \/ /\ Alive(h) => Unlucky
            /\ faults' = IF Alive(h) THEN faults + 1 ELSE faults
            /\ To(r, Idle)
            /\ UNCHANGED shared
      /\ UNCHANGED <<disk, bdevs, lvs, info, bounds, stuck, taken, ghosts>>

ShareNvmf(r) == At(r, "target") /\ Target(r, shared \cup {rpc[r].store.uuid})
Unshare(r) == At(r, "noTarget") /\ Target(r, shared \ {rpc[r].store.uuid})

\* Mutant: the property is not written.
SetPropsOnly(r) ==
  /\ At(r, "props")
  /\ LET q == rpc[r]
     IN  /\ Uses(q.store)
         /\ lvs' = IF Alive(q.store) THEN [lvs EXCEPT !.prop = (q.op.kind = "share")] ELSE lvs
         /\ To(r, Idle)
  /\ UNCHANGED <<disk, bdevs, shared, info, bounds, faults, stuck, taken, unshared, dropped, mismatched>>

\* Then the property: set_no_sync() sets it in memory.
SetProps(r) ==
  /\ At(r, "props")
  /\ LET q == rpc[r]
     IN  /\ Uses(q.store)
         /\ lvs' = IF Alive(q.store) THEN [lvs EXCEPT !.prop = (q.op.kind = "share")] ELSE lvs
         /\ To(r, Goto(q, "sync"))
  /\ UNCHANGED <<disk, bdevs, shared, info, bounds, faults, stuck, taken, unshared, dropped, mismatched>>

\* sync_metadata() writes it, unless the store is being removed.
SyncMetadata(r) ==
  /\ At(r, "sync")
  /\ LET ok == Alive(rpc[r].store) /\ ~LvsRemoving
     IN  /\ disk' = IF ok THEN [disk EXCEPT !.prop = lvs.prop] ELSE disk
         /\ unshared' = (unshared \/ ~ok)
  /\ To(r, Idle)
  /\ UNCHANGED <<bdevs, lvs, shared, info, bounds, faults, stuck, taken, dropped, mismatched, dangling>>

-----------------------------------------------------------------------------
(* What happens to the engine.                                             *)

\* The client of a request goes away: the service takes the next request.
Cancel(r) ==
  /\ rpc[r] # Idle /\ rpc[r].attached /\ Unlucky
  /\ cancels' = cancels + 1
  /\ To(r, [rpc[r] EXCEPT !.attached = FALSE])
  /\ UNCHANGED <<disk, bdevs, lvs, shared, info, served, hots, crashes, faults, stuck, taken, ghosts>>

HotRemove ==
  /\ base /\ "disk" \notin going /\ Unlucky
  /\ hots' = hots + 1
  /\ Unregister("disk")
  /\ UNCHANGED <<disk, shared, info, rpc, served, cancels, crashes, faults, stuck, taken, ghosts>>

\* SPDK has removed a store whose bdev goes.
LvsRemoved ==
  /\ lvs # None /\ lvs.removing = "hot"
  /\ StoreGone
  /\ UNCHANGED <<disk, shared, info, rpc, bounds, faults, stuck, taken, ghosts>>

\* The engine is started again.
Crash ==
  /\ Unlucky
  /\ crashes' = crashes + 1
  /\ base' = FALSE /\ crypto' = {} /\ going' = {} /\ lvs' = None /\ shared' = {} /\ info' = {}
  /\ rpc' = [r \in Reqs |-> Idle]
  /\ stuck' = FALSE /\ unshared' = FALSE
  /\ UNCHANGED <<disk, served, cancels, hots, faults, taken, dropped, mismatched, dangling>>

Step(r) ==
  \/ DropBase(r) \/ ImportDone(r) \/ ShareAllDone(r) \/ CheckUuid(r) \/ CreateDone(r)
  \/ UnshareAllDone(r) \/ Unload(r) \/ Unloaded(r)
  \/ UndoCrypto(r) \/ CleanCrypto(r) \/ UndoBase(r) \/ CleanBase(r)
  \/ CryptoResized(r) \/ GrowDone(r) \/ ShareNvmf(r) \/ Unshare(r) \/ SetProps(r) \/ SyncMetadata(r)

PoolNext ==
  \/ \E r \in Reqs, o \in Ops :
       \/ CreatePool(r, o) \/ ImportPool(r, o) \/ ExportPool(r, o) \/ DestroyPool(r, o)
       \/ GrowPool(r, o) \/ ShareReplica(r, o) \/ UnshareReplica(r, o)
  \/ \E r \in Reqs : Step(r) \/ Cancel(r)
  \/ HotRemove \/ LvsRemoved \/ Crash

\* The reactor polls every future, and SPDK answers every call.
PoolFairness == WF_lvsPoolVars(LvsRemoved) /\ \A r \in Reqs : WF_lvsPoolVars(Step(r))
PoolSpec == PoolInit /\ [][PoolNext]_lvsPoolVars /\ PoolFairness

-----------------------------------------------------------------------------
(* Properties.                                                             *)

\* The state has its type; POOL_INFO and the crypto vbdevs are of known pools.
PoolTypeOK ==
  /\ lvs # None => lvs.name \in Names /\ lvs.top \in Names \cup {"disk"}
                   /\ lvs.removing \in {"no", "hot", "unload"}
  /\ crypto \subseteq Names /\ info \subseteq Names /\ Cardinality(crypto) <= 1
  /\ crypto # {} => base

\* A store that is loaded and not being removed is the store on the disk, and
\* the bdev it is on exists: no import, create or destroy swaps it underneath.
LoadedIsOnDisk ==
  lvs # None /\ ~LvsRemoving =>
    Exists(lvs.top) /\ disk # None /\ disk.name = lvs.name /\ disk.uuid = lvs.uuid

\* When no request runs, the bdevs that exist are those of the loaded store:
\* what a failed create or import made is undone, and export and destroy leave
\* nothing, unless a deletion failed.
NoLeakedBdev ==
  Busy = {} /\ ~stuck /\ base => lvs # None /\ crypto \subseteq {lvs.top}

\* A pool that is loaded is in POOL_INFO once no request runs: the export of a
\* store that stayed loaded, or came back, does not forget it; unless a pool that
\* was found by a wrong name could be neither unloaded nor its bdev deleted.
LoadedHasInfo == Busy = {} /\ ~stuck /\ lvs # None /\ ~LvsRemoving => lvs.name \in info

\* The store on the disk goes only with the destroy of that pool, or when a pool
\* is created through a bdev that cannot read it.
PoolGoes ==
  disk # None /\ (disk' = None \/ disk'.uuid # disk.uuid \/ disk'.name # disk.name) =>
    \E r \in Busy : \/ At(r, "unload") /\ rpc[r].op.kind = "destroy" /\ rpc[r].op.name = disk.name
                    \/ At(r, "create") /\ ~Readable(Top(rpc[r].op))
PoolsKept == [][PoolGoes]_lvsPoolVars

\* When no request runs, the replica of a loaded pool is a target exactly if its
\* property on the disk says so: shares survive export, import, hot removal and
\* restart, unless a share or an unshare failed.
SharesRestored ==
  Busy = {} /\ lvs # None /\ ~LvsRemoving /\ ~unshared =>
    (lvs.uuid \in shared) = disk.prop /\ lvs.prop = disk.prop

\* No future goes on with a store that was freed while it waited, unless the
\* bdev was taken from under the store.
UsesLiveStore == dangling => taken \/ dropped \/ mismatched \/ hots > 0

\* What is loaded, what is on the disk, what is listed and what is shared agree
\* once no request runs, futures use stores that are there, and no pool is lost
\* unless its destroy was asked for.
PoolIsSound ==
  /\ [](PoolTypeOK /\ LoadedIsOnDisk /\ NoLeakedBdev /\ LoadedHasInfo /\ SharesRestored /\ UsesLiveStore)
  /\ PoolsKept
=============================================================================
