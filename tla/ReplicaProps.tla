----------------------------- MODULE ReplicaProps -----------------------------
(***************************************************************************)
(* The properties of a replica of a pool (lvs_lvol.rs) under the requests  *)
(* of both versions of the API (grpc/v0/mayastor_grpc.rs,                  *)
(* grpc/v1/replica.rs): whether it is shared and with which hosts, its     *)
(* entity id and its size.  Each property lives in three places: in the    *)
(* NVMe-oF target, in the metadata in memory and in the metadata on the    *)
(* disk.  A property that is the same in memory already is not written     *)
(* again.  An update of the hosts is not written at all; the next write    *)
(* of any property takes it along.                                         *)
(*                                                                         *)
(* Each version of the API has a lock, which is held while the client      *)
(* waits; version 1 also takes the lock of the pool for some requests.     *)
(***************************************************************************)
EXTENDS Naturals, FiniteSets

CONSTANTS
  Callers,    \* the futures of requests
  HostLists,  \* the lists of hosts requests come with; an empty one allows any
  Entities,   \* entity ids
  Sizes,      \* sizes of the replica
  MaxCalls,   \* bound on the requests
  MaxTroubles \* bound on failures, crashes and clients that go away

VARIABLES
  blob,       \* the properties on the disk, NoBlob without a replica
  meta,       \* the properties in memory
  live,       \* the list of hosts the target serves, none when it is not shared
  pool,       \* "down", "importing" or "up"
  call,       \* the requests
  told,       \* ghost: the replica as the last answer described it, or Unknown
  unclear,    \* ghost: since the import a call has failed or requests overlapped
  callCount, troubles

propVars == <<blob, meta, live, pool, call, told, unclear, callCount, troubles>>

NoBlob == [there |-> FALSE]
Unknown == [unknown |-> TRUE]
Waiting == [pc |-> "none"]

\* An Option is the set of its value.
None == {}
Some(x) == {x}

Fresh(size) == [there |-> TRUE, shared |-> None, hosts |-> None, entity |-> None, size |-> size]

PropInit ==
  /\ blob \in {NoBlob, [Fresh(1) EXCEPT !.shared = Some(TRUE), !.hosts = Some({})]}
  /\ meta = NoBlob /\ live = None /\ pool = "down"
  /\ call = [c \in Callers |-> Waiting]
  /\ told = Unknown /\ unclear = FALSE /\ callCount = 0 /\ troubles = 0

Here == meta.there
SharedNow == live # None     \* shared() = Some(Protocol::Nvmf)
Underway == {c \in Callers : call[c] # Waiting}

Trouble == troubles < MaxTroubles /\ troubles' = troubles + 1
NoTrouble == UNCHANGED troubles

-----------------------------------------------------------------------------
(* Requests come and are answered.                                         *)

\* MayastorSvc::locked() and ReplicaService::locked().
ServedBy(api) == \E c \in Underway : call[c].api = api /\ call[c].attached

\* acquire_subsystem_lock() of the pool; the import holds it too.
PoolLock == pool = "importing" \/ \E c \in Underway : call[c].locks

\* The requests of each version of the API.
Operations == [v0 |-> {"create", "destroy", "share", "off"},
               v1 |-> {"create", "destroy", "share", "off", "unshare", "entity", "resize"}]

\* A request comes; what it does not use has a fixed value.
ArriveCall(c, api, op, hosts, id, size) ==
  /\ pool # "down" /\ call[c] = Waiting /\ ~ServedBy(api)
  /\ \A d \in Callers : call[d] = Waiting => c <= d
  /\ op \in {"create", "share"} \/ hosts = {}
  /\ op = "resize" \/ size = 1
  /\ callCount' = callCount + 1
  /\ call' = [d \in Callers |->
       IF d = c THEN [api |-> api, op |-> op, pc |-> "begin", hosts |-> hosts, id |-> id,
                      size |-> size, attached |-> TRUE, locks |-> FALSE]
                ELSE call[d]]
  /\ unclear' = (unclear \/ Underway # {} \/ pool = "importing")
  /\ UNCHANGED <<blob, meta, live, pool, told, troubles>>

Begins(c, api, ops) ==
  /\ call[c] # Waiting /\ call[c].pc = "begin" /\ call[c].api = api /\ call[c].op \in ops
At(c, pc) == call[c].pc = pc

\* The replica as From<Lvol> describes it in an answer.
Description(m, l) ==
  IF ~m.there THEN NoBlob
  ELSE [there |-> TRUE, shared |-> l # None, hosts |-> l, entity |-> m.entity, size |-> m.size]

\* The request succeeds, is turned down before it did anything, or fails.
Answer(c) ==
  /\ call' = [call EXCEPT ![c] = Waiting]
  /\ told' = Description(meta', live')
  /\ UNCHANGED unclear
TurnDown(c) == call' = [call EXCEPT ![c] = Waiting] /\ UNCHANGED <<told, unclear>>
Fail(c) ==
  /\ call' = [call EXCEPT ![c] = Waiting] /\ told' = Unknown /\ unclear' = TRUE

Continue(c, pc) ==
  /\ call' = [call EXCEPT ![c].pc = pc] /\ told' = Unknown /\ UNCHANGED unclear
ContinueLocked(c, pc) ==
  /\ call' = [call EXCEPT ![c].pc = pc, ![c].locks = TRUE]
  /\ told' = Unknown /\ UNCHANGED unclear
Quietly == UNCHANGED <<pool, callCount>>

-----------------------------------------------------------------------------
(* Properties in memory and on the disk.                                   *)

\* Mutant: set() of a property that has a value leaves it at that.
SetUnsetOnly(c, m) ==
  IF m = meta \/ meta.shared # None
    THEN meta' = m /\ Answer(c)
    ELSE meta' = m /\ Continue(c, "sync")

\* set_props(), set() and set_no_sync(): only what differs from the metadata in
\* memory is written.
SetProperties(c, m) ==
  IF m = meta THEN UNCHANGED meta /\ Answer(c)
              ELSE meta' = m /\ Continue(c, "sync")

\* sync_metadata(): all of the metadata is written.  Without it a replica that
\* was to be created goes again.
PropsSynced(c) ==
  /\ call[c].pc \in {"sync", "id"} /\ Here
  /\ \/ /\ NoTrouble /\ blob' = meta /\ UNCHANGED <<meta, live>>
        /\ Answer(c) \/ (At(c, "id") /\ Continue(c, "share"))
     \/ /\ Trouble /\ UNCHANGED <<blob, meta, live>>
        /\ IF call[c].op = "create" THEN Continue(c, "unshare") ELSE Fail(c)
  /\ Quietly

-----------------------------------------------------------------------------
(* Requests.                                                               *)

\* create_replica() and create_replica_v2() of version 0: a replica that is
\* there is what was asked for.
CreateReplicaV0(c) ==
  /\ Begins(c, "v0", {"create"})
  /\ UNCHANGED <<blob, meta, live>> /\ Quietly /\ NoTrouble
  /\ IF Here THEN Answer(c) ELSE Continue(c, "create")

\* create_replica() of version 1 locks the pool; create_lvol_with_opts() turns
\* down the uuid of a replica that is there.
CreateReplicaV1(c) ==
  /\ Begins(c, "v1", {"create"})
  /\ UNCHANGED <<blob, meta, live>> /\ Quietly /\ NoTrouble
  /\ IF Here \/ PoolLock THEN TurnDown(c) ELSE ContinueLocked(c, "create")

\* The lvol is made and wiped, or not; an id that clients gave is set.
LvolCreated(c) ==
  /\ At(c, "create")
  /\ \/ /\ ~Here /\ NoTrouble
        /\ blob' = Fresh(call[c].size) /\ live' = None
        /\ \/ meta' = blob' /\ (Answer(c) \/ Continue(c, "share"))
           \/ /\ call[c].api = "v1"
              /\ meta' = [blob' EXCEPT !.entity = Some(call[c].id)] /\ Continue(c, "id")
     \/ /\ IF Here THEN NoTrouble ELSE Trouble
        /\ UNCHANGED <<blob, meta, live>> /\ Fail(c)
  /\ Quietly

\* destroy_replica(): a replica that is not there is no error for version 0.
\* Version 1 turns down a request for the replica of another pool.
DestroyReplicaV0(c) ==
  /\ Begins(c, "v0", {"destroy"})
  /\ UNCHANGED <<blob, meta, live>> /\ Quietly /\ NoTrouble
  /\ IF Here THEN Continue(c, "unshare") ELSE Answer(c)
DestroyReplicaV1(c) ==
  /\ Begins(c, "v1", {"destroy"})
  /\ UNCHANGED <<blob, meta, live>> /\ Quietly /\ NoTrouble
  /\ \/ Here /\ Continue(c, "unshare")
     \/ TurnDown(c)

\* update_properties(): the hosts are set in memory, not on the disk.
UpdateHosts(c) ==
  /\ meta' = [meta EXCEPT !.hosts = Some(call[c].hosts)]
  /\ IF SharedNow THEN Continue(c, "update") ELSE Answer(c)

\* share_replica() of version 0: an update when the protocol is the same.
ShareReplicaV0(c) ==
  /\ Begins(c, "v0", {"share", "off"})
  /\ UNCHANGED <<blob, live>> /\ Quietly /\ NoTrouble
  /\ \/ ~Here /\ TurnDown(c) /\ UNCHANGED meta
     \/ Here /\ SharedNow = (call[c].op = "share") /\ UpdateHosts(c)
     \/ Here /\ SharedNow /\ call[c].op = "off" /\ Continue(c, "unshare") /\ UNCHANGED meta
     \/ Here /\ ~SharedNow /\ call[c].op = "share" /\ Continue(c, "share") /\ UNCHANGED meta

\* ReplicaGrpc::share(), under the lock of the pool; it does not unshare.
ShareReplicaV1(c) ==
  /\ Begins(c, "v1", {"share", "off"})
  /\ UNCHANGED <<blob, live>> /\ Quietly /\ NoTrouble
  /\ \/ (~Here \/ PoolLock) /\ TurnDown(c) /\ UNCHANGED meta
     \/ Here /\ ~PoolLock /\ SharedNow = (call[c].op = "share") /\ UpdateHosts(c)
     \/ Here /\ ~PoolLock /\ SharedNow /\ call[c].op = "off" /\ TurnDown(c) /\ UNCHANGED meta
     \/ /\ Here /\ ~PoolLock /\ ~SharedNow /\ call[c].op = "share"
        /\ ContinueLocked(c, "share") /\ UNCHANGED meta

\* ReplicaGrpc::unshare(): shared() is Some, shared or not.
UnshareReplicaV1(c) ==
  /\ Begins(c, "v1", {"unshare"})
  /\ UNCHANGED <<blob, meta, live>> /\ Quietly /\ NoTrouble
  /\ IF Here /\ ~PoolLock THEN ContinueLocked(c, "unshare") ELSE TurnDown(c)

\* set_replica_entity_id()
SetReplicaEntityId(c) ==
  /\ Begins(c, "v1", {"entity"})
  /\ UNCHANGED <<blob, live>> /\ Quietly /\ NoTrouble
  /\ IF Here THEN SetProperties(c, [meta EXCEPT !.entity = Some(call[c].id)])
             ELSE TurnDown(c) /\ UNCHANGED meta

\* resize_replica()
ResizeReplica(c) ==
  /\ Begins(c, "v1", {"resize"})
  /\ UNCHANGED <<blob, meta, live>> /\ Quietly /\ NoTrouble
  /\ IF Here THEN Continue(c, "resize") ELSE TurnDown(c)

\* lvol_resize_cb(): a size below the one asked for is an error.
Resized(c) ==
  /\ At(c, "resize") /\ Here /\ UNCHANGED live
  /\ \/ /\ NoTrouble
        /\ meta' = [meta EXCEPT !.size = call[c].size]
        /\ blob' = [blob EXCEPT !.size = call[c].size]
        /\ Answer(c)
     \/ Trouble /\ UNCHANGED <<blob, meta>> /\ Fail(c)
  /\ Quietly

\* share_nvmf(): first the target, then the properties.  The directory of the
\* reservations is made before; without it also a replica that was just made is
\* left as it is.
LvolShared(c) ==
  /\ At(c, "share") /\ Here /\ UNCHANGED blob
  /\ \/ /\ ~SharedNow /\ NoTrouble
        /\ live' = Some(call[c].hosts)
        /\ SetProperties(c, [meta EXCEPT !.shared = Some(TRUE), !.hosts = Some(call[c].hosts)])
     \/ /\ IF SharedNow THEN NoTrouble ELSE Trouble
        /\ UNCHANGED <<meta, live>>
        /\ \/ Fail(c)
           \/ call[c].op = "create" /\ Continue(c, "unshare")
  /\ Quietly

\* Bdev::update_properties() and set_allowed_hosts()
HostsUpdated(c) ==
  /\ At(c, "update") /\ Here /\ UNCHANGED <<blob, meta>>
  /\ \/ /\ NoTrouble /\ live' = IF SharedNow THEN Some(call[c].hosts) ELSE live
        /\ Answer(c)
     \/ Trouble /\ UNCHANGED live /\ Fail(c)
  /\ Quietly

\* unshare() of an lvol: the target, then the property.  destroy() does it
\* without the property and goes on when it fails.
LvolUnshared(c) ==
  /\ At(c, "unshare") /\ Here /\ UNCHANGED blob
  /\ \/ /\ NoTrouble /\ live' = None
        /\ IF call[c].op \in {"create", "destroy"}
             THEN Continue(c, "destroy") /\ UNCHANGED meta
             ELSE SetProperties(c, [meta EXCEPT !.shared = Some(FALSE)])
     \/ /\ Trouble /\ UNCHANGED <<meta, live>>
        /\ IF call[c].op \in {"create", "destroy"} THEN Continue(c, "destroy") ELSE Fail(c)
  /\ Quietly

\* The end of destroy(): the lvol is gone, and its share with it.
LvolDestroyed(c) ==
  /\ At(c, "destroy") /\ Here
  /\ \/ /\ NoTrouble /\ blob' = NoBlob /\ meta' = NoBlob /\ live' = None
        /\ IF call[c].op = "create" THEN Fail(c) ELSE Answer(c)
     \/ Trouble /\ UNCHANGED <<blob, meta, live>> /\ Fail(c)
  /\ Quietly

\* The replica is gone under a request: the other version of the API destroyed
\* it.  What the call does with its lvol is not defined; it returns.
LvolGone(c) ==
  /\ call[c].pc \notin {"none", "begin", "create"} /\ ~Here
  /\ UNCHANGED <<blob, meta, live>> /\ Quietly /\ NoTrouble /\ Fail(c)

-----------------------------------------------------------------------------
(* Clients and the engine.                                                 *)

\* The client goes away: its lock is released, the request goes on.
ClientGone(c) ==
  /\ call[c] # Waiting /\ call[c].attached /\ Trouble
  /\ call' = [call EXCEPT ![c].attached = FALSE]
  /\ UNCHANGED <<blob, meta, live, pool, told, unclear, callCount>>

\* The engine stops at any point.  The hosts of an update may be lost.
Crash ==
  /\ pool # "down" /\ Trouble
  /\ pool' = "down" /\ meta' = NoBlob /\ live' = None
  /\ call' = [c \in Callers |-> Waiting]
  /\ told' = IF told # Unknown /\ told.there /\ told.shared /\ blob.there
               THEN [told EXCEPT !.hosts = blob.hosts] ELSE told
  /\ UNCHANGED <<blob, unclear, callCount>>

\* import(): the pool can be found; then share_all() shares what the metadata
\* says is shared.
ImportLoads ==
  /\ pool = "down" /\ pool' = "importing"
  /\ meta' = blob /\ unclear' = FALSE
  /\ told' = IF unclear THEN Unknown ELSE told
  /\ UNCHANGED <<blob, live, call, callCount, troubles>>

ToShare == Here /\ ~SharedNow /\ meta.shared = Some(TRUE)

ImportShares ==
  /\ pool = "importing" /\ pool' = "up"
  /\ \/ ToShare /\ NoTrouble /\ live' = meta.hosts /\ UNCHANGED unclear
     \/ ToShare /\ Trouble /\ unclear' = TRUE /\ UNCHANGED live
     \/ ~ToShare /\ NoTrouble /\ UNCHANGED <<live, unclear>>
  /\ UNCHANGED <<blob, meta, call, told, callCount>>

PropStep(c) ==
  \/ CreateReplicaV0(c) \/ CreateReplicaV1(c) \/ DestroyReplicaV0(c) \/ DestroyReplicaV1(c)
  \/ ShareReplicaV0(c) \/ ShareReplicaV1(c) \/ UnshareReplicaV1(c)
  \/ SetReplicaEntityId(c) \/ ResizeReplica(c)
  \/ LvolCreated(c) \/ LvolShared(c) \/ HostsUpdated(c) \/ LvolUnshared(c) \/ LvolDestroyed(c)
  \/ PropsSynced(c) \/ Resized(c) \/ LvolGone(c)

PropNext ==
  \/ /\ callCount < MaxCalls
     /\ \E c \in Callers \ Underway, api \in DOMAIN Operations, hosts \in HostLists,
           id \in Entities, size \in Sizes :
          \E op \in Operations[api] : ArriveCall(c, api, op, hosts, id, size)
  \/ \E c \in Underway : PropStep(c) \/ ClientGone(c)
  \/ Crash \/ ImportLoads \/ ImportShares

PropSpec == PropInit /\ [][PropNext]_propVars

-----------------------------------------------------------------------------
(* Properties.                                                             *)

\* What the last answer said of the replica is what the disk says: whether it is
\* there and shared, its entity id and its size, also when the engine stopped
\* since then.  Not so once a call failed or requests overlapped: set_no_sync()
\* compares with the metadata in memory, and a retry finds nothing to write.
RepliesAreDurable ==
  told # Unknown /\ ~unclear =>
    /\ blob.there = told.there
    /\ told.there => /\ (blob.shared = Some(TRUE)) = told.shared
                     /\ blob.entity = told.entity /\ blob.size = told.size

\* When nothing is under way the target serves the replica as the last answer
\* said, to the hosts it named; after a restart, to the hosts that were written.
ServedAsTold ==
  pool = "up" /\ Underway = {} /\ told # Unknown /\ ~unclear =>
    live = IF told.there /\ told.shared THEN told.hosts ELSE None

\* Answers about a replica hold, on the disk and at the target.
ReplicaIsAsTold == RepliesAreDurable /\ ServedAsTold
=============================================================================
