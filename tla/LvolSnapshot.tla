----------------------------- MODULE LvolSnapshot -----------------------------
(***************************************************************************)
(* The replicas, snapshots and clones of a pool (lvs_lvol.rs,              *)
(* lvol_snapshot.rs) and the requests that make and destroy them           *)
(* (grpc/v1/replica.rs, grpc/v1/snapshot.rs).  A snapshot that has clones  *)
(* is not destroyed but marked as discarded, and destroyed with its last   *)
(* clone; what a crash leaves behind is collected when a pool is imported. *)
(* The two services share one lock, which is held while the client waits;  *)
(* the import of a pool, and with it the collection, has another one.      *)
(***************************************************************************)
EXTENDS Naturals, FiniteSets

CONSTANTS
  SnapReqs,   \* the futures of the two services
  Vols,       \* replicas and clones, by uuid
  Snaps,      \* snapshots, by uuid
  MaxSnapOps, \* bound on the requests
  MaxMishaps  \* bound on the clients that go away, the collections, the restarts
              \* of the engine and the failures of SPDK

VARIABLES
  lvols,      \* the lvols on the disk
  mem,        \* the lvols as they are in memory
  destroying, \* the lvols SPDK destroys
  loaded,     \* whether the pool is loaded
  req,        \* the requests that run
  gc,         \* the collection: what it does with each snapshot
  used,       \* the uuids that clients gave to lvols; they give each one once
  acked,      \* the requests that were answered with success
  double,     \* an lvol was to be destroyed that was gone, or being destroyed
  failed,     \* SPDK failed to destroy an lvol
  snapOps, left, gcs, reboots, errors

snapBounds == <<snapOps, left, gcs, reboots>>
snapVars == <<lvols, mem, destroying, loaded, req, gc, used, acked, double, failed, snapBounds, errors>>

Absent == [kind |-> "absent"]
Replica == [kind |-> "replica", wiped |-> FALSE]
Snapshot(v) == [kind |-> "snapshot", of |-> v, discarded |-> FALSE]
Clone(s) == [kind |-> "clone", source |-> s, wiped |-> TRUE]

Rest == [pc |-> "idle"]
NoGc == [s \in Snaps |-> "no"]
Running == {r \in SnapReqs : req[r] # Rest}
Mishap == left + gcs + reboots + errors < MaxMishaps

\* One replica, without or with snapshots.
First == CHOOSE v \in Vols : TRUE
SnapInit ==
  /\ \E there \in {{}, Snaps} :
       lvols = [x \in Vols \cup Snaps |->
                  IF x = First THEN [Replica EXCEPT !.wiped = TRUE]
                  ELSE IF x \in there THEN Snapshot(First) ELSE Absent]
  /\ used = {x \in Vols \cup Snaps : lvols[x] # Absent}
  /\ mem = lvols /\ destroying = {} /\ loaded = TRUE
  /\ req = [r \in SnapReqs |-> Rest] /\ gc = NoGc
  /\ acked = [discarded |-> {}, created |-> {}]
  /\ double = FALSE /\ failed = FALSE
  /\ snapOps = 0 /\ left = 0 /\ gcs = 0 /\ reboots = 0 /\ errors = 0

-----------------------------------------------------------------------------
(* What the code asks of an lvol.                                          *)

Here(x) == mem[x] # Absent

\* has_clones(): clone_count() counts the lvols whose source this is.
HasClones(s) == \E v \in Vols : mem[v].kind = "clone" /\ mem[v].source = s

IsDiscarded(s) == Here(s) /\ mem[s].discarded

\* clone_source(): the snapshot the lvol is a clone of, if it is there.
CloneSource(v) ==
  {s \in Snaps : mem[v].kind = "clone" /\ mem[v].source = s /\ Here(s)}

-----------------------------------------------------------------------------
(* Requests.                                                               *)

Move(r, q) == req' = [req EXCEPT ![r] = q]
Is(r, p) == req[r].pc = p

\* RWSerializer::locked() of the replica service, which the snapshot service
\* uses too.
Locked == \E r \in Running : req[r].attached

Begin(r, q, new) ==
  /\ loaded /\ req[r] = Rest /\ snapOps < MaxSnapOps /\ ~Locked
  /\ \A s \in SnapReqs : req[s] = Rest => r <= s
  /\ snapOps' = snapOps + 1
  /\ Move(r, q)
  /\ new \cap used = {} /\ used' = used \cup new
  /\ UNCHANGED <<lvols, destroying, loaded, gc, acked, double, failed, left, gcs, reboots, errors>>

\* A request about the lvol x, and about y: what is made of it, or its source.
Req(p, x, y) == [pc |-> p, x |-> x, y |-> y, attached |-> TRUE]

\* create_lvol_with_opts(), create_snapshot() and create_snapshot_clone(): the
\* uuid must be free, and a discarded snapshot has no new clones.
CreateReplica(r) ==
  \E v \in Vols : ~Here(v) /\ Begin(r, Req("create", v, v), {v}) /\ UNCHANGED mem
CreateSnapshot(r) ==
  \E v \in Vols, s \in Snaps :
    Here(v) /\ ~Here(s) /\ Begin(r, Req("snapshot", v, s), {s}) /\ UNCHANGED mem
CreateClone(r) ==
  \E s \in Snaps, v \in Vols :
    /\ ~Here(v) /\ Here(s) /\ ~IsDiscarded(s)
    /\ Begin(r, Req("clone", s, v), {v}) /\ UNCHANGED mem

\* destroy_snapshot(): with clones, it is only marked, in memory first.
DestroySnapshot(r) ==
  \E s \in Snaps :
    /\ Here(s)
    /\ IF HasClones(s)
         THEN /\ Begin(r, Req("sync", s, s), {})
              /\ mem' = [mem EXCEPT ![s].discarded = TRUE]
         ELSE Begin(r, Req("unshare", s, s), {}) /\ UNCHANGED mem

\* destroy_replica(): the snapshot it is a clone of is looked up first.
DestroyReplica(r) ==
  \E v \in Vols :
    /\ Here(v)
    /\ LET src == CloneSource(v)
       IN  Begin(r, Req("unshare", v, IF src = {} THEN v ELSE CHOOSE s \in src : TRUE), {})
    /\ UNCHANGED mem

-----------------------------------------------------------------------------
(* SPDK answers.                                                           *)

Store(x, l) == mem' = [mem EXCEPT ![x] = l] /\ lvols' = [lvols EXCEPT ![x] = l]
Fails == Mishap /\ errors' = errors + 1

Created(x) == [acked EXCEPT !.created = @ \cup {x}]
Discarded(x) == [acked EXCEPT !.discarded = @ \cup {x}]
Same == UNCHANGED <<loaded, gc, used, snapBounds>>

\* The lvol is there, and not wiped.
CreateDone(r) ==
  /\ Is(r, "create")
  /\ \/ /\ ~Here(req[r].x)
        /\ Store(req[r].x, Replica)
        /\ \E p \in {"entity", "wipe"} : Move(r, [req[r] EXCEPT !.pc = p])
        /\ UNCHANGED errors
     \/ /\ IF Here(req[r].x) THEN UNCHANGED errors ELSE Fails
        /\ Move(r, Rest) /\ UNCHANGED <<mem, lvols>>
  /\ Same /\ UNCHANGED <<acked, destroying, double, failed>>

\* The entity id, if the client gave one, is set; without it the lvol goes.
EntitySet(r) ==
  /\ Is(r, "entity")
  /\ \/ Here(req[r].x) /\ Move(r, [req[r] EXCEPT !.pc = "wipe"]) /\ UNCHANGED errors
     \/ /\ IF Here(req[r].x) THEN Fails ELSE UNCHANGED errors
        /\ Move(r, [req[r] EXCEPT !.pc = "unshare"])
  /\ Same /\ UNCHANGED <<lvols, mem, acked, destroying, double, failed>>

\* wipe_super() writes zeroes over the start of the lvol.
WipeSuper(v) == Store(v, [mem[v] EXCEPT !.wiped = TRUE])

\* An lvol that cannot be wiped is destroyed again.
WipeDone(r) ==
  /\ Is(r, "wipe")
  /\ LET v == req[r].x
     IN  \/ /\ Here(v)
            /\ WipeSuper(v)
            /\ \/ acked' = Created(v) /\ Move(r, Rest)
               \/ Move(r, [req[r] EXCEPT !.pc = "share"]) /\ UNCHANGED acked
            /\ UNCHANGED errors
         \/ /\ IF Here(v) THEN Fails ELSE UNCHANGED errors
            /\ Move(r, [req[r] EXCEPT !.pc = "unshare"])
            /\ UNCHANGED <<mem, lvols, acked>>
  /\ Same /\ UNCHANGED <<destroying, double, failed>>

\* PoolGrpc::create_replica(): a replica that cannot be shared, as the client
\* asked, is destroyed again.
ShareDone(r) ==
  /\ Is(r, "share")
  /\ LET v == req[r].x
     IN  \/ Here(v) /\ acked' = Created(v) /\ Move(r, Rest) /\ UNCHANGED errors
         \/ /\ IF Here(v) THEN Fails ELSE UNCHANGED errors
            /\ Move(r, [req[r] EXCEPT !.pc = "unshare"]) /\ UNCHANGED acked
  /\ Same /\ UNCHANGED <<lvols, mem, destroying, double, failed>>

\* do_create_snapshot() and do_create_clone(): an lvol is made of another one.
MakeFrom(r, l) ==
  /\ LET x == req[r].x
         y == req[r].y
     IN  \/ /\ Here(x) /\ x \notin destroying /\ ~Here(y)
            /\ Store(y, l)
            /\ acked' = Created(y)
         \/ UNCHANGED <<mem, lvols, acked>>
  /\ Move(r, Rest)
  /\ Same /\ UNCHANGED <<destroying, double, failed, errors>>

SnapshotDone(r) == Is(r, "snapshot") /\ MakeFrom(r, Snapshot(req[r].x))
CloneDone(r) == Is(r, "clone") /\ MakeFrom(r, Clone(req[r].x))

\* set_blob_attr(): the metadata is written, or not, and the mark stays.
SyncDone(r) ==
  /\ Is(r, "sync")
  /\ LET s == req[r].x
     IN  \/ /\ Here(s)
            /\ lvols' = [lvols EXCEPT ![s].discarded = TRUE]
            /\ acked' = Discarded(s) /\ UNCHANGED errors
         \/ /\ IF Here(s) THEN Fails ELSE UNCHANGED errors
            /\ UNCHANGED <<lvols, acked>>
  /\ Move(r, Rest)
  /\ Same /\ UNCHANGED <<mem, destroying, double, failed>>

-----------------------------------------------------------------------------
(* destroy() of an lvol, by a request or by the collection.                *)

\* The lvol is unshared; vbdev_lvol_destroy() is called with its address.
CanDestroy(x) == Here(x) /\ x \notin destroying
CallDestroy(x) ==
  /\ destroying' = destroying \cup IF CanDestroy(x) THEN {x} ELSE {}
  /\ double' = (double \/ ~CanDestroy(x))

\* SPDK destroys it; a snapshot that has got a clone may be refused.
DestroyOk(x) == Store(x, Absent) /\ UNCHANGED <<failed, errors>>
DestroyFails(x) ==
  /\ IF HasClones(x) THEN UNCHANGED errors ELSE Fails
  /\ failed' = TRUE
  /\ UNCHANGED <<mem, lvols>>

Unshared(r) ==
  /\ Is(r, "unshare")
  /\ CallDestroy(req[r].x)
  /\ Move(r, IF CanDestroy(req[r].x) THEN [req[r] EXCEPT !.pc = "destroy"] ELSE Rest)
  /\ Same /\ UNCHANGED <<lvols, mem, acked, failed, errors>>

\* After the last clone of a discarded snapshot, destroy_replica() destroys the
\* snapshot; that it is gone by then is use after free.
Destroyed(r) ==
  /\ Is(r, "destroy")
  /\ LET x == req[r].x
     IN  \/ /\ DestroyOk(x)
            /\ IF req[r].y # x
                 THEN Move(r, [req[r] EXCEPT !.pc = "last"]) /\ UNCHANGED acked
                 ELSE Move(r, Rest) /\ acked' = Discarded(x)
         \/ DestroyFails(x) /\ Move(r, Rest) /\ UNCHANGED acked
  /\ destroying' = destroying \ {req[r].x}
  /\ Same /\ UNCHANGED double

LastClone(r) ==
  /\ Is(r, "last")
  /\ LET s == req[r].y
     IN  /\ double' = (double \/ ~Here(s))
         /\ IF ~HasClones(s) /\ IsDiscarded(s)
              THEN Move(r, [req[r] EXCEPT !.pc = "unshare", !.x = s]) /\ UNCHANGED acked
              ELSE Move(r, Rest) /\ acked' = Discarded(req[r].x)
  /\ Same /\ UNCHANGED <<lvols, mem, destroying, failed, errors>>

\* destroy_pending_discarded_snapshot(), when a pool is imported: all of them
\* at the same time.
CollectDiscarded ==
  /\ loaded /\ gc = NoGc /\ Mishap
  /\ gcs' = gcs + 1
  /\ gc' = [s \in Snaps |-> IF IsDiscarded(s) /\ ~HasClones(s) THEN "unshare" ELSE "no"]
  /\ UNCHANGED <<lvols, mem, destroying, loaded, req, used, acked, double, failed, snapOps, left, reboots, errors>>

CollectUnshared(s) ==
  /\ gc[s] = "unshare"
  /\ CallDestroy(s)
  /\ gc' = [gc EXCEPT ![s] = IF CanDestroy(s) THEN "destroy" ELSE "no"]
  /\ UNCHANGED <<lvols, mem, loaded, req, used, acked, failed, snapBounds, errors>>

CollectDestroyed(s) ==
  /\ gc[s] = "destroy"
  /\ DestroyOk(s) \/ DestroyFails(s)
  /\ gc' = [gc EXCEPT ![s] = "no"]
  /\ destroying' = destroying \ {s}
  /\ UNCHANGED <<loaded, req, used, acked, double, snapBounds>>

-----------------------------------------------------------------------------
(* What happens to the engine.                                             *)

ClientLeaves(r) ==
  /\ req[r] # Rest /\ req[r].attached /\ Mishap
  /\ left' = left + 1
  /\ Move(r, [req[r] EXCEPT !.attached = FALSE])
  /\ UNCHANGED <<lvols, mem, destroying, loaded, gc, used, acked, double, failed, snapOps, gcs, reboots, errors>>

Reboot ==
  /\ Mishap
  /\ reboots' = reboots + 1
  /\ loaded' = FALSE /\ failed' = FALSE /\ destroying' = {}
  /\ mem' = [x \in Vols \cup Snaps |-> Absent]
  /\ req' = [r \in SnapReqs |-> Rest] /\ gc' = NoGc
  /\ UNCHANGED <<lvols, used, acked, double, snapOps, left, gcs, errors>>

\* The import of the pool ends with a collection.
ImportPool ==
  /\ ~loaded
  /\ loaded' = TRUE
  /\ mem' = lvols
  /\ gc' = [s \in Snaps |->
              IF lvols[s] # Absent /\ lvols[s].discarded
                 /\ ~(\E v \in Vols : lvols[v].kind = "clone" /\ lvols[v].source = s)
              THEN "unshare" ELSE "no"]
  /\ UNCHANGED <<lvols, destroying, req, used, acked, double, failed, snapBounds, errors>>

SnapStep(r) ==
  \/ CreateDone(r) \/ EntitySet(r) \/ WipeDone(r) \/ ShareDone(r)
  \/ SnapshotDone(r) \/ CloneDone(r) \/ SyncDone(r)
  \/ Unshared(r) \/ Destroyed(r) \/ LastClone(r)

SnapNext ==
  \/ \E r \in SnapReqs :
       \/ CreateReplica(r) \/ CreateSnapshot(r) \/ CreateClone(r)
       \/ DestroySnapshot(r) \/ DestroyReplica(r)
       \/ SnapStep(r) \/ ClientLeaves(r)
  \/ CollectDiscarded \/ \E s \in Snaps : CollectUnshared(s) \/ CollectDestroyed(s)
  \/ Reboot \/ ImportPool

SnapSpec == SnapInit /\ [][SnapNext]_snapVars

-----------------------------------------------------------------------------
(* Properties.                                                             *)

\* When nothing runs, a loaded pool has no discarded snapshot without clones:
\* the last clone takes it along, in whatever order clones and snapshot are
\* destroyed, and what a crash left is collected; unless SPDK failed to destroy
\* an lvol.
DiscardedIsCollected ==
  loaded /\ Running = {} /\ gc = NoGc /\ ~failed =>
    \A s \in Snaps : IsDiscarded(s) => HasClones(s)

\* What was answered holds on the disk, also after a crash: a replica has been
\* wiped, and a snapshot that was destroyed is gone or marked as discarded.
AckedIsDurable ==
  /\ \A x \in acked.created \cap Vols : lvols[x] = Absent \/ lvols[x].wiped
  /\ \A s \in acked.discarded \cap Snaps : lvols[s] = Absent \/ lvols[s].discarded

\* As long as no client goes away, a clone has its snapshot: destroy_snapshot()
\* and the collection only destroy snapshots that have no clones.
ClonesHaveSource ==
  left = 0 => \A v \in Vols : lvols[v].kind = "clone" => lvols[lvols[v].source] # Absent

\* Replicas, snapshots and clones: what was answered lasts, what was discarded
\* goes, and what is used stays.
SnapshotsAreSound == DiscardedIsCollected /\ AckedIsDurable /\ ClonesHaveSource
=============================================================================
