---------------------------- MODULE SnapshotRebuild ----------------------------
(***************************************************************************)
(* Rebuilds of a replica from a snapshot, as the control plane asks for    *)
(* them (snapshot_rebuild.rs, bdev_rebuild.rs, rebuild_instances.rs and    *)
(* grpc/v1/snapshot_rebuild.rs).  A job may create the bdevs it copies     *)
(* between and destroys the ones it created when it is dropped.  The       *)
(* requests take no lock, so one action is what a request does between two *)
(* awaits; the copying itself is in RebuildJob and RebuildRange.           *)
(***************************************************************************)
EXTENDS Integers, Sequences

CONSTANTS
  SnapClients,   \* concurrent requests
  JobRequests,   \* name -> [uuid, src, dst]: what may be asked for, src and dst
                 \* being [uri, create]
  MaxSnapOps,    \* bounds the requests, and so the jobs
  MaxSnapFaults  \* bounds the calls that fail

VARIABLES
  bdev,      \* uri -> [there, gen]: the bdevs
  snapJobs,  \* the jobs made so far: [uuid, src, dst, state, stopping], src and
             \* dst being [uri, delete, gen]
  registry,  \* uuid -> number of the job
  snapCall,  \* client -> what its request is doing
  drops,     \* URIs that a future on the master reactor is to destroy
  undestroyed,     \* (history) URIs whose destruction failed
  displaced, \* (history) jobs removed in the place of another
  snapOps,   \* bounds the requests
  snapFaults \* bounds the failures

snapVars == <<bdev, snapJobs, registry, snapCall, drops, undestroyed, displaced, snapOps, snapFaults>>

SnapUris == {JobRequests[r].src.uri : r \in DOMAIN JobRequests}
            \cup {JobRequests[r].dst.uri : r \in DOMAIN JobRequests}
NoUri == [uri |-> "", create |-> FALSE, delete |-> FALSE, gen |-> 0]
NoSnapCall == [at |-> "none", uuid |-> "", src |-> NoUri, dst |-> NoUri, job |-> 0]
Ended == {"Stopped", "Failed", "Completed"}

SnapInit ==
  /\ bdev = [u \in SnapUris |-> [there |-> ~(\E r \in DOMAIN JobRequests :
       [uri |-> u, create |-> TRUE] \in {JobRequests[r].src, JobRequests[r].dst}), gen |-> 0]]
  /\ snapJobs = << >>
  /\ registry = << >>
  /\ snapCall = [c \in SnapClients |-> NoSnapCall]
  /\ drops = {} /\ undestroyed = {} /\ displaced = {}
  /\ snapOps = 0 /\ snapFaults = 0

SnapCount == snapOps < MaxSnapOps /\ snapOps' = snapOps + 1
SnapFault == snapFaults < MaxSnapFaults /\ snapFaults' = snapFaults + 1
InCall(c, at) == snapCall[c].at = at

\* Drop of Uri: a future is sent to destroy what was created.
DropUris(us) == drops' = drops \cup {u.uri : u \in {v \in us : v.delete}}

\* The job lives as long as the registry or a request holds it.
JobHeld(j, reg, calls) ==
  \/ \E n \in DOMAIN reg : reg[n] = j
  \/ \E c \in SnapClients : calls[c].job = j

\* The registry and the requests change: a job nobody holds is dropped.
Rehold(reg, calls) ==
  LET freed == {j \in 1 .. Len(snapJobs) :
                  JobHeld(j, registry, snapCall) /\ ~JobHeld(j, reg, calls)}
  IN  /\ registry' = reg
      /\ snapCall' = calls
      /\ DropUris(UNION {{snapJobs[j].src, snapJobs[j].dst} : j \in freed})

Becomes(c, call) == [snapCall EXCEPT ![c] = call]

-----------------------------------------------------------------------------
(* Uri.                                                                    *)

\* Mutant: a bdev that existed is taken for one's own.
OpenedTakes(u) == [u EXCEPT !.delete = u.create, !.gen = bdev[u.uri].gen]

\* open_create of a bdev that is there, or that need not be created.
Opened(u) == [u EXCEPT !.delete = FALSE, !.gen = bdev[u.uri].gen]

\* open_create of one that is not.
Created(u) == [u EXCEPT !.delete = TRUE, !.gen = bdev[u.uri].gen + 1]

\* Uri::destroy: a failure is only logged.
Destroyed(uri) ==
  \/ /\ bdev' = [bdev EXCEPT ![uri].there = FALSE]
     /\ UNCHANGED <<undestroyed, snapFaults>>
  \/ /\ bdev[uri].there /\ SnapFault
     /\ undestroyed' = undestroyed \cup {uri}
     /\ UNCHANGED bdev

\* Uri::close
Close(u) == IF u.delete THEN Destroyed(u.uri) ELSE UNCHANGED <<bdev, undestroyed, snapFaults>>

\* The future that a drop sent.
DestroyDropped(uri) ==
  /\ uri \in drops
  /\ drops' = drops \ {uri}
  /\ Destroyed(uri)
  /\ UNCHANGED <<snapJobs, registry, snapCall, displaced, snapOps>>

-----------------------------------------------------------------------------
(* create_snapshot_rebuild                                                 *)

Wanted(e) == [NoUri EXCEPT !.uri = e.uri, !.create = e.create]

\* A job of that uuid is reported, once its statistics are read.
CreateSnapshotRebuild(c, r) ==
  /\ InCall(c, "none") /\ SnapCount
  /\ LET q == JobRequests[r]
         call == IF q.uuid \in DOMAIN registry
                 THEN [NoSnapCall EXCEPT !.at = "report", !.uuid = q.uuid, !.job = registry[q.uuid]]
                 ELSE [NoSnapCall EXCEPT !.at = "src", !.uuid = q.uuid,
                                         !.src = Wanted(q.src), !.dst = Wanted(q.dst)]
     IN  snapCall' = Becomes(c, call)
  /\ UNCHANGED <<bdev, snapJobs, registry, drops, undestroyed, displaced, snapFaults>>

\* SnapRebuild::from: the statistics of a job that goes on, or of one that ended.
ReportJob(c) ==
  /\ InCall(c, "report")
  /\ Rehold(registry, Becomes(c, NoSnapCall))
  /\ UNCHANGED <<bdev, snapJobs, undestroyed, displaced, snapOps, snapFaults>>

\* build_uris, open_create of the snapshot or of the replica.
OpenCreate(c, which, next) ==
  LET u == snapCall[c][which]
  IN  /\ InCall(c, which)
      /\ ~u.create \/ bdev[u.uri].there
      /\ snapCall' = [snapCall EXCEPT ![c].at = next, ![c][which] = Opened(u)]
      /\ UNCHANGED <<bdev, snapJobs, registry, drops, undestroyed, displaced, snapOps, snapFaults>>

OpenCreated(c, which, next) ==
  LET u == snapCall[c][which]
  IN  /\ InCall(c, which)
      /\ u.create /\ ~bdev[u.uri].there
      /\ bdev' = [bdev EXCEPT ![u.uri] = [there |-> TRUE, gen |-> @.gen + 1]]
      /\ snapCall' = [snapCall EXCEPT ![c].at = next, ![c][which] = Created(u)]
      /\ UNCHANGED <<snapJobs, registry, drops, undestroyed, displaced, snapOps, snapFaults>>

\* The lookup of a local one, or the creation, fails.  The snapshot is closed.
BuildUrisFail(c) ==
  /\ SnapFault
  /\ \/ InCall(c, "src") /\ snapCall' = Becomes(c, NoSnapCall)
     \/ InCall(c, "dst") /\ snapCall' = [snapCall EXCEPT ![c].at = "closesrc", ![c].dst = NoUri]
  /\ UNCHANGED <<bdev, snapJobs, registry, drops, undestroyed, displaced, snapOps>>

There(u) == bdev[u.uri].there
Current(u) == [u EXCEPT !.gen = bdev[u.uri].gen]

\* RebuildDescriptor::new: both are opened, and must not be the same.
BuildDescriptor(c) ==
  LET src == snapCall[c].src
      dst == snapCall[c].dst
      ok == There(src) /\ There(dst) /\ src.uri # dst.uri
  IN  /\ InCall(c, "build")
      /\ snapCall' = [snapCall EXCEPT ![c].at = IF ok THEN "store" ELSE "closesrc",
                                      ![c].src = Current(src), ![c].dst = Current(dst)]
      /\ UNCHANGED <<bdev, snapJobs, registry, drops, undestroyed, displaced, snapOps, snapFaults>>

\* No handle, no buffers or no valid range.
BuildFails(c) ==
  /\ InCall(c, "store") /\ SnapFault
  /\ snapCall' = [snapCall EXCEPT ![c].at = "closesrc"]
  /\ UNCHANGED <<bdev, snapJobs, registry, drops, undestroyed, displaced, snapOps>>

\* The error path of build() closes the snapshot, then the replica.
CloseSrc(c) ==
  /\ InCall(c, "closesrc")
  /\ Close(snapCall[c].src)
  /\ snapCall' = [snapCall EXCEPT ![c].at = "closedst", ![c].src = NoUri]
  /\ UNCHANGED <<snapJobs, registry, drops, displaced, snapOps>>

CloseDst(c) ==
  /\ InCall(c, "closedst")
  /\ Close(snapCall[c].dst)
  /\ snapCall' = Becomes(c, NoSnapCall)
  /\ UNCHANGED <<snapJobs, registry, drops, displaced, snapOps>>

\* The handles are there.  The backend is scheduled and awaits its orders, and
\* store() puts the job in the registry, or finds another one of its uuid
\* there and the job is dropped.
Store(c) ==
  LET call == snapCall[c]
      job == [uuid |-> call.uuid, src |-> call.src, dst |-> call.dst,
              state |-> "Init", stopping |-> FALSE]
      n == Len(snapJobs) + 1
  IN  /\ InCall(c, "store")
      /\ snapJobs' = Append(snapJobs, job)
      /\ IF call.uuid \in DOMAIN registry
         THEN /\ snapCall' = Becomes(c, NoSnapCall)
              /\ DropUris({call.src, call.dst})
              /\ UNCHANGED registry
         ELSE /\ registry' = [u \in DOMAIN registry \cup {call.uuid} |->
                                IF u = call.uuid THEN n ELSE registry[u]]
              /\ snapCall' = Becomes(c, [NoSnapCall EXCEPT !.at = "start", !.uuid = call.uuid, !.job = n])
              /\ UNCHANGED drops
      /\ UNCHANGED <<bdev, undestroyed, displaced, snapOps, snapFaults>>

\* start(), after the statistics came: refused if the job was stopped by then.
Start(c) ==
  LET j == snapCall[c].job
  IN  /\ InCall(c, "start")
      /\ snapJobs' = IF snapJobs[j].state = "Init" /\ ~snapJobs[j].stopping
                     THEN [snapJobs EXCEPT ![j].state = "Running"] ELSE snapJobs
      /\ Rehold(registry, Becomes(c, NoSnapCall))
      /\ UNCHANGED <<bdev, undestroyed, displaced, snapOps, snapFaults>>

-----------------------------------------------------------------------------
(* The backend and destroy_snapshot_rebuild.                               *)

DevicesThere(j) == \A u \in {snapJobs[j].src, snapJobs[j].dst} :
                     bdev[u.uri].there /\ bdev[u.uri].gen = u.gen

\* The backend ends: told to, because all is copied, or because an I/O failed.
\* I/O to a bdev that is gone fails.
BackendEnds(j) ==
  /\ snapJobs[j].state \in {"Init", "Running"}
  /\ \E s \in Ended :
       /\ s = "Stopped" => snapJobs[j].stopping
       /\ s = "Completed" => snapJobs[j].state = "Running" /\ DevicesThere(j)
       /\ s = "Failed" => snapJobs[j].state = "Running"
       /\ snapJobs' = [snapJobs EXCEPT ![j].state = s, ![j].stopping = FALSE]
  /\ UNCHANGED <<bdev, registry, snapCall, drops, undestroyed, displaced, snapOps, snapFaults>>

\* force_stop, and the wait for the backend to end.
DestroySnapshotRebuild(c, uuid) ==
  /\ InCall(c, "none") /\ SnapCount
  /\ uuid \in DOMAIN registry
  /\ LET j == registry[uuid]
     IN  /\ snapJobs' = IF snapJobs[j].state \in Ended THEN snapJobs
                        ELSE [snapJobs EXCEPT ![j].stopping = TRUE]
         /\ snapCall' = Becomes(c, [NoSnapCall EXCEPT !.at = "stop", !.uuid = uuid, !.job = j])
  /\ UNCHANGED <<bdev, registry, drops, undestroyed, displaced, snapFaults>>

StoppedJob(j) == snapJobs[j].state \in Ended

\* destroy() removes the job of that name.
Destroy(c) ==
  LET uuid == snapCall[c].uuid
      j == snapCall[c].job
      others == {k \in 1 .. Len(snapJobs) : uuid \in DOMAIN registry /\ registry[uuid] = k /\ k # j}
  IN  /\ InCall(c, "stop")
      /\ StoppedJob(j)
      /\ displaced' = displaced \cup others
      /\ Rehold([u \in DOMAIN registry \ {uuid} |-> registry[u]], Becomes(c, NoSnapCall))
      /\ UNCHANGED <<bdev, snapJobs, undestroyed, snapOps, snapFaults>>

SnapNext ==
  \/ \E c \in SnapClients :
       \/ \E r \in DOMAIN JobRequests : CreateSnapshotRebuild(c, r)
                                        \/ DestroySnapshotRebuild(c, JobRequests[r].uuid)
       \/ OpenCreate(c, "src", "dst") \/ OpenCreated(c, "src", "dst")
       \/ OpenCreate(c, "dst", "build") \/ OpenCreated(c, "dst", "build")
       \/ ReportJob(c) \/ BuildUrisFail(c) \/ BuildDescriptor(c) \/ BuildFails(c)
       \/ CloseSrc(c) \/ CloseDst(c) \/ Store(c) \/ Start(c) \/ Destroy(c)
  \/ \E j \in 1 .. Len(snapJobs) : BackendEnds(j)
  \/ \E u \in SnapUris : DestroyDropped(u)

SnapSpec == SnapInit /\ [][SnapNext]_snapVars

-----------------------------------------------------------------------------
\* What the live jobs and the requests under way have opened.
OpenUris ==
  UNION {{snapJobs[j].src, snapJobs[j].dst} :
           j \in {k \in 1 .. Len(snapJobs) : JobHeld(k, registry, snapCall)}}
  \cup UNION {{snapCall[c].src, snapCall[c].dst} : c \in SnapClients}

\* A job, or a request that is building one, keeps the bdevs it created: nobody
\* else destroys them, neither a late destruction of an earlier bdev of that
\* URI nor a job that found the bdev there.
OwnedIsThere ==
  \A u \in OpenUris : u.delete => bdev[u.uri].there /\ bdev[u.uri].gen = u.gen

\* "If created then the uri is also closed on drop": a bdev that a job created
\* is destroyed with it, however the job or its creation ended.
CreatedIsDestroyed ==
  \A uri \in SnapUris :
    bdev[uri].there /\ bdev[uri].gen > 0 =>
      uri \in drops \cup undestroyed \cup {u.uri : u \in {v \in OpenUris : v.delete}}

\* The bdevs of snapshot rebuilds live exactly as long as their jobs.
BdevsFollowJobs == OwnedIsThere /\ CreatedIsDestroyed
=============================================================================
