------------------------------- MODULE NexusApi -------------------------------
(***************************************************************************)
(* The gRPC services for nexuses of API version 1 (grpc/v1/nexus.rs) and   *)
(* version 0 (grpc/v0/mayastor_grpc.rs, nexus_grpc.rs), the lock manager   *)
(* they share (core/lock.rs), and the creation, publication and destruction *)
(* of a nexus as their handlers see them.                                  *)
(*                                                                         *)
(* A request takes the lock of the identifier it names (the global lock    *)
(* first, for creations and destructions of version 0), each within its    *)
(* timeout, in a task of its own that outlives a client that goes away;    *)
(* then its handler runs on the reactor of the first core, where futures   *)
(* interleave at their awaits.  What the request asks for is chosen when it *)
(* has its locks: until then only the identifier matters.  Listings take no *)
(* lock.                                                                   *)
(*                                                                         *)
(* What the nexus does within an operation on its children, its size, its  *)
(* rebuilds or its ANA state is the subject of the modules Nexus,          *)
(* NexusAdmin and GptLabel; here it is a call that takes time while the    *)
(* future holds its reference to the nexus.                                *)
(***************************************************************************)
EXTENDS Naturals, FiniteSets, FiniteSetsExt

CONSTANTS
  Uuids,       \* the uuids of nexuses
  Names,       \* the names of nexuses
  UuidNames,   \* the names that are uuids themselves: they become the bdev's uuid
  NexusName,   \* uuid_to_name(): the name "nexus-<uuid>" of version 0
  ClientIds,   \* the identifiers that clients use
  NumNexuses,  \* bound: the nexuses ever created
  MaxRequests  \* bound: the requests ever sent

VARIABLES
  nexus,   \* the nexuses, in the order of their creation
  files,   \* the uuids with a file of persistent reservations
  req,     \* the requests
  global,  \* the holder of the global lock, or 0
  locks,   \* the holder of the lock of every identifier, or 0
  sent,    \* the number of requests sent
  crossed  \* ghost: the nexuses that two requests worked on at a time

apiVars == <<nexus, files, req, global, locks, sent, crossed>>

Requests == {1, 2}
Objects == 1 .. NumNexuses
Unused == [st |-> "none", name |-> "", uuid |-> "", bdev |-> "", target |-> "none", shared |-> FALSE,
           saved |-> FALSE, marked |-> FALSE, checked |-> FALSE, by |-> ""]
NoRequest == [pc |-> "idle", id |-> "", glob |-> FALSE, obj |-> 0, then |-> "", what |-> ""]

Visible == {o \in Objects : nexus[o].st \in {"init", "open", "shutting", "shutdown"}}

\* The first nexus of the iteration over the bdevs of the module, or 0.
First(S) == IF S = {} THEN 0 ELSE Min(S)

\* No nexus, or one that an earlier request created and perhaps published.
ApiInit ==
  /\ \E n \in UuidNames, u \in Uuids, st \in {"none", "open"}, published \in BOOLEAN :
       /\ st = "none" => ~published
       /\ nexus = [o \in Objects |-> IF o # 1 \/ st = "none" THEN Unused ELSE
                    [Unused EXCEPT !.st = st, !.name = n, !.uuid = u, !.saved = TRUE, !.checked = TRUE,
                                   !.bdev = IF n \in UuidNames THEN n ELSE u, !.shared = published,
                                   !.marked = published, !.target = IF published THEN "nvmf" ELSE "none"]]
       /\ files = IF published THEN {u} ELSE {}
  /\ req = [r \in Requests |-> NoRequest]
  /\ global = 0 /\ locks = [i \in ClientIds |-> 0]
  /\ sent = 0 /\ crossed = {}

-----------------------------------------------------------------------------
(* Lookups.                                                                *)

NexusLookup(n) == First({o \in Visible : nexus[o].name = n})
NexusLookupUuid(u) == First({o \in Visible : nexus[o].uuid = u})

\* nexus_lookup_name_uuid(), where "" stands for no uuid.
NexusLookupNameUuid(n, u) == First({o \in Visible : nexus[o].name = n \/ (u # "" /\ nexus[o].uuid = u)})

\* Version 1 finds a nexus by its uuid.
Lookup1(id) == NexusLookupUuid(id)

\* Version 0 takes its identifier for a name, then for a uuid, then for the
\* uuid a name was made of.
Lookup0(id) ==
  IF NexusLookup(id) # 0 THEN NexusLookup(id)
  ELSE IF NexusLookupUuid(id) # 0 THEN NexusLookupUuid(id)
  ELSE IF id \in Uuids THEN NexusLookup(NexusName[id]) ELSE 0

-----------------------------------------------------------------------------
(* serialized(): the locks.                                                *)

Arrive(r, id, glob) ==
  /\ req[r].pc = "idle" /\ sent < MaxRequests
  /\ req' = [req EXCEPT ![r] = [NoRequest EXCEPT !.pc = IF glob THEN "global" ELSE "object",
                                                 !.id = id, !.glob = glob]]
  /\ sent' = sent + 1
  /\ UNCHANGED <<nexus, files, global, locks>>

\* acquire_lock() with a timeout.
LockGlobal(r) ==
  /\ req[r].pc = "global" /\ global = 0
  /\ global' = r
  /\ req' = [req EXCEPT ![r].pc = "object"]
  /\ UNCHANGED <<nexus, files, locks, sent>>

\* Mutant: the identifier's lock is that of the subsystem of version 0 or 1.
LockResourceApart(r) ==
  /\ req[r].pc = "object"
  /\ locks' = [locks EXCEPT ![req[r].id] = r]
  /\ req' = [req EXCEPT ![r].pc = "locked"]
  /\ UNCHANGED <<nexus, files, global, sent>>

\* lock_resource() maps an identifier to a mutex of the subsystem; that two
\* identifiers share one is left out, as it only serializes more.
LockResource(r) ==
  /\ req[r].pc = "object" /\ locks[req[r].id] = 0
  /\ locks' = [locks EXCEPT ![req[r].id] = r]
  /\ req' = [req EXCEPT ![r].pc = "locked"]
  /\ UNCHANGED <<nexus, files, global, sent>>

\* The guards are dropped when the task returns its answer.
Released(r) ==
  /\ global' = IF global = r THEN 0 ELSE global
  /\ locks' = [i \in ClientIds |-> IF locks[i] = r THEN 0 ELSE locks[i]]

Answer(r) == req' = [req EXCEPT ![r] = NoRequest] /\ Released(r)

\* "Failed to acquire access to object within given timeout": only while
\* another request holds the lock.
LockTimeout(r) ==
  /\ \/ req[r].pc = "global" /\ global # 0
     \/ req[r].pc = "object" /\ locks[req[r].id] # 0
  /\ Answer(r)
  /\ UNCHANGED <<nexus, files, sent>>

Await(r, pc, o, then, what) ==
  /\ req' = [req EXCEPT ![r].pc = pc, ![r].obj = o, ![r].then = then, ![r].what = what]
  /\ UNCHANGED <<global, locks>>

\* The nexus is converted for the answer, child by child, which asks the
\* rebuild jobs for their progress.
Reply(r, o) == IF o = 0 THEN Answer(r) ELSE Await(r, "replying", o, "", "")

\* Every step of a future that holds a nexus; what a future does with a nexus
\* that is gone is undefined.
Holds(r, pc) == req[r].pc = pc /\ nexus[req[r].obj].st # "gone"

Replied(r) ==
  /\ Holds(r, "replying")
  /\ Answer(r) /\ UNCHANGED <<nexus, files, sent>>

Dangling(r) ==
  /\ req[r].obj # 0 /\ nexus[req[r].obj].st = "gone"
  /\ Answer(r) /\ UNCHANGED <<nexus, files, sent>>

-----------------------------------------------------------------------------
(* Creation.                                                               *)

Taken(name) == \E o \in Visible : name \in {nexus[o].name, nexus[o].bdev}

\* nexus_create_internal() until its first await, new_child().  A nexus of that
\* name that exists is taken for the one asked for.
CreateInternal(r, n, bdev, uuid, o, then) ==
  LET found == NexusLookupNameUuid(n, uuid)
  IN  IF found # 0
      THEN /\ UNCHANGED nexus
           /\ IF nexus[found].st = "init" \/ nexus[found].name # n \/ (uuid # "" /\ nexus[found].uuid # uuid)
              THEN Answer(r)
              ELSE Reply(r, found)
      ELSE /\ o # 0
           /\ nexus' = [nexus EXCEPT ![o] = [Unused EXCEPT
                          !.st = "new", !.name = n, !.bdev = bdev, !.checked = (then = "v1"),
                          !.uuid = IF uuid # "" THEN uuid ELSE bdev]]
           /\ Await(r, "children", o, then, "")

NextUnused == First({o \in Objects : nexus[o].st = "none"})

\* nexus_create_v2(): a name that is a uuid identifies the bdev, and the nexus
\* has a uuid of its own.
NexusCreateV2(r, n, u, then) ==
  IF n \in UuidNames THEN CreateInternal(r, n, n, u, NextUnused, then)
                     ELSE CreateInternal(r, n, u, "", NextUnused, then)

\* The controller id range or the reservation parameters are refused.
InvalidArguments(r) ==
  /\ req[r].pc = "locked"
  /\ Answer(r) /\ UNCHANGED <<nexus, files, sent>>

\* create_nexus() and create_nexus_v2() of version 1.
CreateNexus1(r, n) ==
  /\ req[r].pc = "locked" /\ ~req[r].glob /\ req[r].id \in Uuids
  /\ IF NexusLookup(n) # 0 \/ Lookup1(req[r].id) # 0
     THEN Answer(r) /\ UNCHANGED nexus
     ELSE NexusCreateV2(r, n, req[r].id, "v1")
  /\ UNCHANGED <<files, sent>>

CreateNexus0(r) ==
  /\ req[r].pc = "locked" /\ req[r].glob /\ req[r].id \in Uuids
  /\ CreateInternal(r, NexusName[req[r].id], req[r].id, "", NextUnused, "v0")
  /\ UNCHANGED <<files, sent>>

CreateNexusV2(r, n) ==
  /\ req[r].pc = "locked" /\ req[r].glob /\ req[r].id \in Uuids
  /\ NexusCreateV2(r, n, req[r].id, "v0")
  /\ UNCHANGED <<files, sent>>

\* A creation that fails closes its children and frees the nexus.
CreateFails(r) ==
  /\ Holds(r, "children") \/ Holds(r, "opening")
  /\ nexus' = [nexus EXCEPT ![req[r].obj].st = "gone", ![req[r].obj].by = req[r].id]
  /\ Answer(r) /\ UNCHANGED <<files, sent>>

\* register_instance(): the children exist; the bdev is registered, unless its
\* name or its uuid is that of another.
RegisterInstance(r) ==
  LET n == nexus[req[r].obj]
  IN  /\ Holds(r, "children") /\ ~Taken(n.name) /\ ~Taken(n.bdev)
      /\ nexus' = [nexus EXCEPT ![req[r].obj].st = "init"]
      /\ req' = [req EXCEPT ![r].pc = "opening"]
      /\ UNCHANGED <<files, global, locks, sent>>

\* The children are open and the nexus is in the store, unshared; it opens and
\* is looked up again for the answer.
RegisterOpens(r) ==
  LET o == req[r].obj
  IN  /\ Holds(r, "opening")
      /\ nexus' = [nexus EXCEPT ![o].st = "open", ![o].saved = TRUE]
      /\ Reply(r, IF req[r].then = "v1" THEN First({p \in Visible : nexus[p].uuid = nexus[o].uuid})
                  ELSE First({p \in Visible : nexus[p].name = nexus[o].name}))
      /\ UNCHANGED <<files, sent>>

-----------------------------------------------------------------------------
(* Publication.                                                            *)

\* The handlers of version v look their nexus up.
Found(r, v) == IF v = "v1" THEN Lookup1(req[r].id) ELSE Lookup0(req[r].id)

Serves(r, v) == req[r].pc = "locked" /\ ~req[r].glob /\ (v = "v1" => req[r].id \in Uuids)

\* The answer of version 1 holds the nexus, looked up again; that of version 0
\* does not.
Finish(r, v) == IF v = "v1" THEN Reply(r, Lookup1(req[r].id)) ELSE Answer(r)

\* share_ext() until its first await.
ShareExt(r, o, proto, v) ==
  \/ /\ nexus[o].target = proto
     /\ Await(r, "updating", o, v, proto) /\ UNCHANGED <<nexus, files>>
  \/ /\ nexus[o].target \notin {proto, "none"}
     /\ Answer(r) /\ UNCHANGED <<nexus, files>>
  \/ /\ nexus[o].target = "none" /\ proto = "nbd"
     /\ Await(r, "marking", o, v, proto) /\ UNCHANGED <<nexus, files>>
  \/ /\ nexus[o].target = "none" /\ proto = "nvmf"
     /\ files' = files \cup {nexus[o].uuid}
     /\ IF nexus[o].shared
        THEN nexus' = [nexus EXCEPT ![o].target = "nvmf"] /\ Finish(r, v)
        ELSE Await(r, "marking", o, v, proto) /\ UNCHANGED nexus

\* publish_nexus(): share_ext() unless the key or the protocol is refused
\* (InvalidArguments).
PublishNexus(r, v, proto) ==
  /\ Serves(r, v)
  /\ IF Found(r, v) = 0 THEN Answer(r) /\ UNCHANGED <<nexus, files>>
                        ELSE ShareExt(r, Found(r, v), proto, v)
  /\ UNCHANGED sent

\* "Persist `shared = true` before the share goes live": the save succeeds or
\* fails.
MarkShared(r) ==
  /\ Holds(r, "marking")
  /\ \/ /\ nexus' = [nexus EXCEPT ![req[r].obj].marked = TRUE]
        /\ req' = [req EXCEPT ![r].pc = "sharing"] /\ UNCHANGED <<global, locks>>
     \/ Answer(r) /\ UNCHANGED nexus
  /\ UNCHANGED <<files, sent>>

\* The target is up, or is not.
ShareDone(r) ==
  /\ Holds(r, "sharing")
  /\ \/ /\ nexus' = [nexus EXCEPT ![req[r].obj].target = req[r].what,
                                  ![req[r].obj].shared = @ \/ req[r].what = "nvmf"]
        /\ Finish(r, req[r].then)
     \/ Answer(r) /\ UNCHANGED nexus
  /\ UNCHANGED <<files, sent>>

\* update_properties(): the allowed hosts are set, or not.
UpdateProperties(r) ==
  /\ Holds(r, "updating")
  /\ Finish(r, req[r].then) \/ Answer(r)
  /\ UNCHANGED <<nexus, files, sent>>

\* unshare_nexus_internal() until its first await: the target is forgotten.
UnshareNexusInternal(r, o, v, what) ==
  /\ nexus' = [nexus EXCEPT ![o].target = "none"]
  /\ Await(r, "unsharing", o, v, what)

UnpublishNexus(r, v) ==
  /\ Serves(r, v)
  /\ IF Found(r, v) = 0 THEN Answer(r) /\ UNCHANGED nexus
                        ELSE UnshareNexusInternal(r, Found(r, v), v, "clean")
  /\ UNCHANGED <<files, sent>>

\* The subsystem is stopped and destroyed, or not; a resume may have started it
\* again, and then the mark stays.
UnshareDone(r) ==
  LET o == req[r].obj
  IN  /\ Holds(r, "unsharing")
      /\ \/ Answer(r) /\ UNCHANGED nexus
         \/ /\ nexus' = [nexus EXCEPT ![o].shared = FALSE]
            /\ req' = [req EXCEPT ![r].pc = IF req[r].what = "clean" THEN "unmarking" ELSE "closing"]
            /\ UNCHANGED <<global, locks>>
         \/ /\ req[r].what = "clean" /\ nexus[o].shared
            /\ UNCHANGED nexus /\ Finish(r, req[r].then)
      /\ UNCHANGED <<files, sent>>

\* The store is told that the nexus is no longer shared, if it can be.
MarkUnshared(r) ==
  /\ Holds(r, "unmarking")
  /\ \/ nexus' = [nexus EXCEPT ![req[r].obj].marked = FALSE]
     \/ UNCHANGED nexus
  /\ Finish(r, req[r].then)
  /\ UNCHANGED <<files, sent>>

-----------------------------------------------------------------------------
(* Destruction and shutdown.                                               *)

\* A nexus that is not found has at most its file left.
DestroyNexus(r, v) ==
  /\ req[r].pc = "locked" /\ req[r].glob = (v = "v0") /\ (v = "v1" => req[r].id \in Uuids)
  /\ IF Found(r, v) = 0
     THEN files' = files \ {req[r].id} /\ Answer(r) /\ UNCHANGED nexus
     ELSE UnshareNexusInternal(r, Found(r, v), v, "destroy") /\ UNCHANGED files
  /\ UNCHANGED sent

\* destroy_ext(): the rebuilds are cancelled, the children closed, the shutdown
\* saved if it can be, and the file removed.
DestroyCloses(r) ==
  /\ Holds(r, "closing")
  /\ files' = files \ {nexus[req[r].obj].uuid}
  /\ req' = [req EXCEPT ![r].pc = "unregistering"]
  /\ UNCHANGED <<nexus, global, locks, sent>>

\* unregister_bdev_async() frees the nexus, or fails.
Unregister(r) ==
  /\ Holds(r, "unregistering")
  /\ \/ nexus' = [nexus EXCEPT ![req[r].obj].st = "gone", ![req[r].obj].by = req[r].id]
     \/ UNCHANGED nexus
  /\ Answer(r)
  /\ UNCHANGED <<files, sent>>

\* shutdown_nexus() until the pause.
ShutdownNexus(r, v) ==
  LET o == Found(r, v)
  IN  /\ Serves(r, v)
      /\ IF o = 0 \/ nexus[o].st = "shutting" THEN Answer(r) /\ UNCHANGED nexus
         ELSE IF nexus[o].st = "shutdown" THEN Finish(r, v) /\ UNCHANGED nexus
         ELSE /\ nexus' = [nexus EXCEPT ![o].st = "shutting"]
              /\ Await(r, "pausing", o, v, nexus[o].st)
      /\ UNCHANGED <<files, sent>>

\* "In case of error, restore previous nexus state."
ShutdownPauses(r) ==
  /\ Holds(r, "pausing")
  /\ \/ /\ req' = [req EXCEPT ![r].pc = "stopping"] /\ UNCHANGED <<nexus, global, locks>>
     \/ /\ nexus' = [nexus EXCEPT ![req[r].obj].st = req[r].what]
        /\ Answer(r)
  /\ UNCHANGED <<files, sent>>

\* Rebuilds are cancelled, children closed and the shutdown saved.
ShutdownEnds(r) ==
  /\ Holds(r, "stopping")
  /\ nexus' = [nexus EXCEPT ![req[r].obj].st = "shutdown"]
  /\ Finish(r, req[r].then)
  /\ UNCHANGED <<files, sent>>

-----------------------------------------------------------------------------
(* Calls on a nexus and its children.  What is left of a handler: whether  *)
(* it holds its nexus until the answer, looks it up again, or needs it no  *)
(* more.                                                                   *)

CallNexus(r, v, rest) ==
  /\ Serves(r, v)
  /\ IF Found(r, v) = 0 THEN Answer(r) ELSE Await(r, "calling", Found(r, v), v, rest)
  /\ UNCHANGED <<nexus, files, sent>>

\* The call succeeds or fails.
CallDone(r) ==
  /\ Holds(r, "calling")
  /\ \/ Answer(r)
     \/ req[r].what = "hold" /\ Reply(r, req[r].obj)
     \/ req[r].what = "again" /\ Reply(r, Lookup1(req[r].id))
  /\ UNCHANGED <<nexus, files, sent>>

ResizeNexus1(r) == CallNexus(r, "v1", "again")

\* A child that is in the nexus already is refused by version 1.
NexusAddChild1(r) == InvalidArguments(r) \/ CallNexus(r, "v1", "hold")
NexusAddChild0(r) == CallNexus(r, "v0", "hold")

\* "idempotent": a child that is not in the nexus is taken for removed.
RemoveChildNexus1(r) ==
  \/ CallNexus(r, "v1", "again")
  \/ Serves(r, "v1") /\ Reply(r, Found(r, "v1")) /\ UNCHANGED <<nexus, files, sent>>
RemoveChildNexus0(r) == CallNexus(r, "v0", "none")

FaultNexusChild1(r) == CallNexus(r, "v1", "again")
FaultNexusChild0(r) == CallNexus(r, "v0", "none")

\* get_ana_state() and set_ana_state() of a nexus shared over NVMe-oF.
AnaState(r, v, rest) ==
  IF Found(r, v) # 0 /\ ~nexus[Found(r, v)].shared
  THEN Serves(r, v) /\ Answer(r) /\ UNCHANGED <<nexus, files, sent>>
  ELSE CallNexus(r, v, rest)

GetNvmeAnaState1(r) == AnaState(r, "v1", "none")
GetNvmeAnaState0(r) == AnaState(r, "v0", "none")
SetNvmeAnaState1(r) == InvalidArguments(r) \/ AnaState(r, "v1", "again")
SetNvmeAnaState0(r) == InvalidArguments(r) \/ AnaState(r, "v0", "none")

\* Offline, online and fault a child; an unknown action is refused.
ChildOperation1(r) == InvalidArguments(r) \/ CallNexus(r, "v1", "hold")
ChildOperation0(r) == InvalidArguments(r) \/ CallNexus(r, "v0", "none")

\* start_rebuild(), stop_rebuild(), pause_rebuild() and resume_rebuild().
RebuildCalls1(r) == CallNexus(r, "v1", "again")
RebuildCalls0(r) == CallNexus(r, "v0", "none")

\* get_rebuild_state() and get_rebuild_history() answer at once,
\* get_rebuild_stats() asks the job.
RebuildReads1(r) == InvalidArguments(r) \/ CallNexus(r, "v1", "none")
RebuildReads0(r) == InvalidArguments(r) \/ CallNexus(r, "v0", "none")

\* create_snapshot() of version 0: every child has a uuid, or none is snapshot.
CreateSnapshot0(r) == InvalidArguments(r) \/ CallNexus(r, "v0", "none")

-----------------------------------------------------------------------------
(* Listings.  nexus_iter() steps from a bdev to the next; a nexus that is  *)
(* being created is left out.                                              *)

Listable(S) == First({o \in S \cap Visible : nexus[o].st # "init"})

ListFrom(r, S) ==
  IF Listable(S) = 0 THEN Answer(r) ELSE Await(r, "listing", Listable(S), "", "")

\* list_nexus() of all nexuses, or in version 1 of one, by name or by uuid.
ListNexus(r) ==
  /\ req[r].pc = "idle" /\ sent < MaxRequests
  /\ sent' = sent + 1
  /\ \/ ListFrom(r, Objects)
     \/ \E n \in Names : ListFrom(r, {NexusLookup(n)}) /\ NexusLookup(n) # 0
     \/ \E u \in Uuids : ListFrom(r, {Lookup1(u)}) /\ Lookup1(u) # 0
  /\ UNCHANGED <<nexus, files>>

ListNext(r) ==
  /\ Holds(r, "listing")
  /\ ListFrom(r, {o \in Objects : o > req[r].obj})
  /\ UNCHANGED <<nexus, files, sent>>

-----------------------------------------------------------------------------
Handler(r) ==
  \/ \E n \in Names : CreateNexus1(r, n) \/ CreateNexusV2(r, n)
  \/ CreateNexus0(r) \/ InvalidArguments(r)
  \/ \E v \in {"v0", "v1"} :
       \/ \E proto \in {"nbd", "nvmf"} : PublishNexus(r, v, proto)
       \/ UnpublishNexus(r, v) \/ DestroyNexus(r, v) \/ ShutdownNexus(r, v)
  \/ ResizeNexus1(r) \/ NexusAddChild1(r) \/ NexusAddChild0(r) \/ RemoveChildNexus1(r) \/ RemoveChildNexus0(r)
  \/ FaultNexusChild1(r) \/ FaultNexusChild0(r) \/ ChildOperation1(r) \/ ChildOperation0(r)
  \/ GetNvmeAnaState1(r) \/ GetNvmeAnaState0(r) \/ SetNvmeAnaState1(r) \/ SetNvmeAnaState0(r)
  \/ RebuildCalls1(r) \/ RebuildCalls0(r) \/ RebuildReads1(r) \/ RebuildReads0(r) \/ CreateSnapshot0(r)

Future(r) ==
  \/ CreateFails(r) \/ RegisterInstance(r) \/ RegisterOpens(r)
  \/ MarkShared(r) \/ ShareDone(r) \/ UpdateProperties(r) \/ UnshareDone(r) \/ MarkUnshared(r)
  \/ DestroyCloses(r) \/ Unregister(r) \/ ShutdownPauses(r) \/ ShutdownEnds(r)
  \/ CallDone(r) \/ Replied(r) \/ ListNext(r) \/ Dangling(r)

Locking(r) == LockGlobal(r) \/ LockResource(r) \/ LockTimeout(r)

\* The nexuses that two requests work on at a time, or that one changes while
\* another works on it.
Observe ==
  LET works(r, o) == req'[r].obj = o /\ req'[r].pc \notin {"listing", "replying"}
      waits(r, o) == works(r, o) /\ req'[r] = req[r]
  IN  crossed' = crossed \cup
        {o \in Objects : \/ works(1, o) /\ works(2, o)
                         \/ nexus'[o] # nexus[o] /\ (waits(1, o) \/ waits(2, o))}

ApiNext ==
  /\ \E r \in Requests :
       \/ \E id \in ClientIds, glob \in BOOLEAN : Arrive(r, id, glob)
       \/ Locking(r) \/ Handler(r) \/ Future(r) \/ ListNexus(r)
  /\ Observe

\* Locks are granted or time out, and the calls that futures await return.
ApiFairness == \A r \in Requests : WF_apiVars((Locking(r) \/ Handler(r) \/ Future(r)) /\ Observe)

ApiSpec == ApiInit /\ [][ApiNext]_apiVars /\ ApiFairness

-----------------------------------------------------------------------------
(* Properties.                                                             *)

\* A future that holds a nexus across an await finds it when it resumes, for
\* requests that name the nexus alike: the lock of the identifier is held until
\* the answer, whatever the version and whether the client waits or not.
\* Listings hold no lock, and a name is not the lock of a uuid.
ReferencesLive ==
  \A r \in Requests :
    LET n == nexus[req[r].obj]
    IN  req[r].obj # 0 /\ n.st = "gone" => req[r].pc = "listing" \/ n.by # req[r].id

\* Version 1 never creates a nexus under the uuid of another, however the
\* requests interleave; version 0 looks for the name alone.
UuidsUnique ==
  \A o, p \in Visible : o < p /\ nexus[o].uuid = nexus[p].uuid => ~nexus[p].checked

\* "so a crash from here cannot leave the nexus persisted as unshared while
\* initiators may already be writing data" (nexus_share.rs): a nexus with a
\* target is marked as shared in the store, unless two requests worked on it at
\* a time.
PublishedIsMarked ==
  \A o \in Visible \ crossed : nexus[o].shared \/ nexus[o].target # "none" => nexus[o].marked

\* The file of persistent reservations lives as long as its nexus and is there
\* while the nexus is shared over NVMe-oF.
FilesFollowNexuses ==
  /\ \A u \in files : \E o \in Objects : nexus[o].uuid = u /\ (o \in Visible \/ o \in crossed)
  /\ \A o \in Visible \ crossed :
       \/ ~nexus[o].shared \/ nexus[o].uuid \in files
       \/ \E p \in Objects \ {o} : nexus[p].uuid = nexus[o].uuid

\* "so that nexus list does not return this nexus until it is persisted"
\* (nexus_bdev.rs), unless another request worked on it while it was created.
ListedIsPersisted ==
  \A r \in Requests : req[r].pc = "listing" => nexus[req[r].obj].saved \/ req[r].obj \in crossed

\* Concurrent requests of both versions leave the nexuses, their marks and
\* files, and each other in order.
RequestsAreSound ==
  ReferencesLive /\ UuidsUnique /\ PublishedIsMarked /\ FilesFollowNexuses /\ ListedIsPersisted
=============================================================================
