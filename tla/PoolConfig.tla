------------------------------- MODULE PoolConfig -------------------------------
(***************************************************************************)
(* The pool configuration file (subsys/config/pool.rs) and the requests of *)
(* version 0 of the gRPC API that keep it (grpc/v0/mayastor_grpc.rs).  The *)
(* file lists the pools that are created, or imported, when the engine     *)
(* starts.  A request captures the pools that are loaded, and waits until  *)
(* a thread of the runtime has written the capture.  The service runs one  *)
(* request at a time while its client waits.  Requests of version 1 create *)
(* and destroy pools as well, with other locks, and leave the file alone.  *)
(***************************************************************************)
EXTENDS Naturals, FiniteSets

CONSTANTS
  V0Reqs,     \* the futures of the service
  Pools,      \* pools, each on a disk of its own
  MaxV0,      \* bound on the requests of version 0
  MaxV1,      \* bound on the requests of version 1
  MaxGone,    \* bound on the clients that go away
  MaxStarts   \* bound on the restarts of the engine

VARIABLES
  onDisk,     \* the disks that hold their pool
  here,       \* the pools that are loaded
  file,       \* the pools in the file
  v0,         \* the requests that run
  made,       \* pools a client has created, and nobody has removed since
  unmade,     \* pools a client has destroyed, and nobody has created since
  slipped,    \* a write of the file, or an import at a start, has failed
  v0s, v1s, gone, starts

configBounds == <<v0s, v1s, gone, starts>>
configVars == <<onDisk, here, file, v0, made, unmade, slipped, configBounds>>

NoReq == [pc |-> "idle"]
Underway == {r \in V0Reqs : v0[r] # NoReq}

ConfigInit ==
  /\ onDisk = {} /\ here = {} /\ file = {}
  /\ v0 = [r \in V0Reqs |-> NoReq]
  /\ made = {} /\ unmade = {} /\ slipped = FALSE
  /\ v0s = 0 /\ v1s = 0 /\ gone = 0 /\ starts = 0

-----------------------------------------------------------------------------
(* Requests of version 0.                                                  *)

Next0(r, q) == v0' = [v0 EXCEPT ![r] = q]

\* MayastorSvc::locked().
Busy0 == \E r \in Underway : v0[r].attached

Accept(r) ==
  /\ v0[r] = NoReq /\ v0s < MaxV0 /\ ~Busy0
  /\ \A s \in V0Reqs : v0[s] = NoReq => r <= s
  /\ v0s' = v0s + 1
  /\ UNCHANGED <<onDisk, here, file, made, slipped, v1s, gone, starts>>

\* PoolConfig::capture(), then delete() of a pool.
Capture(p) == here \ {p}

V0CreatePool(r, p) ==
  /\ Accept(r)
  /\ unmade' = unmade \ {p}
  /\ Next0(r, [pc |-> "create", pool |-> p, capture |-> {}, attached |-> TRUE])

\* create_or_import() is over; that the pool was there already is no error.
PoolCreated(r) ==
  /\ v0[r].pc = "create"
  /\ LET p == v0[r].pool
     IN  \/ /\ here' = here \cup {p} /\ onDisk' = onDisk \cup {p}
            /\ Next0(r, [v0[r] EXCEPT !.pc = "saveCreated", !.capture = here \cup {p}])
         \/ p \notin here /\ Next0(r, NoReq) /\ UNCHANGED <<here, onDisk>>
  /\ UNCHANGED <<file, made, unmade, slipped, configBounds>>

\* PoolConfig::export() and write(): that the write fails is only logged.
ExportConfig(capture) ==
  \/ file' = capture /\ UNCHANGED slipped
  \/ slipped' = TRUE /\ UNCHANGED file

CreateSaved(r) ==
  /\ v0[r].pc = "saveCreated"
  /\ ExportConfig(v0[r].capture)
  /\ made' = made \cup ({v0[r].pool} \cap here)
  /\ Next0(r, NoReq)
  /\ UNCHANGED <<onDisk, here, unmade, configBounds>>

\* Mutant: the pool is not removed from the capture.
V0DestroyPoolKept(r, p) ==
  /\ p \in here
  /\ Accept(r)
  /\ Next0(r, [pc |-> "saveDestroyed", pool |-> p, capture |-> here, attached |-> TRUE])
  /\ UNCHANGED unmade

\* A pool that is not found is destroyed already.
V0DestroyPool(r, p) ==
  /\ p \in here
  /\ Accept(r)
  /\ Next0(r, [pc |-> "saveDestroyed", pool |-> p, capture |-> Capture(p), attached |-> TRUE])
  /\ UNCHANGED unmade

\* The file is written BEFORE the pool is destroyed.
DestroySaved(r) ==
  /\ v0[r].pc = "saveDestroyed"
  /\ ExportConfig(v0[r].capture)
  /\ made' = made \ {v0[r].pool}
  /\ Next0(r, IF v0[r].pool \in here THEN [v0[r] EXCEPT !.pc = "destroy"] ELSE NoReq)
  /\ UNCHANGED <<onDisk, here, unmade, configBounds>>

PoolDestroyed(r) ==
  /\ v0[r].pc = "destroy"
  /\ LET p == v0[r].pool
     IN  \/ /\ p \in here
            /\ here' = here \ {p} /\ onDisk' = onDisk \ {p} /\ unmade' = unmade \cup {p}
         \/ UNCHANGED <<here, onDisk, unmade>>
  /\ Next0(r, NoReq)
  /\ UNCHANGED <<file, made, slipped, configBounds>>

-----------------------------------------------------------------------------
(* Requests of version 1, from start to end.                               *)

V1 == v1s < MaxV1 /\ v1s' = v1s + 1 /\ UNCHANGED <<file, v0, slipped, v0s, gone, starts>>

V1Create(p) ==
  /\ V1 /\ p \notin here
  /\ here' = here \cup {p} /\ onDisk' = onDisk \cup {p}
  /\ unmade' = unmade \ {p} /\ UNCHANGED made

V1Export(p) ==
  /\ V1 /\ p \in here
  /\ here' = here \ {p} /\ made' = made \ {p} /\ UNCHANGED <<onDisk, unmade>>

V1Destroy(p) ==
  /\ V1 /\ p \in here
  /\ here' = here \ {p} /\ onDisk' = onDisk \ {p} /\ made' = made \ {p} /\ UNCHANGED unmade

-----------------------------------------------------------------------------
(* The engine.                                                             *)

ClientGone(r) ==
  /\ r \in Underway /\ v0[r].attached /\ gone < MaxGone
  /\ gone' = gone + 1
  /\ Next0(r, [v0[r] EXCEPT !.attached = FALSE])
  /\ UNCHANGED <<onDisk, here, file, made, unmade, slipped, v0s, v1s, starts>>

\* The engine starts again: import_pools() creates, or imports, the pools in the
\* file before any request is served; some may fail.
Restart ==
  /\ starts < MaxStarts
  /\ starts' = starts + 1
  /\ \E failing \in SUBSET file :
       /\ here' = file \ failing
       /\ onDisk' = onDisk \cup (file \ failing)
       /\ slipped' = (slipped \/ failing # {})
  /\ v0' = [r \in V0Reqs |-> NoReq]
  /\ UNCHANGED <<file, made, unmade, v0s, v1s, gone>>

ConfigNext ==
  \/ \E r \in V0Reqs :
       \/ \E p \in Pools : V0CreatePool(r, p) \/ V0DestroyPool(r, p)
       \/ PoolCreated(r) \/ CreateSaved(r) \/ DestroySaved(r) \/ PoolDestroyed(r)
       \/ ClientGone(r)
  \/ \E p \in Pools : V1Create(p) \/ V1Export(p) \/ V1Destroy(p)
  \/ Restart

ConfigSpec == ConfigInit /\ [][ConfigNext]_configVars

-----------------------------------------------------------------------------
(* Properties.                                                             *)

\* A pool that a client has destroyed does not come back, empty, when the engine
\* starts again; unless the file could not be written, or a client went away,
\* whose capture may be written late.
DestroyedStaysAway == gone = 0 /\ ~slipped => unmade \cap onDisk = {}

\* A pool that a client has created, and that was not exported or destroyed, is
\* in the file; unless the file could not be written, or the import of the pool
\* failed at a start, for a later capture is of the pools that are loaded, or a
\* client went away.
CreatedIsListed == gone = 0 /\ ~slipped => made \subseteq file

\* After a restart a node has the pools its clients left it with.
PoolsAsAsked == DestroyedStaysAway /\ CreatedIsListed
=============================================================================
