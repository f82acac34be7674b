------------------------------- MODULE MCPools -------------------------------
(***************************************************************************)
(* Pools for TLC: the life of a pool, the detection of its stalls, its     *)
(* replicas, snapshots and clones, the chains they form, the properties of *)
(* a replica, and the file that lists the pools.  A behaviour is one of    *)
(* the six, chosen by part, so that one run explores all of them and not   *)
(* their product.                                                          *)
(***************************************************************************)
EXTENDS LvsPool, PoolStall, PoolConfig

CONSTANTS SnapReqs, Vols, Snaps, MaxSnapOps, MaxMishaps,
          Volumes, SnapIds, MaxWrites, MaxSteps,
          Callers, HostLists, Entities, Sizes, MaxCalls, MaxTroubles

VARIABLES part,
          lvols, mem, destroying, snapLoaded, req, gc, used, acked, double, failed,
          snapOps, left, gcs, reboots, errors,
          lvol, given, writes, steps,
          blob, meta, live, propPool, call, told, unclear, callCount, troubles

Snap == INSTANCE LvolSnapshot WITH loaded <- snapLoaded
Chain == INSTANCE SnapshotChain
Props == INSTANCE ReplicaProps WITH pool <- propPool

snapVars == <<lvols, mem, destroying, snapLoaded, req, gc, used, acked, double, failed,
              snapOps, left, gcs, reboots, errors>>
chainVars == <<lvol, given, writes, steps>>
propVars == <<blob, meta, live, propPool, call, told, unclear, callCount, troubles>>
allVars == <<part, lvsPoolVars, stallVars, snapVars, chainVars, propVars, configVars>>

-----------------------------------------------------------------------------
Op(k, n, u, e) == [kind |-> k, name |-> n, uuid |-> u, enc |-> e]

\* What clients ask for: pools with and without encryption on the same disk, by
\* the right and by the wrong name and uuid.
MCOps ==
  {Op("create", "p", 0, FALSE), Op("create", "q", 0, TRUE),
   Op("import", "p", 1, FALSE), Op("import", "p", 2, TRUE), Op("import", "q", 0, FALSE)}
  \cup {Op(k, "p", 0, FALSE) : k \in {"export", "destroy", "grow", "share", "unshare"}}

\* Any host, or one.
MCHostLists == {{}, {"h"}}

\* A part that is not explored has one initial state.
MCInit ==
  /\ part \in {"pool", "stall", "snapshot", "chain", "props", "config"}
  /\ PoolInit /\ StallInit /\ Snap!SnapInit /\ Chain!ChainInit /\ Props!PropInit
  /\ ConfigInit
  /\ part # "pool" => disk = None
  /\ part # "snapshot" => used \cap Snaps = {}
  /\ part # "props" => blob = Props!NoBlob

MCNext ==
  /\ UNCHANGED part
  /\ \/ /\ part = "pool" /\ PoolNext
        /\ UNCHANGED <<stallVars, snapVars, chainVars, propVars, configVars>>
     \/ /\ part = "stall" /\ StallNext
        /\ UNCHANGED <<lvsPoolVars, snapVars, chainVars, propVars, configVars>>
     \/ /\ part = "snapshot" /\ Snap!SnapNext
        /\ UNCHANGED <<lvsPoolVars, stallVars, chainVars, propVars, configVars>>
     \/ /\ part = "chain" /\ Chain!ChainNext
        /\ UNCHANGED <<lvsPoolVars, stallVars, snapVars, propVars, configVars>>
     \/ /\ part = "props" /\ Props!PropNext
        /\ UNCHANGED <<lvsPoolVars, stallVars, snapVars, chainVars, configVars>>
     \/ /\ part = "config" /\ ConfigNext
        /\ UNCHANGED <<lvsPoolVars, stallVars, snapVars, chainVars, propVars>>

MCSpec == MCInit /\ [][MCNext]_allVars

-----------------------------------------------------------------------------
(* The properties of the other parts.                                      *)

\* Replicas, snapshots and clones: what was answered lasts, what was discarded
\* goes, what is used stays, the chains are listed as they are, and a replica is
\* shared as the last answer about it said.
VolumesAreSound ==
  Snap!SnapshotsAreSound /\ Chain!ChainsAreSound /\ Props!ReplicaIsAsTold
=============================================================================
