---------------------------- MODULE SnapshotChain ----------------------------
(***************************************************************************)
(* The chains that snapshots and clones form in a pool, and what is read   *)
(* off them (lvol_snapshot.rs, lvs_lvol.rs, lvs/mod.rs): the lists of      *)
(* snapshots and of clones, and the space they use.  A snapshot goes       *)
(* between the lvol it is taken of and that lvol's parent; a clone has     *)
(* its snapshot as parent; a snapshot that is destroyed leaves its         *)
(* clusters to its only child.  The requests, which run one at a time      *)
(* here, are those of LvolSnapshot, where they interleave.                 *)
(***************************************************************************)
EXTENDS Naturals, Sequences, FiniteSets, SequencesExt, FiniteSetsExt

CONSTANTS
  Volumes,   \* replicas and clones: numbers for their uuids
  SnapIds,   \* snapshots, likewise
  MaxWrites, \* bound on the clusters that are written
  MaxSteps   \* bound on the requests

VARIABLES
  lvol,      \* the lvols that are there
  given,     \* the uuids that clients gave to lvols: each one once, in order
  writes, steps

chainVars == <<lvol, given, writes, steps>>

NoParent == 0

There(x) == x \in DOMAIN lvol
IsSnapshot(x) == There(x) /\ lvol[x].kind = "snapshot"
IsClone(x) == There(x) /\ lvol[x].kind = "clone"

\* find() of replicas and find_snap() of snapshots.
FindReplica(x) == There(x) /\ ~IsSnapshot(x)
FindSnap(x) == IsSnapshot(x)

\* What prepare_snapshot_xattrs() and prepare_clone_xattrs() note of an lvol, the
\* blob's parent and the clusters allocated to it.
Lvol(kind, source, parent, clusters) ==
  [kind |-> kind, source |-> source, parent |-> parent, clusters |-> clusters, discarded |-> FALSE]

ChainInit ==
  /\ given = {Min(Volumes)}
  /\ lvol = [x \in given |-> Lvol("replica", NoParent, NoParent, 1)]
  /\ writes = 0 /\ steps = 0

With(x, l) == [y \in DOMAIN lvol \cup {x} |-> IF y = x THEN l ELSE lvol[y]]

-----------------------------------------------------------------------------
(* What is read off the chains.                                            *)

\* The blobs an lvol is backed by, the nearest first: bs_iter_parent().
Ancestors(x) ==
  LET up[y \in DOMAIN lvol \cup {NoParent}] ==
        IF y = NoParent THEN <<>> ELSE <<y>> \o up[lvol[y].parent]
  IN  up[lvol[x].parent]

\* list_lvol_snapshot_by_source_uuid(): up the chain, until a snapshot was taken
\* of another lvol.
ListBySource(v) ==
  LET chain == Ancestors(v)
      ours(i) == \A j \in 1..i : lvol[chain[j]].source = v
  IN  SubSeq(chain, 1, Cardinality({i \in DOMAIN chain : ours(i)}))

\* list_all_lvol_snapshots(), with or without a parent to match.
ListAllSnapshots == {s \in SnapIds : IsSnapshot(s)}
ListAllOf(v) == {s \in ListAllSnapshots : lvol[s].source = v}

\* list_clones_by_snapshot_uuid() and clone_count(): the clones themselves, not
\* the snapshots that came in between.
ListClones(s) == {v \in Volumes : IsClone(v) /\ lvol[v].source = s}

\* list_all_clones()
ListAllClones == {v \in Volumes : IsClone(v)}

\* blob_clone_count(): the blobs that have this one as parent.
BlobClones(l, x) == {y \in DOMAIN l : l[y].parent = x}

Clusters(xs) == MapThenSumSet(LAMBDA x : lvol[x].clusters, xs)

\* usage(): the clusters of the ancestors.
ClustersSnapshots(x) == Clusters(ToSet(Ancestors(x)))

\* calculate_clone_source_snap_usage(): for a clone its snapshots; for a snapshot
\* of a clone the ancestors without the snapshot the clone was made of, and its
\* ancestors.  There is none while an lvol it needs is gone.
CloneOf(s) == lvol[s].source
HasCloneUsage(x) ==
  \/ IsClone(x)
  \/ IsSnapshot(x) /\ IsClone(CloneOf(x)) /\ There(lvol[CloneOf(x)].source)
Subtracted(s) ==
  LET t == lvol[CloneOf(s)].source IN ClustersSnapshots(t) + lvol[t].clusters
CloneUsage(x) ==
  IF IsClone(x) THEN Clusters(ListAllOf(x)) ELSE ClustersSnapshots(x) - Subtracted(x)

\* list_snaps(): by uuid, which may be the one of another lvol, by source, or all;
\* an lvol that is not there adds nothing to the list.  Arguments of a query are
\* the set of the value they have, or empty.
ListSnaps(uuid, source) ==
  IF uuid # {} THEN {x \in uuid : There(x)}
  ELSE IF source # {} THEN UNION {ToSet(ListBySource(v)) : v \in {w \in source : There(w)}}
  ELSE ListAllSnapshots

\* filter_snapshots_by_snapshot_query_type(): invalid asks for the valid ones.
FilterSnapshots(list, invalid, discarded) ==
  {s \in list : /\ invalid \in {{}, {IsSnapshot(s)}}
                /\ discarded \in {{}, {lvol[s].discarded}}}

\* list_snapshot()
ListSnapshot(uuid, source, invalid, discarded) ==
  FilterSnapshots(ListSnaps(uuid, source), invalid, discarded)

\* list_snapshot_clone(), of one snapshot or of all.
ListSnapshotClone(snap) ==
  IF snap = {} THEN ListAllClones ELSE UNION {ListClones(s) : s \in {t \in snap : There(t)}}

\* list_replicas() with filter_replicas_by_replica_type().
ListReplicas(kinds) == {x \in DOMAIN lvol : lvol[x].kind \in kinds}

-----------------------------------------------------------------------------
(* Requests.                                                               *)

Requested == steps < MaxSteps /\ steps' = steps + 1
Gives(x, ids) == x = Min(ids \ given) /\ given' = given \cup {x}

\* Blocks are written to a replica or to a clone.
WriteCluster(v) ==
  /\ There(v) /\ writes < MaxWrites /\ writes' = writes + 1
  /\ lvol' = [lvol EXCEPT ![v].clusters = @ + 1]
  /\ UNCHANGED <<given, steps>>

\* create_replica_snapshot(): the snapshot takes over the clusters and the parent.
CreateReplicaSnapshot(v, s) ==
  /\ FindReplica(v) /\ Requested
  /\ SnapIds \ given # {} /\ Gives(s, SnapIds)
  /\ lvol' = [With(s, Lvol("snapshot", v, lvol[v].parent, lvol[v].clusters))
                EXCEPT ![v].parent = s, ![v].clusters = 0]
  /\ UNCHANGED writes

\* create_snapshot_clone()
CreateSnapshotClone(s, v) ==
  /\ FindSnap(s) /\ ~lvol[s].discarded /\ Requested
  /\ Volumes \ given # {} /\ Gives(v, Volumes)
  /\ lvol' = With(v, Lvol("clone", s, s, 0))
  /\ UNCHANGED writes

\* spdk_blob deletion: of at most one child, which takes the place in the chain
\* and the clusters that it has not written itself.
Deletable(l, x) == Cardinality(BlobClones(l, x)) <= 1
Deleted(l, x, kept) ==
  [y \in DOMAIN l \ {x} |->
     IF l[y].parent = x THEN [l[y] EXCEPT !.parent = l[x].parent, !.clusters = @ + kept]
                        ELSE l[y]]

\* destroy_snapshot(): one that has clones is only marked.
DestroySnapshot(s) ==
  /\ FindSnap(s) /\ Requested
  /\ \/ ListClones(s) # {} /\ lvol' = [lvol EXCEPT ![s].discarded = TRUE]
     \/ /\ ListClones(s) = {} /\ Deletable(lvol, s)
        /\ \E kept \in 0..lvol[s].clusters : lvol' = Deleted(lvol, s, kept)
  /\ UNCHANGED <<given, writes>>

\* destroy_replica(): the last clone takes a discarded snapshot along, unless the
\* blobstore refuses.
DestroyReplica(v) ==
  /\ FindReplica(v) /\ Requested
  /\ LET rest == Deleted(lvol, v, 0)
         s == lvol[v].source
     IN  IF /\ IsClone(v) /\ There(s)
            /\ lvol[s].discarded /\ ListClones(s) = {v} /\ Deletable(rest, s)
           THEN \E kept \in 0..lvol[s].clusters : lvol' = Deleted(rest, s, kept)
           ELSE lvol' = rest
  /\ UNCHANGED <<given, writes>>

ChainNext ==
  \/ \E v \in Volumes : WriteCluster(v) \/ DestroyReplica(v)
  \/ \E s \in SnapIds : DestroySnapshot(s)
  \/ \E v \in Volumes, s \in SnapIds : CreateReplicaSnapshot(v, s) \/ CreateSnapshotClone(s, v)

ChainSpec == ChainInit /\ [][ChainNext]_chainVars

-----------------------------------------------------------------------------
(* Properties.                                                             *)

\* The list of the snapshots of an lvol, read off its chain, has exactly the
\* snapshots that name it as their source, whatever was cloned and destroyed in
\* between; a query for discarded ones splits each list; and the lists of
\* replicas, of snapshots and of clones have every lvol once.
ListingsAgree ==
  LET all == ListSnapshot({}, {}, {}, {})
  IN  /\ \A v \in DOMAIN lvol : FindReplica(v) =>
           ListSnapshot({}, {v}, {}, {}) = {s \in all : lvol[s].source = v}
      /\ \A v \in Volumes \cup {NoParent} :
           LET of == IF v = NoParent THEN {} ELSE {v}
               list(d) == ListSnapshot({}, of, {TRUE}, {d})
           IN  list(TRUE) \cup list(FALSE) = ListSnapshot({}, of, {}, {})
      /\ ListReplicas({"snapshot"}) = all
      /\ ListReplicas({"clone"}) = UNION {ListSnapshotClone({s}) : s \in all}
      /\ ListReplicas({"replica"}) \cup ListSnapshotClone({}) \cup all = DOMAIN lvol

\* Every clone is backed by the snapshot it was made of, and counted by it.
ClonesAreBacked ==
  \A v \in ListAllClones :
    /\ There(lvol[v].source) /\ lvol[v].source \in ToSet(Ancestors(v))
    /\ v \in ListClones(lvol[v].source)

\* The space that snapshots of a clone use since it was made: what is subtracted
\* is never more than what there is, and what is left are the clusters of the
\* clone's own snapshots below.
CloneUsageIsExact ==
  \A x \in DOMAIN lvol : HasCloneUsage(x) =>
    IF IsClone(x) THEN CloneUsage(x) = Clusters(ToSet(ListBySource(x)))
    ELSE /\ Subtracted(x) <= ClustersSnapshots(x)
         /\ CloneUsage(x) = Clusters(ToSet(Ancestors(x)) \cap ListAllOf(CloneOf(x)))

\* The lists of snapshots and clones agree with each other and with the chains
\* they are read off, and so do the sizes.
ChainsAreSound == ListingsAgree /\ ClonesAreBacked /\ CloneUsageIsExact
=============================================================================
