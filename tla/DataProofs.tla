------------------------------- MODULE DataProofs -------------------------------
(***************************************************************************)
(* Proofs about the data on the children of a nexus: where it may lie      *)
(* (GptLabel), and that a rebuild brings all of it to a child (RebuildJob, *)
(* for any number of segments and copy tasks).                             *)
(***************************************************************************)
EXTENDS RebuildJob, GptLabel, TLAPS

(* What the provers may take on a leaf: thirty seconds each.              *)
USE SMTT(30), ZenonT(30)
-----------------------------------------------------------------------------
(* The size of a nexus.  That its data fits holds of every member, also of *)
(* one whose device is closed: the device only grows until it is opened    *)
(* again, and a child that is added has as many blocks as a member.        *)

Nexuses == [open : BOOLEAN, version : Versions, exact : BOOLEAN, req : Nat,
            start : Int, blocks : Int, bs : Nat]

BlockSizes == {512, 4096}
Geometry == [nb : Nat, bs : BlockSizes]

SizeTypes ==
  /\ dev \in [Children -> Geometry]
  /\ nexus \in Nexuses
  /\ DOMAIN members \subseteq Children

MembersFit ==
  nexus.open =>
    \A c \in DOMAIN members :
      /\ dev[c].bs = nexus.bs
      /\ nexus.start + nexus.blocks - 1 <= LastUsable(dev[c].nb, dev[c].bs)

SizeInv == SizeTypes /\ MembersFit /\ ExactSize

\* Both layouts end within the usable blocks of a device.
LEMMA ExtentFits ==
  ASSUME NEW v \in Versions, NEW req \in Nat, NEW nb \in Nat, NEW bs \in BlockSizes,
         DataExtent(v, req, nb, bs) # NoExtent
  PROVE  /\ DataExtent(v, req, nb, bs).start \in Nat /\ DataExtent(v, req, nb, bs).end \in Nat
         /\ DataExtent(v, req, nb, bs).end <= LastUsable(nb, bs)
PROOF
<1> USE DEF BlockSizes
<1>1. /\ GetBlocks(MiB, 512) = 2048 /\ GetBlocks(MiB, 4096) = 256
      /\ GetBlocks(3 * MiB, 512) = 6144 /\ GetBlocks(3 * MiB, 4096) = 768
      /\ GetBlocks(4 * MiB, 512) = 8192 /\ GetBlocks(4 * MiB, 4096) = 1024
      /\ GetBlocks(0, 512) = 0 /\ GetBlocks(0, 4096) = 0
      /\ GetBlocks(128 * 128, 512) = 32 /\ GetBlocks(128 * 128, 4096) = 4
      /\ GetBlocks(92, 512) = 1 /\ GetBlocks(92, 4096) = 1
  BY DEF GetBlocks, MiB
<1>2. PICK last \in Int : last = LastUsable(nb, bs) /\ last = nb - (IF bs = 512 THEN 34 ELSE 6)
  BY <1>1 DEF LastUsable, PARTITION_TABLE_SIZE, HEADER_SIZE
<1>3. \/ Layout(v).meta = 4 * MiB /\ Layout(v).align = 0 /\ Layout(v).void = 0
      \/ Layout(v).meta = 3 * MiB /\ Layout(v).align = MiB /\ Layout(v).void = 4 * MiB
  BY DEF Layout, LayoutV1, LayoutV2, Versions
<1>4. DataStart(v, bs) \in Nat
  BY <1>1, <1>3 DEF DataStart, METADATA_RESERVATION_OFFSET
<1>5. Trailing(v, bs) \in Nat /\ (Trailing(v, bs) > 0 => Trailing(v, bs) > 34)
  BY <1>1, <1>3 DEF Trailing
<1>6. UsableEnd(v, nb, bs) \in Int /\ UsableEnd(v, nb, bs) <= last
  BY <1>2, <1>5 DEF UsableEnd
<1>7. DataBlocks(v, req, nb, bs) \in Int
  <2>1. PICK most \in Int : most = UsableEnd(v, nb, bs) - DataStart(v, bs) + 1
    BY <1>4, <1>6
  <2>2. PICK wanted \in Int : wanted = GetBlocks(req, bs)
    BY DEF GetBlocks
  <2>3. CASE Layout(v).align > 0
    <3>1. PICK cluster \in Nat \ {0} : cluster = GetBlocks(Layout(v).align, bs)
      BY <1>1, <1>3, <2>3
    <3>2. PICK up \in Int : up = align_up(wanted, cluster)
      BY <2>2, <3>1 DEF align_up
    <3>3. PICK down \in Int : down = align_down(most, cluster)
      BY <2>1, <3>1 DEF align_down
    <3>4. DataBlocks(v, req, nb, bs) = Min2(up, down)
      BY <2>1, <2>2, <2>3, <3>1, <3>2, <3>3 DEF DataBlocks
    <3> QED BY <3>4 DEF Min2
  <2>4. CASE ~(Layout(v).align > 0)
    BY <2>1, <2>2, <2>4 DEF DataBlocks, Min2
  <2> QED BY <2>3, <2>4
<1>8. DataEnd(v, req, nb, bs) \in Int
  BY <1>4, <1>7 DEF DataEnd
<1> QED BY <1>2, <1>4, <1>6, <1>8 DEF DataExtent

FitsAll(r, C) ==
  /\ r.exact => r.blocks = r.req \div r.bs
  /\ \A c \in C : /\ dev[c].bs = r.bs
                  /\ r.start + r.blocks - 1 <= LastUsable(dev[c].nb, dev[c].bs)

\* The nexus that setup_nexus_bdev() makes of the children C fits each of them.
LEMMA SetupFits ==
  ASSUME dev \in [Children -> Geometry],
         NEW n \in Nexuses, NEW C \in SUBSET Children,
         NEW resizing, NEW used,
         NEW r \in SetupNexusBdev(n, C, resizing, used)
  PROVE  r \in Nexuses /\ FitsAll(r, C)
PROOF
<1>1. PICK b \in BlocksOf(n, C) :
        /\ ~SetupRefused(n, C, resizing, used, b)
        /\ r = [open |-> TRUE, version |-> n.version, exact |-> n.exact, req |-> n.req,
                start |-> StartOf(n, C), blocks |-> b, bs |-> BlockLenOf(C)]
  BY DEF SetupNexusBdev
<1>2. /\ \A c, d \in C : dev[c].bs = dev[d].bs
      /\ \A c \in C : ExtentOf(n, c) # NoExtent
      /\ \A c, d \in C : ExtentOf(n, c).start = ExtentOf(n, d).start
      /\ n.exact => n.req \div BlockLenOf(C) = b
  BY <1>1, Zenon DEF SetupRefused
<1>3. n.version \in Versions /\ n.req \in Nat /\ n.exact \in BOOLEAN
  BY DEF Nexuses
<1>4. \A c \in C : dev[c].nb \in Nat /\ dev[c].bs \in BlockSizes
  BY DEF Geometry
<1>5. \A c \in C : /\ ExtentOf(n, c).start \in Nat /\ ExtentOf(n, c).end \in Nat
                  /\ ExtentOf(n, c).end <= LastUsable(dev[c].nb, dev[c].bs)
  BY <1>2, <1>3, <1>4, ExtentFits DEF ExtentOf
<1>6. PICK end \in Nat : /\ C # {} /\ b = end - StartOf(n, C) + 1
                        /\ \A c \in C : end <= ExtentOf(n, c).end
  <2>1. PICK e \in SmallestEnd(EndsOf(n, C)) : b = e - StartOf(n, C) + 1
    BY <1>1 DEF BlocksOf
  <2>2. e \in EndsOf(n, C) /\ \A f \in EndsOf(n, C) : e <= f
    BY DEF SmallestEnd
  <2>3. PICK c \in C : e = ExtentOf(n, c).end
    BY <2>2 DEF EndsOf
  <2>4. \A d \in C : e <= ExtentOf(n, d).end
    BY <2>2 DEF EndsOf
  <2> QED BY <1>5, <2>1, <2>3, <2>4
<1>7. PICK start \in Nat : start = StartOf(n, C)
  <2>1. \A c \in C : StartOf(n, C) = ExtentOf(n, c).start
    BY <1>2 DEF StartOf
  <2> QED BY <1>5, <1>6, <2>1
<1>8. PICK bs \in Nat : bs = BlockLenOf(C) /\ \A c \in C : bs = dev[c].bs
  <2>1. \A c \in C : BlockLenOf(C) = dev[c].bs
    BY <1>2 DEF BlockLenOf
  <2> QED BY <1>4, <1>6, <2>1 DEF BlockSizes
<1>9. PICK blocks \in Int : blocks = b /\ end = start + blocks - 1
  BY <1>6, <1>7
<1>10. r = [open |-> TRUE, version |-> n.version, exact |-> n.exact, req |-> n.req,
           start |-> start, blocks |-> blocks, bs |-> bs]
  BY <1>1, <1>7, <1>8, <1>9
<1>11. r \in Nexuses
  <2>1. \A t, x \in BOOLEAN, v \in Versions, q, l \in Nat, s, k \in Int :
          [open |-> t, version |-> v, exact |-> x, req |-> q, start |-> s, blocks |-> k, bs |-> l] \in Nexuses
    BY DEF Nexuses
  <2>2. TRUE \in BOOLEAN /\ start \in Int /\ blocks \in Int /\ bs \in Nat
    OBVIOUS
  <2>3. [open |-> TRUE, version |-> n.version, exact |-> n.exact, req |-> n.req,
         start |-> start, blocks |-> blocks, bs |-> bs] \in Nexuses
    BY ONLY <1>3, <2>1, <2>2, Zenon
  <2> QED BY <1>10, <2>3
<1>12. /\ r.start = start /\ r.blocks = blocks /\ r.bs = bs
       /\ r.version = n.version /\ r.exact = n.exact /\ r.req = n.req
  BY <1>10 DEF Nexuses
<1>13. ASSUME NEW c \in C PROVE r.start + r.blocks - 1 <= LastUsable(dev[c].nb, dev[c].bs)
  <2>1. LastUsable(dev[c].nb, dev[c].bs) \in Int
    BY <1>4 DEF LastUsable, GetBlocks, PARTITION_TABLE_SIZE, HEADER_SIZE, BlockSizes
  <2>2. ExtentOf(n, c).end \in Nat /\ ExtentOf(n, c).end <= LastUsable(dev[c].nb, dev[c].bs)
        /\ end <= ExtentOf(n, c).end
    BY <1>5, <1>6
  <2> QED BY <1>9, <1>12, <2>1, <2>2
<1> QED BY <1>2, <1>8, <1>9, <1>11, <1>12, <1>13 DEF FitsAll

\* The usable blocks of a device only grow with it.
LEMMA UsableGrows ==
  ASSUME NEW nb \in Nat, NEW more \in Nat, more >= nb, NEW bs \in BlockSizes
  PROVE  /\ LastUsable(nb, bs) \in Int /\ LastUsable(more, bs) \in Int
         /\ LastUsable(nb, bs) <= LastUsable(more, bs)
PROOF
<1>1. GetBlocks(PARTITION_TABLE_SIZE, bs) \in Int /\ GetBlocks(HEADER_SIZE, bs) \in Int
  BY DEF GetBlocks, PARTITION_TABLE_SIZE, HEADER_SIZE, BlockSizes
<1> QED BY <1>1 DEF LastUsable, PARTITION_TABLE_SIZE, HEADER_SIZE

\* The nexus before its creation has the right type.
LEMMA NoNexusTyped == NoNexus \in Nexuses
PROOF
<1>1. "V1" \in Versions
  BY DEF Versions
<1>2. \A b \in BOOLEAN : [open |-> b, version |-> "V1", exact |-> b, req |-> 0,
                          start |-> 0, blocks |-> 0, bs |-> 0] \in Nexuses
  BY <1>1 DEF Nexuses
<1> QED BY ONLY <1>2, FALSE \in BOOLEAN, Zenon DEF NoNexus

\* nexus_create() keeps the invariant.
LEMMA CreateKeepsSize ==
  ASSUME SizeInv, NEW v \in Versions, NEW exact \in BOOLEAN, NEW req \in ReqSizes,
         NEW C \in SUBSET Children, NexusCreate(v, exact, req, C)
  PROVE  SizeInv'
PROOF
<1> DEFINE n == [NoNexus EXCEPT !.version = v, !.exact = exact, !.req = req]
<1>1. n \in Nexuses
  <2>1. req \in Nat
    BY SizeAssumption
  <2>2. \A m \in Nexuses : [m EXCEPT !.version = v, !.exact = exact, !.req = req] \in Nexuses
    BY <2>1, Zenon DEF Nexuses
  <2> QED BY <2>2, NoNexusTyped, Zenon
<1>2. /\ nexus' \in SetupNexusBdev(n, C, FALSE, FALSE)
      /\ members' = [c \in C |-> "healthy"] /\ dev' = dev
  BY Zenon DEF NexusCreate
<1> HIDE DEF n
<1>3. dev \in [Children -> Geometry]
  BY DEF SizeInv, SizeTypes
<1>5. /\ nexus' \in Nexuses
      /\ nexus'.exact => nexus'.blocks = nexus'.req \div nexus'.bs
      /\ \A c \in C : /\ dev[c].bs = nexus'.bs
                      /\ nexus'.start + nexus'.blocks - 1 <= LastUsable(dev[c].nb, dev[c].bs)
  <2>1. PICK r : r = nexus'
    OBVIOUS
  <2>2. r \in SetupNexusBdev(n, C, FALSE, FALSE)
    BY <1>2, <2>1, Zenon
  <2>3. r \in Nexuses /\ FitsAll(r, C)
    BY ONLY <1>1, <1>3, <2>2, SetupFits, C \in SUBSET Children, Zenon
  <2> QED BY <2>1, <2>3 DEF FitsAll
<1>6. SizeTypes'
  <2>1. DOMAIN members' \subseteq Children
    BY <1>2
  <2>2. nexus' \in Nexuses
    BY <1>5
  <2>3. dev' \in [Children -> Geometry]
    BY <1>2, <1>3
  <2> QED BY <2>1, <2>2, <2>3 DEF SizeTypes
<1>7. MembersFit'
  BY <1>2, <1>5, Zenon DEF MembersFit
<1>8. ExactSize'
  BY <1>5 DEF ExactSize
<1> QED BY <1>6, <1>7, <1>8 DEF SizeInv

\* resize() keeps it, whether the new size is taken or refused.
LEMMA ResizeKeepsSize ==
  ASSUME SizeInv, NEW to \in ReqSizes, NEW used \in BOOLEAN, Resize(to, used)
  PROVE  SizeInv'
PROOF
<1> DEFINE n == [nexus EXCEPT !.req = to]
<1>1. dev \in [Children -> Geometry] /\ nexus \in Nexuses /\ DOMAIN members \in SUBSET Children
  BY DEF SizeInv, SizeTypes
<1>2. n \in Nexuses
  BY <1>1, SizeAssumption DEF Nexuses
<1>3. dev' = dev /\ members' = members
  BY DEF Resize
<1>4. \/ nexus' = nexus
      \/ nexus' \in SetupNexusBdev(n, DOMAIN members, TRUE, used)
  BY Zenon DEF Resize
<1> HIDE DEF n
<1>5. CASE nexus' = nexus
  BY <1>3, <1>5 DEF SizeInv, SizeTypes, MembersFit, ExactSize
<1>6. CASE nexus' \in SetupNexusBdev(n, DOMAIN members, TRUE, used)
  <2>2. /\ nexus' \in Nexuses
        /\ nexus'.exact => nexus'.blocks = nexus'.req \div nexus'.bs
        /\ \A c \in DOMAIN members :
             /\ dev[c].bs = nexus'.bs
             /\ nexus'.start + nexus'.blocks - 1 <= LastUsable(dev[c].nb, dev[c].bs)
    <3>1. PICK r : r = nexus'
      OBVIOUS
    <3>2. r \in SetupNexusBdev(n, DOMAIN members, TRUE, used)
      BY <1>6, <3>1, Zenon
    <3>3. r \in Nexuses /\ FitsAll(r, DOMAIN members)
      BY ONLY <1>1, <1>2, <3>2, SetupFits, Zenon
    <3> QED BY <3>1, <3>3 DEF FitsAll
  <2>3. SizeTypes'
    BY <1>1, <1>3, <2>2 DEF SizeTypes
  <2>4. MembersFit'
    BY <1>3, <2>2 DEF MembersFit
  <2>5. ExactSize'
    BY <2>2 DEF ExactSize
  <2> QED BY <2>3, <2>4, <2>5 DEF SizeInv
<1> QED BY <1>4, <1>5, <1>6, Zenon

\* A child that is added has as many blocks as a member, which holds the data.
LEMMA AddKeepsSize ==
  ASSUME SizeInv, NEW c \in Children, AddChild(c)
  PROVE  SizeInv'
PROOF
<1>1. PICK d \in DOMAIN members : dev[d].nb <= dev[c].nb
  BY DEF AddChild, FitsNexus, HealthyMembers
<1>2. /\ nexus.open /\ dev' = dev /\ nexus' = nexus /\ dev[c].bs = nexus.bs
      /\ DOMAIN members' = DOMAIN members \cup {c}
  BY DEF AddChild, FitsNexus
<1>3. /\ dev \in [Children -> Geometry] /\ nexus \in Nexuses /\ d \in Children
  BY DEF SizeInv, SizeTypes
<1>4. dev[d].bs = nexus.bs /\ nexus.start + nexus.blocks - 1 <= LastUsable(dev[d].nb, nexus.bs)
  BY <1>2 DEF SizeInv, MembersFit
<1>5. LastUsable(dev[d].nb, nexus.bs) \in Int /\ LastUsable(dev[c].nb, nexus.bs) \in Int
      /\ LastUsable(dev[d].nb, nexus.bs) <= LastUsable(dev[c].nb, nexus.bs)
  BY <1>1, <1>2, <1>3, UsableGrows DEF Geometry
<1>6. nexus.start \in Int /\ nexus.blocks \in Int
  BY <1>3 DEF Nexuses
<1>7. nexus.start + nexus.blocks - 1 <= LastUsable(dev[c].nb, nexus.bs)
  BY <1>4, <1>5, <1>6
<1>8. SizeTypes'
  BY <1>2 DEF SizeInv, SizeTypes
<1>9. MembersFit'
  BY <1>2, <1>7 DEF SizeInv, MembersFit
<1>10. ExactSize'
  BY <1>2 DEF SizeInv, ExactSize
<1> QED BY <1>8, <1>9, <1>10 DEF SizeInv

\* A replica that is resized keeps its block size and has more blocks.
LEMMA GrowsKeepsSize ==
  ASSUME SizeInv, NEW c \in Children, ReplicaGrows(c)
  PROVE  SizeInv'
PROOF
<1>1. PICK nb \in Blocks : nb > dev[c].nb /\ dev' = [dev EXCEPT ![c].nb = nb]
  BY Zenon DEF ReplicaGrows
<1>2. nexus' = nexus /\ members' = members /\ nb \in Nat
  BY SizeAssumption DEF ReplicaGrows
<1>3. dev \in [Children -> Geometry] /\ nexus \in Nexuses /\ DOMAIN members \subseteq Children
  BY DEF SizeInv, SizeTypes
<1>4. /\ dev' \in [Children -> Geometry]
      /\ \A d \in Children : dev'[d].bs = dev[d].bs /\ dev'[d].nb >= dev[d].nb
  BY <1>1, <1>2, <1>3 DEF Geometry
<1>5. SizeTypes'
  BY <1>2, <1>4 DEF SizeInv, SizeTypes
<1>6. MembersFit'
  <2> SUFFICES ASSUME nexus.open, NEW d \in DOMAIN members
               PROVE  /\ dev'[d].bs = nexus.bs
                      /\ nexus.start + nexus.blocks - 1 <= LastUsable(dev'[d].nb, dev'[d].bs)
    BY <1>2 DEF MembersFit
  <2>1. dev[d].bs = nexus.bs /\ nexus.start + nexus.blocks - 1 <= LastUsable(dev[d].nb, dev[d].bs)
    BY DEF SizeInv, MembersFit
  <2>2. d \in Children /\ dev[d].bs \in BlockSizes /\ dev[d].nb \in Nat /\ dev'[d].nb \in Nat
    BY <1>3, <1>4 DEF Geometry
  <2>3. LastUsable(dev[d].nb, dev[d].bs) \in Int /\ LastUsable(dev'[d].nb, dev[d].bs) \in Int
        /\ LastUsable(dev[d].nb, dev[d].bs) <= LastUsable(dev'[d].nb, dev[d].bs)
    BY <1>4, <2>2, UsableGrows
  <2>4. nexus.start \in Int /\ nexus.blocks \in Int
    BY <1>3 DEF Nexuses
  <2> QED BY <1>4, <2>1, <2>2, <2>3, <2>4
<1>7. ExactSize'
  BY <1>2 DEF SizeInv, ExactSize
<1> QED BY <1>5, <1>6, <1>7 DEF SizeInv

\* The nexus fits its members, and has the size asked for where that was exact,
\* whatever nexus_create, resize and the operations on children do.
THEOREM SizeInvariance == SizeSpec => []SizeInv
PROOF
<1>1. SizeInit => SizeInv
  <2> SUFFICES ASSUME SizeInit PROVE SizeInv
    OBVIOUS
  <2>1. dev \in [Children -> Geometry]
    <3>1. dev \in [Children -> [nb : Blocks, bs : BlockLens]]
      BY DEF SizeInit
    <3>2. \A c \in Children : dev[c] \in [nb : Blocks, bs : BlockLens]
      BY <3>1
    <3>3. \A c \in Children : dev[c].nb \in Blocks /\ dev[c].bs \in BlockLens
      BY <3>2
    <3>4. \A c \in Children : dev[c].nb \in Nat /\ dev[c].bs \in BlockSizes
      <4>1. BlockLens \subseteq BlockSizes /\ Blocks \subseteq Nat
        BY SizeAssumption DEF BlockSizes
      <4> QED BY <3>3, <4>1, Zenon
    <3>5. \A c \in Children : dev[c] = [nb |-> dev[c].nb, bs |-> dev[c].bs]
      BY <3>2
    <3>6. \A b \in Nat, l \in BlockSizes : [nb |-> b, bs |-> l] \in Geometry
      BY DEF Geometry
    <3>7. ASSUME NEW c \in Children PROVE dev[c] \in Geometry
      <4>1. [nb |-> dev[c].nb, bs |-> dev[c].bs] \in Geometry
        BY <3>4, <3>6, Zenon
      <4> QED BY <3>5, <4>1, Zenon
    <3> QED BY <3>1, <3>7
  <2>2. ~nexus.open /\ DOMAIN members = {}
    BY DEF SizeInit, NoNexus
  <2>3. nexus \in Nexuses
    BY NoNexusTyped DEF SizeInit
  <2> QED BY <2>1, <2>2, <2>3 DEF SizeInv, SizeTypes, MembersFit, ExactSize
<1>2. SizeInv /\ [SizeNext]_sizeVars => SizeInv'
  <2> SUFFICES ASSUME SizeInv, [SizeNext]_sizeVars PROVE SizeInv'
    OBVIOUS
  <2>1. ASSUME NEW v \in Versions, NEW exact \in BOOLEAN, NEW req \in ReqSizes, NEW C \in SUBSET Children,
               NexusCreate(v, exact, req, C)
        PROVE  SizeInv'
    BY <2>1, CreateKeepsSize
  <2>2. ASSUME NEW to \in ReqSizes, NEW used \in BOOLEAN, Resize(to, used) PROVE SizeInv'
    BY <2>2, ResizeKeepsSize
  <2>3. ASSUME NEW c \in Children, AddChild(c) PROVE SizeInv'
    BY <2>3, AddKeepsSize
  <2>4. ASSUME NEW c \in Children, ReplicaGrows(c) PROVE SizeInv'
    BY <2>4, GrowsKeepsSize
  <2>5. ASSUME dev' = dev, nexus' = nexus, DOMAIN members' \subseteq DOMAIN members PROVE SizeInv'
    BY <2>5 DEF SizeInv, SizeTypes, MembersFit, ExactSize
  <2>6. ASSUME NEW c \in Children, RemoveChild(c) \/ CloseChild(c) \/ OnlineChild(c) \/ RebuildDone(c)
        PROVE  SizeInv'
    <3>1. dev' = dev /\ nexus' = nexus /\ DOMAIN members' \subseteq DOMAIN members
      BY <2>6 DEF RemoveChild, CloseChild, OnlineChild, RebuildDone
    <3> QED BY <2>5, <3>1
  <2>7. CASE UNCHANGED sizeVars
    BY <2>5, <2>7 DEF sizeVars
  <2> QED BY <2>1, <2>2, <2>3, <2>4, <2>6, <2>7 DEF SizeNext
<1> QED BY <1>1, <1>2, PTL DEF SizeSpec

\* Its data ends within the usable blocks of every child with a device, and an
\* exact nexus has the requested size, for every geometry and every request.
THEOREM SizeIsSoundHolds == SizeSpec => []SizeIsSound
PROOF
<1>1. SizeInv => SizeIsSound
  BY DEF SizeInv, MembersFit, SizeIsSound, DataFits
<1> QED BY <1>1, SizeInvariance, PTL

-----------------------------------------------------------------------------
(* The rebuild job.  Its invariants are not inductive: whether a completed *)
(* job has copied everything depends on where each segment went that the   *)
(* range rebuilder has already yielded.  Inv adds that account (Accounted),*)
(* what the backend may be doing in each state of the job (Phases), and    *)
(* that a job with a pending Stopped or Failed can only end (Doomed).      *)

\* The job can no longer complete.
Doomed == pending \in {"Stopped", "Failed"} \/ current \in {"Stopped", "Failed"}

\* What the backend does in each state of the job, and which states may be
\* pending then.
Phases ==
    /\ bpc \in {"unscheduled", "scheduled"} => current = "Init"
    /\ bpc = "recv" => current \in {"Init", "Paused"}
    /\ bpc \in {"manage", "await_all"} => current = "Running"
    /\ bpc = "dropped" => current \in Done
    /\ bpc = "await_all" => pending \in {"Paused", "Stopped", "Failed"}
    /\ bpc = "dropped" => pending = None
    /\ pending # "Completed"
    /\ pending = "Failed" => current = "Running"
    /\ current # "Running" => \A t \in Ids : task[t] = "idle"

\* Clean segments are in sync, and so are those whose copy succeeded.
Copied ==
    /\ Segments \ dirty \subseteq synced
    /\ \A t \in Ids : task[t] = "ok" => seg[t] \in synced

\* Every segment yielded so far is in sync, is being copied, or has failed;
\* a failure not in seen or lost dooms the job.
Accounted ==
    /\ seen # {} => Doomed /\ current \notin {"Init", "Paused"}
    /\ \/ Doomed
       \/ \A s \in Segments : s < next =>
             \/ s \in synced
             \/ s \in lost
             \/ \E t \in Ids : seg[t] = s /\ task[t] \in {"copying", "err"}
    /\ current = "Completed" => next = N + 1

\* What the counters of stats() are computed from.
Counted ==
    /\ \A t \in Ids : task[t] # "idle" => seg[t] < next
    /\ \A s \in done : s < next
    /\ Partial => \A s \in done : s \notin dirty
    /\ Partial => \A t \in Ids : task[t] = "ok" => seg[t] \notin dirty

Inv == TypeOK /\ Phases /\ Copied /\ Accounted /\ Counted

-----------------------------------------------------------------------------
(* The head of the run loop establishes Inv, provided no task is active and
   every segment yielded so far is in sync or lost, or the job is doomed.  *)
LEMMA LoopHeadInv ==
    ASSUME TypeOK,
           NEW p \in {None, "Running", "Paused", "Stopped", "Failed"},
           NEW tk \in [Ids -> TaskStates],
           NEW w \in Nat, NEW r \in Nat,
           \A t \in Ids : tk[t] = "idle",
           p = None => current \in {"Init", "Paused", "Running"},
           LoopHead(p, tk, w, r),
           dirty' = dirty, synced' = synced, forced' \in SUBSET {"Stop", "Fail"},
           done' \in SUBSET Segments, seen' \in SUBSET Segments,
           lost' \in SUBSET Segments,
           Segments \ dirty \subseteq synced,
           \A s \in done' : s < next /\ (Partial => s \notin dirty),
           seen' # {} => p \in {"Stopped", "Failed"},
           \/ p \in {"Stopped", "Failed"}
           \/ \A s \in Segments : s < next => s \in synced \/ s \in lost'
    PROVE  Inv'
PROOF
<1> DEFINE new == IF p = None THEN current ELSE p
<1> USE NAssumption, TAssumption
<1>1. CASE /\ new \in Done
           /\ current' = new
           /\ pending' = None
           /\ task' = tk
           /\ UNCHANGED <<seg, next>>
           /\ Drop
  <2>1. current' \in {"Stopped", "Failed"}
    BY <1>1 DEF Done
  <2>2. TypeOK'
    BY <1>1, <2>1 DEF TypeOK, Drop, States, Done
  <2>3. Phases'
    BY <1>1, <2>1 DEF Phases, Drop, Done, None
  <2>4. Copied' /\ Accounted' /\ Counted'
    BY <1>1, <2>1 DEF Copied, Accounted, Counted, Doomed
  <2> QED BY <2>2, <2>3, <2>4 DEF Inv
<1>2. CASE /\ new \in {"Init", "Paused"}
           /\ current' = new
           /\ pending' = None
           /\ task' = tk
           /\ bpc' = "recv"
           /\ wakeups' = w
           /\ requests' = r
           /\ UNCHANGED <<seg, next, listeners>>
  <2>1. TypeOK'
    BY <1>2 DEF TypeOK, States, Done
  <2>2. Phases'
    BY <1>2 DEF Phases, Done, None
  <2>3. p \notin {"Stopped", "Failed"}
    BY <1>2 DEF None
  <2>4. Copied' /\ Accounted' /\ Counted'
    BY <1>2, <2>3 DEF Copied, Accounted, Counted, Doomed, None
  <2> QED BY <2>1, <2>2, <2>4 DEF Inv
<1>3. CASE /\ new = "Running"
           /\ next <= N
           /\ current' = new
           /\ pending' = None
           /\ StartAllTasks
           /\ bpc' = "manage"
           /\ wakeups' = w
           /\ requests' = r
           /\ UNCHANGED listeners
  <2>1. p \notin {"Stopped", "Failed"}
    BY <1>3 DEF None
  <2>2. next \in 1..N
    BY <1>3 DEF TypeOK
  <2>3. /\ next' \in 1..(N + 1)
        /\ next < next'
        /\ \A s \in Segments : s < next' /\ ~(s < next) => s - next + 1 \in Ids
    BY <1>3, <2>2 DEF StartAllTasks, Ids, Segments
  <2>4. \A t \in Ids : /\ task'[t] \in {"copying", "idle"}
                       /\ seg'[t] \in Segments
                       /\ task'[t] = "copying" <=> next + t - 1 <= N
                       /\ task'[t] = "copying" => seg'[t] = next + t - 1
                       /\ task'[t] # "idle" => seg'[t] < next'
    BY <1>3, <2>2 DEF StartAllTasks, TypeOK, Ids, Segments
  <2>5. TypeOK'
    <3>1. task' \in [Ids -> TaskStates] /\ seg' \in [Ids -> Segments]
      BY <1>3, <2>4 DEF StartAllTasks, TaskStates
    <3> QED BY <1>3, <2>3, <3>1 DEF TypeOK, States
  <2>6. Phases'
    BY <1>3 DEF Phases, Done, None
  <2>7. Copied'
    BY <2>4 DEF Copied
  <2>8. ASSUME NEW s \in Segments, s < next'
        PROVE  \/ s \in synced'
               \/ s \in lost'
               \/ \E t \in Ids : seg'[t] = s /\ task'[t] \in {"copying", "err"}
    <3>1. CASE s < next
      BY <2>1, <3>1
    <3>2. CASE ~(s < next)
      <4>1. s - next + 1 \in Ids
        BY <2>3, <2>8, <3>2
      <4>2. next + (s - next + 1) - 1 = s /\ s <= N
        BY <2>2 DEF Segments
      <4> QED BY <2>4, <4>1, <4>2
    <3> QED BY <3>1, <3>2
  <2>9. Accounted'
    BY <1>3, <2>1, <2>8 DEF Accounted
  <2>10. Counted'
    BY <2>2, <2>3, <2>4 DEF Counted, Segments
  <2> QED BY <2>5, <2>6, <2>7, <2>9, <2>10 DEF Inv
<1>4. CASE /\ new = "Running"
           /\ next > N
           /\ Complete(tk)
  <2>1. p \notin {"Stopped", "Failed"}
    BY <1>4 DEF None
  <2>2. next = N + 1
    BY <1>4 DEF TypeOK
  <2>3. TypeOK'
    BY <1>4 DEF TypeOK, Complete, Drop, States, Done
  <2>4. Phases'
    BY <1>4 DEF Phases, Complete, Drop, Done, None
  <2>5. Copied' /\ Accounted' /\ Counted'
    BY <1>4, <2>1, <2>2 DEF Copied, Accounted, Counted, Doomed, Complete
  <2> QED BY <2>3, <2>4, <2>5 DEF Inv
<1> QED BY <1>1, <1>2, <1>3, <1>4 DEF LoopHead

-----------------------------------------------------------------------------
(* What any operation may do to the pending state: it never clears a pending
   Stopped or Failed, nor anything await_all_tasks is waiting for.         *)
LEMMA ExecOpResult ==
    ASSUME TypeOK, Phases,
           NEW op \in {"Start", "Stop", "Pause", "Resume", "Fail"},
           NEW override \in BOOLEAN,
           NEW r, r = ExecOp(op, override)
    PROVE  /\ r.pending \in {None, "Running", "Paused", "Stopped", "Failed"}
           /\ pending \in {"Stopped", "Failed"} => r.pending \in {"Stopped", "Failed"}
           /\ bpc = "await_all" => r.pending \in {"Paused", "Stopped", "Failed"}
           /\ r.pending = "Failed" => current = "Running"
PROOF
<1>1. /\ pending \in {None, "Running", "Paused", "Stopped", "Failed"}
      /\ pending = "Failed" => current = "Running"
      /\ current \in States
      /\ bpc = "await_all" => current = "Running"
      /\ bpc = "await_all" => pending \in {"Paused", "Stopped", "Failed"}
  BY DEF TypeOK, Phases, States, Done
<1>2. CASE op = "Start"
  BY <1>1, <1>2 DEF ExecOp, Target, AcceptedIn, ReachedIn, WakesIn,
                     SetPending, Refused, Unchanged, States, Done, None
<1>3. CASE op = "Stop"
  BY <1>1, <1>3 DEF ExecOp, Target, AcceptedIn, ReachedIn, WakesIn,
                     SetPending, Refused, Unchanged, States, Done, None
<1>4. CASE op = "Pause"
  BY <1>1, <1>4 DEF ExecOp, Target, AcceptedIn, ReachedIn, WakesIn,
                     SetPending, Refused, Unchanged, States, Done, None
<1>5. CASE op = "Resume"
  BY <1>1, <1>5 DEF ExecOp, Target, AcceptedIn, ReachedIn, WakesIn,
                     SetPending, Refused, Unchanged, States, Done, None
<1>6. CASE op = "Fail"
  BY <1>1, <1>6 DEF ExecOp, Target, AcceptedIn, ReachedIn, WakesIn,
                     SetPending, Refused, Unchanged, States, Done, None
<1> QED BY <1>2, <1>3, <1>4, <1>5, <1>6

(* A step of the frontend changes the pending state by an operation, if at
   all, and preserves Inv.                                                 *)
LEMMA FrontendInv ==
    ASSUME Inv, bpc # "dropped",
           NEW p \in {None, "Running", "Paused", "Stopped", "Failed"},
           pending \in {"Stopped", "Failed"} => p \in {"Stopped", "Failed"},
           bpc = "await_all" => p \in {"Paused", "Stopped", "Failed"},
           p = "Failed" => current = "Running",
           pending' = p,
           wakeups' \in Nat, requests' \in Nat, listeners' \in Nat,
           forced' \in SUBSET {"Stop", "Fail"},
           bpc' = bpc \/ (bpc = "unscheduled" /\ bpc' = "scheduled"),
           UNCHANGED <<current, pool, synced, seen, lost>>
    PROVE  Inv'
PROOF
<1>1. TypeOK'
  BY DEF Inv, TypeOK, pool, States, Done
<1>2. Phases'
  BY DEF Inv, Phases, pool, None
<1>3. Copied' /\ Counted'
  BY DEF Inv, Copied, Counted, pool
<1>4. current # "Running" => current \notin {"Failed", "Stopped", "Completed"}
  BY DEF Inv, Phases, TypeOK
<1>5. Accounted'
  BY <1>4 DEF Inv, Accounted, Doomed, pool
<1> QED BY <1>1, <1>2, <1>3, <1>5 DEF Inv

-----------------------------------------------------------------------------
(* Waiting for the remaining tasks preserves Inv: the result of task t has
   been taken, in state tk the task is idle, and pc and p are where the
   backend waits and what is pending then.                                 *)
LEMMA AwaitOthersInv ==
    ASSUME Inv, bpc \in {"manage", "await_all"},
           NEW t \in Ids, task[t] \in {"ok", "err"},
           NEW p \in {"Paused", "Stopped", "Failed"},
           AwaitOneTask(t),
           AwaitOthers("await_all", p, [task EXCEPT ![t] = "idle"]),
           dirty' = dirty, synced' = synced, forced' = forced,
           seen' \in SUBSET Segments, lost' \in SUBSET Segments,
           lost \subseteq lost',
           seen' # {} => p \in {"Stopped", "Failed"},
           pending \in {"Stopped", "Failed"} => p \in {"Stopped", "Failed"},
           \/ task[t] = "ok"
           \/ seg[t] \in lost'
           \/ p \in {"Stopped", "Failed"}
    PROVE  Inv'
PROOF
<1> DEFINE tk == [task EXCEPT ![t] = "idle"]
<1>1. /\ current = "Running"
      /\ seg[t] \in Segments
      /\ seg[t] < next
      /\ tk \in [Ids -> TaskStates]
      /\ \A u \in Ids : u # t => tk[u] = task[u]
      /\ tk[t] = "idle"
  BY DEF Inv, Phases, TypeOK, Counted, TaskStates
<1>2. /\ done' \in SUBSET Segments
      /\ \A s \in done' : s < next /\ (Partial => s \notin dirty)
  BY <1>1 DEF Inv, TypeOK, Counted, AwaitOneTask
<1>3. \/ p \in {"Stopped", "Failed"}
      \/ \A s \in Segments : s < next =>
            \/ s \in synced
            \/ s \in lost'
            \/ \E u \in Ids : seg[u] = s /\ tk[u] \in {"copying", "err"}
  <2> SUFFICES ASSUME p \notin {"Stopped", "Failed"},
                      NEW s \in Segments, s < next
               PROVE  \/ s \in synced
                      \/ s \in lost'
                      \/ \E u \in Ids : seg[u] = s /\ tk[u] \in {"copying", "err"}
    OBVIOUS
  <2>1. ~Doomed
    BY <1>1 DEF Doomed
  <2>2. \/ s \in synced
        \/ s \in lost
        \/ \E u \in Ids : seg[u] = s /\ task[u] \in {"copying", "err"}
    BY <2>1 DEF Inv, Accounted
  <2>3. seg[t] \in synced \/ seg[t] \in lost'
    BY DEF Inv, Copied
  <2> QED BY <1>1, <2>2, <2>3
<1>4. CASE /\ Active(tk) # {}
           /\ bpc' = "await_all"
           /\ pending' = p
           /\ task' = tk
           /\ UNCHANGED <<current, seg, next, chans>>
  <2>1. TypeOK'
    BY <1>1, <1>2, <1>4 DEF Inv, TypeOK, chans, States, Done
  <2>2. Phases'
    BY <1>1, <1>4 DEF Phases, None
  <2>3. Copied'
    BY <1>1, <1>4 DEF Inv, Copied
  <2>4. Counted'
    BY <1>1, <1>2, <1>4 DEF Inv, Counted
  <2>5. Accounted'
    BY <1>1, <1>3, <1>4 DEF Accounted, Doomed
  <2> QED BY <2>1, <2>2, <2>3, <2>4, <2>5 DEF Inv
<1>5. CASE /\ Active(tk) = {}
           /\ LoopHead(p, tk, wakeups, requests)
  <2>1. \A u \in Ids : tk[u] = "idle"
    BY <1>5 DEF Active
  <2>2. \/ p \in {"Stopped", "Failed"}
        \/ \A s \in Segments : s < next => s \in synced \/ s \in lost'
    BY <1>3, <2>1
  <2>3. /\ TypeOK
        /\ wakeups \in Nat
        /\ requests \in Nat
        /\ Segments \ dirty \subseteq synced
        /\ forced' \in SUBSET {"Stop", "Fail"}
    BY DEF Inv, TypeOK, Copied
  <2>4. p \in {None, "Running", "Paused", "Stopped", "Failed"}
    OBVIOUS
  <2>5. p # None
    BY DEF None
  <2>6. tk \in [Ids -> TaskStates]
    BY <1>1
  <2> HIDE DEF tk
  <2> QED BY <1>2, <1>5, <2>1, <2>2, <2>3, <2>4, <2>5, <2>6, LoopHeadInv, Zenon
<1> QED BY <1>4, <1>5, Zenon DEF AwaitOthers

-----------------------------------------------------------------------------
(* A job created by new() or by the nexus starts in a state of Inv.         *)
THEOREM InitInv == Init => Inv
PROOF
<1> SUFFICES ASSUME Init PROVE Inv
  OBVIOUS
<1> USE NAssumption, TAssumption DEF Init
<1>1. TypeOK
  BY DEF TypeOK, States, Done, TaskStates, Segments, None
<1>2. Phases
  BY DEF Phases, None
<1>3. Copied /\ Accounted /\ Counted
  BY DEF Copied, Accounted, Counted, Segments
<1> QED BY <1>1, <1>2, <1>3 DEF Inv

-----------------------------------------------------------------------------
(* Inv is preserved by every step, one lemma per group of actions.         *)

(* run() at its first poll, or woken up while it waits in recv(), keeps Inv. *)
LEMMA WaitingInv ==
    ASSUME Inv, FirstPoll \/ ReceiveMessage
    PROVE  Inv'
PROOF
<1>1. /\ TypeOK
      /\ current \in {"Init", "Paused", "Running"}
      /\ bpc \in {"scheduled", "recv"}
      /\ \A t \in Ids : task[t] = "idle"
      /\ Segments \ dirty \subseteq synced
      /\ task \in [Ids -> TaskStates]
  BY DEF Inv, Phases, FirstPoll, ReceiveMessage, Copied, TypeOK
<1>2. pending \in {None, "Running", "Paused", "Stopped", "Failed"}
  BY DEF Inv, Phases, TypeOK, States, Done
<1>3. /\ dirty' = dirty /\ synced' = synced
      /\ forced' \in SUBSET {"Stop", "Fail"}
      /\ done' \in SUBSET Segments
      /\ seen' \in SUBSET Segments
      /\ lost' \in SUBSET Segments
      /\ done' = done /\ seen' = seen /\ lost' = lost
  BY Zenon DEF Inv, TypeOK, FirstPoll, ReceiveMessage, history
<1>4. \A s \in done' : s < next /\ (Partial => s \notin dirty)
  BY <1>3 DEF Inv, Counted
<1>5. /\ current \in {"Init", "Paused"}
      /\ seen' = {}
  BY <1>1, <1>3 DEF Inv, Phases, Accounted
<1>6. \/ pending \in {"Stopped", "Failed"}
      \/ \A s \in Segments : s < next => s \in synced \/ s \in lost'
  BY <1>1, <1>3, <1>5 DEF Inv, Accounted, Doomed
<1>7. PICK w \in Nat, r \in Nat : LoopHead(pending, task, w, r)
  <2>1. CASE FirstPoll
    BY <2>1 DEF FirstPoll, Inv, TypeOK
  <2>2. CASE ReceiveMessage
    <3>1. /\ wakeups > 0 => wakeups - 1 \in Nat
          /\ requests > 0 => requests - 1 \in Nat
          /\ wakeups \in Nat /\ requests \in Nat
      BY DEF Inv, TypeOK
    <3> QED BY <2>2, <3>1, Zenon DEF ReceiveMessage
  <2> QED BY <2>1, <2>2
<1> QED BY <1>1, <1>2, <1>3, <1>4, <1>5, <1>6, <1>7, LoopHeadInv, Zenon

(* select! dropping the manage_tasks future keeps Inv.                     *)
LEMMA InterruptTasksInv ==
    ASSUME Inv, InterruptTasks
    PROVE  Inv'
PROOF
<1>1. TypeOK'
  BY DEF Inv, TypeOK, InterruptTasks, states, pool, history
<1>2. Phases'
  BY DEF Inv, Phases, InterruptTasks, states, pool, history
<1>3. Copied' /\ Accounted' /\ Counted'
  BY DEF Inv, Copied, Accounted, Counted, Doomed, InterruptTasks, states, pool, history
<1> QED BY <1>1, <1>2, <1>3 DEF Inv

(* A copy task that ends, with success or not, keeps Inv.                  *)
LEMMA CopySegmentInv ==
    ASSUME Inv, NEW t \in Ids, CopySegment(t)
    PROVE  Inv'
PROOF
<1> USE DEF CopySegment, Copy, states, chans, history
<1>1. /\ seg[t] \in Segments
      /\ seg' = seg /\ next' = next
      /\ task[t] = "copying"
      /\ task' \in [Ids -> TaskStates]
      /\ \A u \in Ids : u # t => task'[u] = task[u]
      /\ task'[t] \in {"ok", "err"}
      /\ synced \subseteq synced' /\ synced' \in SUBSET Segments
      /\ dirty' \subseteq dirty
      /\ task'[t] = "ok" => seg[t] \in synced' /\ (Partial => seg[t] \notin dirty')
  BY DEF Inv, TypeOK, TaskStates, Copied
<1>2. TypeOK'
  BY <1>1 DEF Inv, TypeOK
<1>3. Phases'
  BY <1>1 DEF Inv, Phases
<1>4. Copied'
  BY <1>1 DEF Inv, Copied
<1>5. Counted'
  BY <1>1 DEF Inv, Counted
<1>6. Accounted'
  <2>1. ASSUME NEW s \in Segments, s < next', ~Doomed
        PROVE  \/ s \in synced'
               \/ s \in lost'
               \/ \E u \in Ids : seg'[u] = s /\ task'[u] \in {"copying", "err"}
    <3>1. \/ s \in synced
          \/ s \in lost
          \/ \E u \in Ids : seg[u] = s /\ task[u] \in {"copying", "err"}
      BY <1>1, <2>1 DEF Inv, Accounted
    <3> QED BY <1>1, <3>1
  <2>2. Doomed <=> Doomed'
    BY DEF Doomed
  <2> QED BY <1>1, <2>1, <2>2 DEF Inv, Accounted
<1> QED BY <1>2, <1>3, <1>4, <1>5, <1>6 DEF Inv

(* manage_tasks after a copied segment keeps Inv: the task goes on with the
   next segment, waits for the others, or completes the job.               *)
LEMMA ManageSuccessInv ==
    ASSUME Inv, NEW t \in Ids, bpc = "manage", AwaitOneTask(t), ManageSuccess(t),
           UNCHANGED <<dirty, synced, lost, forced>>
    PROVE  Inv'
PROOF
<1> USE NAssumption, TAssumption
<1>1. /\ current = "Running"
      /\ ~Doomed
      /\ seg[t] \in synced
      /\ seg[t] \in Segments
      /\ seg[t] < next
      /\ next \in 1..(N + 1)
      /\ seen' = seen /\ seen = {}
      /\ task[t] = "ok"
  BY DEF Inv, Phases, Doomed, ManageSuccess, None, Copied, TypeOK, Counted, Accounted
<1>2. /\ done' \in SUBSET Segments
      /\ \A s \in done' : s < next /\ (Partial => s \notin dirty)
  BY <1>1 DEF Inv, TypeOK, Counted, AwaitOneTask
<1>3. \A s \in Segments : s < next =>
            \/ s \in synced
            \/ s \in lost
            \/ \E u \in Ids : u # t /\ seg[u] = s /\ task[u] \in {"copying", "err"}
  BY <1>1 DEF Inv, Accounted
<1>4. CASE /\ next <= N
           /\ task' = [task EXCEPT ![t] = "copying"]
           /\ seg' = [seg EXCEPT ![t] = next]
           /\ next' = next + 1
           /\ UNCHANGED <<states, bpc, chans>>
  <2> USE DEF states, chans
  <2>1. /\ \A u \in Ids : u # t => task'[u] = task[u] /\ seg'[u] = seg[u]
        /\ task'[t] = "copying" /\ seg'[t] = next
        /\ next \in Segments /\ next' \in 1..(N + 1)
        /\ task' \in [Ids -> TaskStates] /\ seg' \in [Ids -> Segments]
    BY <1>1, <1>4 DEF Inv, TypeOK, TaskStates, Segments
  <2>2. TypeOK'
    BY <1>1, <1>2, <1>4, <2>1 DEF Inv, TypeOK
  <2>3. Phases' /\ Copied'
    BY <1>1, <1>4, <2>1 DEF Inv, Phases, Copied
  <2>4. Counted'
    BY <1>1, <1>2, <1>4, <2>1 DEF Inv, TypeOK, Counted, Segments
  <2>5. ASSUME NEW s \in Segments, s < next'
        PROVE  \/ s \in synced'
               \/ s \in lost'
               \/ \E u \in Ids : seg'[u] = s /\ task'[u] \in {"copying", "err"}
    <3>1. s < next \/ s = next
      BY <1>1, <1>4, <2>5 DEF Segments
    <3> QED BY <1>3, <2>1, <3>1
  <2>6. Accounted'
    BY <1>1, <1>4, <2>5 DEF Accounted
  <2> QED BY <2>2, <2>3, <2>4, <2>6 DEF Inv
<1>5. CASE /\ next > N
           /\ Active(task) # {t}
           /\ task' = [task EXCEPT ![t] = "idle"]
           /\ UNCHANGED <<states, bpc, seg, next, chans>>
  <2> USE DEF states, chans
  <2>1. /\ \A u \in Ids : u # t => task'[u] = task[u]
        /\ task'[t] = "idle"
        /\ task' \in [Ids -> TaskStates]
    BY <1>5 DEF Inv, TypeOK, TaskStates
  <2>2. TypeOK'
    BY <1>1, <1>2, <1>5, <2>1 DEF Inv, TypeOK
  <2>3. Phases' /\ Copied'
    BY <1>1, <1>5, <2>1 DEF Inv, Phases, Copied
  <2>4. Counted'
    BY <1>1, <1>2, <1>5, <2>1 DEF Inv, Counted
  <2>5. Accounted'
    BY <1>1, <1>3, <1>5, <2>1 DEF Accounted
  <2> QED BY <2>2, <2>3, <2>4, <2>5 DEF Inv
<1>6. CASE /\ next > N
           /\ Active(task) = {t}
           /\ Complete([task EXCEPT ![t] = "idle"])
  <2> USE DEF Complete, Drop
  <2>1. /\ next' = N + 1 /\ next = N + 1
        /\ task' \in [Ids -> TaskStates]
        /\ \A u \in Ids : task'[u] = "idle"
    <3>1. \A u \in Ids : u # t => task[u] = "idle"
      BY <1>6 DEF Active
    <3> QED BY <1>1, <1>6, <3>1 DEF Inv, TypeOK, TaskStates
  <2>2. TypeOK'
    BY <1>1, <1>2, <1>6, <2>1 DEF Inv, TypeOK, States, Done
  <2>3. Phases' /\ Copied'
    BY <1>1, <1>6, <2>1 DEF Inv, Phases, Copied, None, Done
  <2>4. Counted'
    BY <1>1, <1>2, <1>6, <2>1 DEF Inv, Counted
  <2>5. \A u \in Ids : u # t => task[u] = "idle"
    BY <1>6 DEF Active
  <2>6. Accounted'
    BY <1>1, <1>3, <1>6, <2>1, <2>5 DEF Accounted
  <2> QED BY <2>2, <2>3, <2>4, <2>6 DEF Inv
<1> QED BY <1>4, <1>5, <1>6 DEF ManageSuccess

(* A task result taken by manage_tasks or by await_all_tasks keeps Inv.    *)
LEMMA TakeResultInv ==
    ASSUME Inv, NEW t \in Ids, TakeResult(t)
    PROVE  Inv'
PROOF
<1>1. /\ current = "Running"
      /\ pending \in {None, "Running", "Paused", "Stopped", "Failed"}
      /\ seg[t] \in Segments
      /\ seen \in SUBSET Segments /\ lost \in SUBSET Segments
      /\ seen # {} => pending \in {"Stopped", "Failed"}
  BY DEF Inv, Phases, TypeOK, Accounted, Doomed, TakeResult, ManageTasks,
         AwaitAllTasks, States, Done
<1>2. CASE ManageTasks(t)
  <2>1. /\ bpc = "manage"
        /\ AwaitOneTask(t)
        /\ dirty' = dirty /\ synced' = synced /\ forced' = forced /\ lost' = lost
    BY <1>2 DEF ManageTasks
  <2>2. CASE ManageSuccess(t)
    BY <2>1, <2>2, ManageSuccessInv
  <2>3. CASE ManageError(t)
    <3>1. /\ task[t] \in {"ok", "err"}
          /\ seen' \in SUBSET Segments
          /\ AwaitOthers("await_all", "Failed", [task EXCEPT ![t] = "idle"])
      BY <1>1, <2>3 DEF ManageError
    <3> QED BY <1>1, <2>1, <3>1, AwaitOthersInv, Zenon
  <2>4. CASE ManageQuiesce(t)
    <3>1. /\ task[t] = "ok"
          /\ seen' = seen
          /\ pending \in {"Paused", "Stopped", "Failed"}
          /\ AwaitOthers("await_all", pending, [task EXCEPT ![t] = "idle"])
      BY <1>1, <2>4 DEF ManageQuiesce
    <3>2. task[t] \in {"ok", "err"}
      BY <3>1
    <3> QED BY <1>1, <2>1, <3>1, <3>2, AwaitOthersInv, Zenon
  <2> QED BY <1>2, <2>2, <2>3, <2>4 DEF ManageTasks
<1>3. CASE AwaitAllTasks(t)
  <2>1. /\ bpc = "await_all"
        /\ AwaitOneTask(t)
        /\ dirty' = dirty /\ synced' = synced /\ forced' = forced /\ seen' = seen
        /\ task[t] \in {"ok", "err"}
        /\ AwaitOthers("await_all", pending, [task EXCEPT ![t] = "idle"])
    BY <1>3 DEF AwaitAllTasks
  <2>2. pending \in {"Paused", "Stopped", "Failed"}
    BY <2>1 DEF Inv, Phases
  <2>3. /\ lost' \in SUBSET Segments
        /\ lost \subseteq lost'
        /\ task[t] = "ok" \/ seg[t] \in lost' \/ pending \in {"Stopped", "Failed"}
    BY <1>1, <1>3, <2>1, <2>2 DEF AwaitAllTasks
  <2> QED BY <1>1, <2>1, <2>2, <2>3, AwaitOthersInv, Zenon
<1> QED BY <1>2, <1>3 DEF TakeResult

(* Every operation of the frontend keeps Inv.                              *)
LEMMA FrontendStepInv ==
    ASSUME Inv, Frontend
    PROVE  Inv'
PROOF
<1>1. /\ bpc # "dropped"
      /\ bpc' = bpc \/ (bpc = "unscheduled" /\ bpc' = "scheduled")
      /\ UNCHANGED <<current, pool, synced, seen, lost>>
  BY Zenon DEF Frontend, Schedule, ClientStart, StarterStart, ClientOp, ForceTerminate,
         GetStats, StartOp, Visible, states, history
<1>2. wakeups' \in Nat /\ requests' \in Nat /\ listeners' \in Nat
  <2>1. \A op, override : Execute(op, override) =>
            wakeups' = wakeups \/ wakeups' = wakeups + 1
    BY Zenon DEF Execute
  <2>2. StartOp => /\ \/ listeners' = listeners
                      \/ listeners' = listeners + 1
                   /\ requests' = requests
    BY Zenon DEF StartOp
  <2>3. StartOp => wakeups' = wakeups \/ wakeups' = wakeups + 1
    BY <2>1, Zenon DEF StartOp
  <2>4. wakeups \in Nat /\ requests \in Nat /\ listeners \in Nat
    BY DEF Inv, TypeOK
  <2>5. CASE StartOp
    BY <2>2, <2>3, <2>4, <2>5
  <2>6. ASSUME NEW op \in {"Stop", "Pause", "Resume"}, ClientOp(op)
        PROVE  wakeups' \in Nat /\ requests' \in Nat /\ listeners' \in Nat
    <3>1. wakeups' = wakeups \/ wakeups' = wakeups + 1
      BY <2>1, <2>6, Zenon DEF ClientOp
    <3>2. requests' = requests /\ listeners' = listeners
      BY <2>6, Zenon DEF ClientOp
    <3> QED BY <2>4, <3>1, <3>2
  <2>7. ASSUME NEW op \in {"Stop", "Fail"}, ForceTerminate(op)
        PROVE  wakeups' \in Nat /\ requests' \in Nat /\ listeners' \in Nat
    <3>1. wakeups' = wakeups \/ wakeups' = wakeups + 1
      BY <2>1, <2>7, Zenon DEF ForceTerminate
    <3>2. requests' = requests /\ listeners' = listeners + 1
      BY <2>7, Zenon DEF ForceTerminate
    <3> QED BY <2>4, <3>1, <3>2
  <2>8. CASE Schedule \/ GetStats
    BY <2>4, <2>8 DEF Schedule, GetStats, chans
  <2> QED BY <2>5, <2>6, <2>7, <2>8, Zenon DEF Frontend, ClientStart, StarterStart
<1>3. \/ pending' = pending
      \/ \E op \in {"Start", "Stop", "Pause", "Resume", "Fail"}, override \in BOOLEAN :
            pending' = ExecOp(op, override).pending
  BY Zenon DEF Frontend, Schedule, ClientStart, StarterStart, ClientOp,
         ForceTerminate, GetStats, StartOp, Execute, states
<1>4. forced' \in SUBSET {"Stop", "Fail"}
  <2>1. forced \in SUBSET {"Stop", "Fail"}
    BY DEF Inv, TypeOK
  <2> QED BY <2>1, Zenon DEF Frontend, Schedule, ClientStart, StarterStart, ClientOp,
             ForceTerminate, GetStats, StartOp, history
<1>5. /\ pending' \in {None, "Running", "Paused", "Stopped", "Failed"}
      /\ pending \in {"Stopped", "Failed"} => pending' \in {"Stopped", "Failed"}
      /\ bpc = "await_all" => pending' \in {"Paused", "Stopped", "Failed"}
      /\ pending' = "Failed" => current = "Running"
  <2>1. CASE pending' = pending
    BY <2>1 DEF Inv, TypeOK, Phases, States, Done
  <2>2. CASE \E op \in {"Start", "Stop", "Pause", "Resume", "Fail"}, override \in BOOLEAN :
                pending' = ExecOp(op, override).pending
    <3>1. PICK op \in {"Start", "Stop", "Pause", "Resume", "Fail"}, override \in BOOLEAN :
              pending' = ExecOp(op, override).pending
      BY <2>2
    <3>2. TypeOK /\ Phases
      BY DEF Inv
    <3> QED BY <3>1, <3>2, ExecOpResult
  <2> QED BY <1>3, <2>1, <2>2
<1> QED BY <1>1, <1>2, <1>4, <1>5, FrontendInv, Zenon

(* Inv is inductive: every step of the job keeps it.                       *)
LEMMA NextInv == Inv /\ [Next]_vars => Inv'
PROOF
<1> SUFFICES ASSUME Inv, [Next]_vars PROVE Inv'
  OBVIOUS
<1>1. CASE Backend
  BY <1>1, WaitingInv, InterruptTasksInv, TakeResultInv DEF Backend
<1>2. CASE Frontend
  BY <1>2, FrontendStepInv
<1>3. CASE \E t \in Ids : CopySegment(t)
  BY <1>3, CopySegmentInv
<1>4. CASE UNCHANGED vars
  <2> USE DEF vars
  <2>1. TypeOK'
    BY <1>4, ZenonT(30) DEF Inv, TypeOK
  <2>2. Phases'
    BY <1>4, ZenonT(30) DEF Inv, Phases
  <2>3. Copied' /\ Accounted' /\ Counted'
    BY <1>4, Zenon DEF Inv, Copied, Accounted, Counted, Doomed
  <2> QED BY <2>1, <2>2, <2>3 DEF Inv
<1> QED BY <1>1, <1>2, <1>3, <1>4 DEF Next

(* Inv holds in every state of every behaviour of a rebuild job.           *)
THEOREM Invariance == Spec => []Inv
PROOF
BY InitInv, NextInv, PTL DEF Spec

-----------------------------------------------------------------------------
(* The theorems, for every number of segments and tasks, both kinds of job
   and both kinds of rebuild.                                              *)

(* The states, tasks, map and channels of a job keep their types.          *)
THEOREM TypeCorrect == Spec => []TypeOK
PROOF
<1>1. Inv => TypeOK
  BY DEF Inv
<1> QED BY <1>1, Invariance, PTL

(* complete() is only reached with every segment copied or found clean, but
   for those whose error await_all_tasks dropped on the way to a pause.    *)
THEOREM CompletedIsSyncedHolds == Spec => []CompletedIsSynced
PROOF
<1>1. Inv => CompletedIsSynced
  <2> SUFFICES ASSUME Inv, current = "Completed", NEW s \in Segments, s \notin lost
               PROVE  s \in synced
    BY DEF CompletedIsSynced
  <2>1. next = N + 1 /\ s < next
    BY NAssumption DEF Inv, Accounted, Segments
  <2>2. ~Doomed
    BY DEF Inv, Doomed, Phases, TypeOK, None
  <2>3. \A t \in Ids : task[t] = "idle"
    BY DEF Inv, Phases
  <2> QED BY <2>1, <2>2, <2>3 DEF Inv, Accounted
<1> QED BY <1>1, Invariance, PTL

(* A segment error seen by manage_tasks is never undone by the operations of
   clients: fail() overrides what is pending, and nothing but a force_stop
   overrides it. And whatever the operations and the interruptions of
   manage_tasks, no copy task is active in a job that is not Running.      *)
THEOREM JobIsSoundHolds == Spec => []JobIsSound
PROOF
<1>1. Inv => ErrorIsFinal
  BY Zenon DEF Inv, ErrorIsFinal, Accounted, Doomed, Phases, TypeOK, States, Done, None
<1>2. Inv => QuiescentUnlessRunning
  BY DEF Inv, QuiescentUnlessRunning, Phases, Active
<1> QED BY <1>1, <1>2, Invariance, PTL DEF JobIsSound

(* The assertion in stats() never fails.                                   *)
THEOREM StatsConsistentHolds == Spec => []StatsConsistent
PROOF
<1>1. Inv => StatsConsistent
  <2> SUFFICES ASSUME Inv, done = Segments
               PROVE  IF Partial THEN dirty = {} ELSE next = N + 1
    BY DEF StatsConsistent
  <2>1. CASE Partial
    BY <2>1 DEF Inv, Counted, TypeOK
  <2>2. CASE ~Partial
    <3>1. N \in Segments
      BY NAssumption DEF Segments
    <3> QED BY <2>2, <3>1, NAssumption DEF Inv, Counted, TypeOK
  <2> QED BY <2>1, <2>2
<1> QED BY <1>1, Invariance, PTL
=============================================================================
