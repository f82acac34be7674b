------------------------------ MODULE GptLabel ------------------------------
(***************************************************************************)
(* Where the data of a nexus lies on its children.                         *)
(*                                                                         *)
(* The layouts: where the label versions (core/gpt/maya.rs) place the data *)
(* partition of a child device.  The arithmetic is in blocks and keeps the *)
(* real sizes.                                                             *)
(*                                                                         *)
(* The label (core/gpt/primitives.rs, label.rs) and the gpt tool           *)
(* (bin/gpt.rs) that writes one and reads it back.  A checksum is modelled *)
(* by what it covers: a header is intact or it is not, and table_crc is    *)
(* the partition table it was computed from.  The disk is the content of   *)
(* the blocks where the parts of a label start.                            *)
(*                                                                         *)
(* The size of a nexus (nexus_bdev.rs): it is computed from the geometry   *)
(* of the children when the nexus is registered and when it is resized,    *)
(* while replicas grow and children are added, taken offline and brought   *)
(* back.                                                                   *)
(***************************************************************************)
EXTENDS Integers, FiniteSets

MiB == 1024 * 1024
PARTITION_TABLE_SIZE == 128 * 128
HEADER_SIZE == 92
DATA_OFFSET == MiB
METADATA_RESERVATION_OFFSET == MiB

NoExtent == [start |-> 0, end |-> 0]
Versions == {"V1", "V2"}

Min2(a, b) == IF a < b THEN a ELSE b

GetBlocks(size, bs) == (size \div bs) + IF size % bs = 0 THEN 0 ELSE 1

align_down(value, align) == value - (value % align)

align_up(value, align) == IF value % align = 0 THEN value ELSE value + (align - (value % align))

LayoutV1 == [meta |-> 4 * MiB, align |-> 0, void |-> 0]

LayoutV2 == [meta |-> 3 * MiB, align |-> MiB, void |-> 4 * MiB]

Layout(v) == IF v = "V1" THEN LayoutV1 ELSE LayoutV2

LastUsable(nb, bs) == nb - GetBlocks(PARTITION_TABLE_SIZE, bs) - GetBlocks(HEADER_SIZE, bs) - 1

\* Where the data starts, what is left free behind it, and where it must end.
DataStart(v, bs) == GetBlocks(METADATA_RESERVATION_OFFSET, bs) + GetBlocks(Layout(v).meta, bs)

Trailing(v, bs) == GetBlocks(Layout(v).void, bs)

UsableEnd(v, nb, bs) ==
  IF Trailing(v, bs) > 0 THEN nb - Trailing(v, bs) - 1 ELSE LastUsable(nb, bs)

DataBlocks(v, req, nb, bs) ==
  LET most == UsableEnd(v, nb, bs) - DataStart(v, bs) + 1
      wanted == GetBlocks(req, bs)
      cluster == GetBlocks(Layout(v).align, bs)
  IN  IF Layout(v).align > 0
      THEN Min2(align_up(wanted, cluster), align_down(most, cluster))
      ELSE Min2(wanted, most)

DataEnd(v, req, nb, bs) == DataStart(v, bs) + DataBlocks(v, req, nb, bs) - 1

\* Where the data partition is, NoExtent standing for DeviceTooSmall.
DataExtent(v, req, nb, bs) ==
  IF \/ DataStart(v, bs) > LastUsable(nb, bs)
     \/ Trailing(v, bs) > 0 /\ Trailing(v, bs) + DataStart(v, bs) >= nb
     \/ DataBlocks(v, req, nb, bs) = 0
     \/ DataEnd(v, req, nb, bs) > UsableEnd(v, nb, bs)
     \/ DataEnd(v, req, nb, bs) < DataStart(v, bs)
  THEN NoExtent
  ELSE [start |-> DataStart(v, bs), end |-> DataEnd(v, req, nb, bs)]

-----------------------------------------------------------------------------
(***************************************************************************)
(* The label.                                                              *)
(***************************************************************************)
CONSTANTS
  Geometries,  \* the [block_size, num_blocks] a disk may have
  MaxReq,      \* stands for u64::MAX: more than any disk holds
  MaxWrites,   \* bounds the calls of write()
  MaxDamage    \* bounds the parts of a label that are damaged

VARIABLES
  props,    \* the geometry of the disk
  disk,     \* block -> content, for the blocks that were written
  writer,   \* the running write(): where it is, and the label it writes
  written,  \* the label the last completed write() left on the disk
  labels,   \* every label that was generated
  damaged   \* the parts of the last label that were overwritten

gptVars == <<props, disk, writer, written, labels, damaged>>

U32_MAX == 2147483647  \* the largest integer of TLC stands for u32::MAX

Blank == [intact |-> FALSE]
NoLabel == [version |-> "none"]

(***************************************************************************)
(* Headers, partition tables and the protective MBR (primitives.rs).       *)
(***************************************************************************)
HeaderNew(bs, nb) ==
  [intact |-> TRUE, lba_self |-> 1, lba_alt |-> nb - 1,
   lba_start |-> GetBlocks(DATA_OFFSET, bs),
   lba_end |-> nb - GetBlocks(PARTITION_TABLE_SIZE, bs) - 2,
   lba_table |-> 2, entries |-> 128 * 128, table_crc |-> {}]

as_secondary(h) == [h EXCEPT !.lba_self = h.lba_alt, !.lba_alt = h.lba_self,
                             !.lba_table = h.lba_end + 1]

as_primary(h) == [h EXCEPT !.lba_self = h.lba_alt, !.lba_alt = h.lba_self,
                           !.lba_table = h.lba_alt + 1]

\* The size in the MBR where it fits in 32 bits.
protect(nb) == [intact |-> TRUE, num_sectors |-> IF nb > U32_MAX THEN U32_MAX ELSE nb - 1]

\* Every table holds a partition with a random GUID, here the number n of the label.
build_partitions(v, h, bs, req, n) ==
  LET ext == DataExtent(v, req, h.lba_alt + 1, bs) IN
    {[name |-> "MayaMeta", guid |-> n, start |-> h.lba_start, end |-> ext.start - 1],
     [name |-> "MayaData", guid |-> 0, start |-> ext.start, end |-> ext.end]}

LabelNew(v, bs, nb, partitions) ==
  LET primary == [HeaderNew(bs, nb) EXCEPT !.table_crc = partitions] IN
    [version |-> v, mbr |-> protect(nb), primary |-> primary, partitions |-> partitions,
     secondary |-> as_secondary(primary)]

generate(v, bs, nb, req, n) ==
  IF DataExtent(v, req, nb, bs) = NoExtent
  THEN NoLabel
  ELSE LabelNew(v, bs, nb, build_partitions(v, HeaderNew(bs, nb), bs, req, n))

\* A variant recognises its own layout.
Check(v, partitions, bs) ==
  \E meta, data \in partitions :
    /\ meta.name = "MayaMeta" /\ data.name = "MayaData"
    /\ meta.end - meta.start + 1 = GetBlocks(Layout(v).meta, bs)
    /\ data.start = meta.end + 1

Detect(partitions, bs) ==
  IF Check("V1", partitions, bs) THEN "V1"
  ELSE IF Check("V2", partitions, bs) THEN "V2" ELSE "none"

(***************************************************************************)
(* Validation.                                                             *)
(***************************************************************************)
ValidatePrimary(h, bs, nb) ==
  /\ h.lba_self = 1
  /\ h.lba_alt + 1 = nb
  /\ h.lba_end < h.lba_alt
  /\ h.lba_table = h.lba_self + 1
  /\ h.entries <= PARTITION_TABLE_SIZE
  /\ h.lba_table + GetBlocks(PARTITION_TABLE_SIZE, bs) <= h.lba_start

ValidateSecondary(h, bs, nb) ==
  /\ h.lba_alt = 1
  /\ h.lba_self + 1 = nb
  /\ h.lba_alt < h.lba_start
  /\ h.lba_table = h.lba_end + 1
  /\ h.entries <= PARTITION_TABLE_SIZE
  /\ h.lba_table + GetBlocks(PARTITION_TABLE_SIZE, bs) <= h.lba_self

ValidatePartitions(partitions, h) ==
  /\ \A e \in partitions :
       /\ ~(0 < e.start /\ e.start < h.lba_start)
       /\ e.start <= e.end
       /\ e.end <= h.lba_end
  /\ h.table_crc = partitions

\* Mutant: the headers are compared by where they say the label is, not by what is in it.
ConsistencyOfPlace(p, s) ==
  /\ p.lba_self = s.lba_alt /\ p.lba_alt = s.lba_self
  /\ p.lba_start = s.lba_start /\ p.lba_end = s.lba_end

ConsistencyCheck(p, s) ==
  /\ p.lba_self = s.lba_alt /\ p.lba_alt = s.lba_self
  /\ p.lba_start = s.lba_start /\ p.lba_end = s.lba_end
  /\ p.entries = s.entries
  /\ p.table_crc = s.table_crc

(***************************************************************************)
(* probe_label and VersionedLabel::probe: NoLabel stands for any error.    *)
(***************************************************************************)
ReadDisk(b) == IF b \in DOMAIN disk THEN disk[b] ELSE Blank

ReadPrimaryHeader(bs, nb) ==
  LET h == ReadDisk(1) IN
    IF h.intact /\ "lba_self" \in DOMAIN h /\ ValidatePrimary(h, bs, nb) THEN h ELSE Blank

ReadSecondaryHeader(bs, nb) ==
  LET h == ReadDisk(nb - 1) IN
    IF h.intact /\ "lba_self" \in DOMAIN h /\ ValidateSecondary(h, bs, nb) THEN h ELSE Blank

ReadPartitions(h) ==
  LET t == ReadDisk(h.lba_table) IN
    IF t.intact /\ "table" \in DOMAIN t /\ ValidatePartitions(t.table, h) THEN t.table ELSE {}

ProbeLabel(bs, nb) ==
  LET mbr == ReadDisk(0)
      p == ReadPrimaryHeader(bs, nb)
      s == ReadSecondaryHeader(bs, nb)
      active == IF p.intact THEN p ELSE s
      primary == IF p.intact THEN p ELSE as_primary(s)
      secondary == IF s.intact THEN s ELSE as_secondary(p)
      table == ReadPartitions(active)
  IN  IF \/ ~mbr.intact
         \/ ~p.intact /\ ~s.intact
         \/ p.intact /\ s.intact /\ ~ConsistencyCheck(p, s)
         \/ mbr.num_sectors # U32_MAX /\ mbr.num_sectors # primary.lba_alt
         \/ table = {}
      THEN NoLabel
      ELSE [version |-> Detect(table, bs), mbr |-> mbr, primary |-> primary,
            partitions |-> table, secondary |-> secondary]

Probe == LET label == ProbeLabel(props.block_size, props.num_blocks) IN
           IF label # NoLabel /\ label.version = "none" THEN NoLabel ELSE label

(***************************************************************************)
(* write() of the gpt tool.  Each of its two writes can be cut short by a  *)
(* crash, which leaves any part of it on the disk.                         *)
(***************************************************************************)
Idle == [at |-> "idle", label |-> NoLabel]

primary_data(l) ==
  [b \in {0, l.primary.lba_self, l.primary.lba_table} |->
     IF b = 0 THEN l.mbr
     ELSE IF b = l.primary.lba_self THEN l.primary
     ELSE [intact |-> TRUE, table |-> l.partitions]]

secondary_data(l) ==
  [b \in {l.secondary.lba_table, l.secondary.lba_self} |->
     IF b = l.secondary.lba_self THEN l.secondary
     ELSE [intact |-> TRUE, table |-> l.partitions]]

Put(data, blocks) ==
  disk' = [b \in DOMAIN disk \cup blocks |-> IF b \in blocks THEN data[b] ELSE disk[b]]

GptInit ==
  /\ props \in Geometries
  /\ disk = << >>
  /\ writer = Idle
  /\ written = NoLabel
  /\ labels = {}
  /\ damaged = {}

Write(v) ==
  /\ writer = Idle /\ Cardinality(labels) < MaxWrites
  /\ LET l == generate(v, props.block_size, props.num_blocks, MaxReq, Cardinality(labels) + 1) IN
       /\ l # NoLabel
       /\ writer' = [at |-> "primary", label |-> l]
       /\ labels' = labels \cup {l}
  /\ UNCHANGED <<props, disk, written, damaged>>

\* The first write replaces the primary copy: what is on the disk is no longer
\* the old label.
WritePrimary ==
  /\ writer.at = "primary"
  /\ Put(primary_data(writer.label), DOMAIN primary_data(writer.label))
  /\ writer' = [writer EXCEPT !.at = "secondary"]
  /\ written' = NoLabel
  /\ UNCHANGED <<props, labels, damaged>>

WriteSecondary ==
  /\ writer.at = "secondary"
  /\ Put(secondary_data(writer.label), DOMAIN secondary_data(writer.label))
  /\ writer' = Idle
  /\ written' = writer.label
  /\ damaged' = {}
  /\ UNCHANGED <<props, labels>>

Crash ==
  /\ writer # Idle
  /\ LET data == IF writer.at = "primary" THEN primary_data(writer.label)
                 ELSE secondary_data(writer.label)
     IN  \E blocks \in SUBSET DOMAIN data :
           /\ blocks # DOMAIN data
           /\ Put(data, blocks)
           /\ written' = IF blocks = {} THEN written ELSE NoLabel
  /\ writer' = Idle
  /\ UNCHANGED <<props, labels, damaged>>

\* A part of the label is overwritten, or its blocks cannot be read.
Damage(b) ==
  /\ writer = Idle /\ b \in DOMAIN disk /\ Cardinality(damaged) < MaxDamage
  /\ disk' = [disk EXCEPT ![b] = Blank]
  /\ damaged' = damaged \cup {b}
  /\ UNCHANGED <<props, writer, written, labels>>

\* The device under the label is resized.
Grow ==
  /\ writer = Idle
  /\ \E g \in Geometries :
       /\ g.block_size = props.block_size /\ g.num_blocks > props.num_blocks
       /\ props' = g
  /\ written' = NoLabel
  /\ UNCHANGED <<disk, writer, labels, damaged>>

GptNext ==
  \/ \E v \in Versions : Write(v)
  \/ WritePrimary
  \/ WriteSecondary
  \/ Crash
  \/ \E b \in DOMAIN disk : Damage(b)
  \/ Grow

GptSpec == GptInit /\ [][GptNext]_gptVars

-----------------------------------------------------------------------------
\* A label that generate() makes is one that probe() accepts and recognises as
\* its own version: both headers, the table and their agreement are valid, and
\* the data partition ends before the blocks of the secondary copy.
GeneratedIsSound ==
  \A l \in labels :
    LET bs == props.block_size
        nb == l.primary.lba_alt + 1
    IN  /\ ValidatePrimary(l.primary, bs, nb) /\ ValidateSecondary(l.secondary, bs, nb)
        /\ ConsistencyCheck(l.primary, l.secondary)
        /\ ValidatePartitions(l.partitions, l.primary)
        /\ Detect(l.partitions, bs) = l.version
        /\ \A e \in l.partitions : e.end < l.secondary.lba_table

\* Whatever a crash left of one label over another, and whatever was damaged
\* since, a probe that succeeds returns a label that was generated as a whole:
\* never the table of one with the header of another.
ProbedWasGenerated == Probe # NoLabel => Probe \in labels

\* "Primary GPT header is either not present or invalid. See if we can obtain a
\* valid secondary GPT header": a label that was written completely is found
\* after its secondary copy, or its primary header with or without the table,
\* is lost.
OneCopyIsEnough ==
  /\ written # NoLabel
  /\ LET p == written.primary
         s == written.secondary
     IN  \/ damaged \subseteq {s.lba_self, s.lba_table}
         \/ damaged \subseteq {p.lba_self, p.lba_table} /\ p.lba_self \in damaged
  => Probe = written

\* What probe() finds is a label that was written as a whole, and it finds it
\* as long as one copy is there.
LabelIsSound == GeneratedIsSound /\ ProbedWasGenerated /\ OneCopyIsEnough

-----------------------------------------------------------------------------
(***************************************************************************)
(* The size of a nexus.                                                    *)
(***************************************************************************)
CONSTANTS
  Children,     \* replicas
  BlockLens,    \* the block sizes a replica may have
  Blocks,       \* the sizes in blocks a replica may have
  ReqSizes,     \* the sizes in bytes a nexus is requested with
  MaxSteps      \* bounds the operations after creation

\* A device has blocks of 512 or of 4096 bytes, and room for its label: the
\* subtraction in data_extent() would wrap on a smaller one.
ASSUME SizeAssumption ==
  /\ BlockLens \subseteq {512, 4096}
  /\ Blocks \subseteq Nat /\ \A nb \in Blocks : nb > 33
  /\ ReqSizes \subseteq Nat

VARIABLES
  dev,      \* replica -> [nb, bs] of its device
  nexus,    \* [open, version, exact, req, start, blocks, bs]
  members,  \* child -> "healthy", "unsynced" or "closed"
  steps

sizeVars == <<dev, nexus, members, steps>>

NoNexus == [open |-> FALSE, version |-> "V1", exact |-> FALSE, req |-> 0,
            start |-> 0, blocks |-> 0, bs |-> 0]

HasDevice(c) == members[c] # "closed"
HealthyMembers == {c \in DOMAIN members : members[c] = "healthy"}

\* spdk_bdev_notify_blockcnt_change: a device that is open does not shrink.
NotifyBlockCnt(n, blocks, used) == used => blocks >= n.blocks

\* Mutant: the largest child decides.
LargestEnd(ends) == {e \in ends : \A f \in ends : f <= e}

\* The smallest child decides: none if there is no child.
SmallestEnd(ends) == {e \in ends : \A f \in ends : e <= f}

\* A resize must leave every child with a later end than the data has now.
Grows(n, ext) == ext.end > ext.start + n.blocks

\* The data partition of a child, and what the children C have in common.
ExtentOf(n, c) == DataExtent(n.version, n.req, dev[c].nb, dev[c].bs)
StartOf(n, C) == CHOOSE s \in {ExtentOf(n, c).start : c \in C} : TRUE
BlockLenOf(C) == CHOOSE b \in {dev[c].bs : c \in C} : TRUE
EndsOf(n, C) == {ExtentOf(n, c).end : c \in C}
BlocksOf(n, C) == {e - StartOf(n, C) + 1 : e \in SmallestEnd(EndsOf(n, C))}

\* What setup_nexus_bdev refuses.
SetupRefused(n, C, resizing, used, blocks) ==
  \/ \E c, d \in C : dev[c].bs # dev[d].bs
  \/ \E c \in C : ExtentOf(n, c) = NoExtent
  \/ resizing /\ \E c \in C : ~Grows(n, ExtentOf(n, c))
  \/ \E c, d \in C : ExtentOf(n, c).start # ExtentOf(n, d).start
  \/ n.exact /\ n.req \div BlockLenOf(C) # blocks
  \/ resizing /\ ~NotifyBlockCnt(n, blocks, used)

\* setup_nexus_bdev: the nexus as the children C make it, or none on an error.
SetupNexusBdev(n, C, resizing, used) ==
  {[open |-> TRUE, version |-> n.version, exact |-> n.exact, req |-> n.req,
    start |-> StartOf(n, C), blocks |-> blocks, bs |-> BlockLenOf(C)] :
     blocks \in {b \in BlocksOf(n, C) : ~SetupRefused(n, C, resizing, used, b)}}

\* NexusChild::open: the device must hold the requested size.
OpensChild(req, c) == req <= dev[c].nb * dev[c].bs

\* min_num_blocks over the healthy children, and the geometry check of
\* add_child_only.
FitsNexus(c) ==
  /\ dev[c].bs = nexus.bs
  /\ HealthyMembers # {}
  /\ \E d \in HealthyMembers : dev[d].nb <= dev[c].nb

SizeInit ==
  /\ dev \in [Children -> [nb : Blocks, bs : BlockLens]]
  /\ nexus = NoNexus
  /\ members = << >>
  /\ steps = 0

Count == steps < MaxSteps /\ steps' = steps + 1

\* nexus_create: all children must open, or all of it fails.  API version 1
\* asks for the exact size only with the newer label.
NexusCreate(v, exact, req, C) ==
  /\ ~nexus.open
  /\ exact => v # "V1"
  /\ nexus' \in SetupNexusBdev([NoNexus EXCEPT !.version = v, !.exact = exact, !.req = req], C, FALSE, FALSE)
  /\ \A c \in C : OpensChild(req, c)
  /\ members' = [c \in C |-> "healthy"]
  /\ UNCHANGED <<dev, steps>>

\* resize: the requested size goes back to what it was if the setup fails.
Resize(to, used) ==
  /\ nexus.open /\ Count
  /\ to # nexus.req
  /\ LET set == IF \A c \in DOMAIN members : HasDevice(c)
                THEN SetupNexusBdev([nexus EXCEPT !.req = to], DOMAIN members, TRUE, used) ELSE {}
     IN  nexus' \in IF set = {} THEN {nexus} ELSE set
  /\ UNCHANGED <<dev, members>>

AddChild(c) ==
  /\ nexus.open /\ Count
  /\ c \notin DOMAIN members
  /\ FitsNexus(c)
  /\ OpensChild(nexus.req, c)
  /\ members' = [d \in DOMAIN members \cup {c} |-> IF d = c THEN "unsynced" ELSE members[d]]
  /\ UNCHANGED <<dev, nexus>>

RemoveChild(c) ==
  /\ nexus.open /\ Count
  /\ c \in DOMAIN members /\ HealthyMembers # {c}
  /\ members' = [d \in DOMAIN members \ {c} |-> members[d]]
  /\ UNCHANGED <<dev, nexus>>

\* The child is faulted or taken offline, and its device is closed.
CloseChild(c) ==
  /\ nexus.open /\ Count
  /\ c \in DOMAIN members /\ HasDevice(c)
  /\ members' = [members EXCEPT ![c] = "closed"]
  /\ UNCHANGED <<dev, nexus>>

\* online_child opens the device again.
OnlineChild(c) ==
  /\ nexus.open /\ Count
  /\ c \in DOMAIN members /\ ~HasDevice(c)
  /\ OpensChild(nexus.req, c)
  /\ members' = [members EXCEPT ![c] = "unsynced"]
  /\ UNCHANGED <<dev, nexus>>

RebuildDone(c) ==
  /\ c \in DOMAIN members /\ members[c] = "unsynced" /\ HealthyMembers # {}
  /\ members' = [members EXCEPT ![c] = "healthy"]
  /\ UNCHANGED <<dev, nexus, steps>>

\* A replica is resized before the nexus is.
ReplicaGrows(c) ==
  /\ Count
  /\ \E nb \in Blocks : nb > dev[c].nb /\ dev' = [dev EXCEPT ![c].nb = nb]
  /\ UNCHANGED <<nexus, members>>

SizeNext ==
  \/ \E v \in Versions, exact \in BOOLEAN, req \in ReqSizes, C \in SUBSET Children :
       NexusCreate(v, exact, req, C)
  \/ \E to \in ReqSizes, used \in BOOLEAN : Resize(to, used)
  \/ \E c \in Children : \/ AddChild(c) \/ RemoveChild(c) \/ CloseChild(c)
                         \/ OnlineChild(c) \/ RebuildDone(c) \/ ReplicaGrows(c)

SizeSpec == SizeInit /\ [][SizeNext]_sizeVars

-----------------------------------------------------------------------------
\* Whatever was added, resized and brought back: the data of the nexus lies
\* within the usable blocks of every child, and so I/O never reaches the copy
\* of the label at the end of the device or blocks the device does not have.
DataFits ==
  nexus.open =>
    \A c \in DOMAIN members :
      HasDevice(c) => /\ dev[c].bs = nexus.bs
                      /\ nexus.start + nexus.blocks - 1 <= LastUsable(dev[c].nb, dev[c].bs)

\* "The size of the nexus bdev must match the requested size exactly": at every
\* time, after resizes that were refused included.
ExactSize == nexus.open /\ nexus.exact => nexus.blocks = nexus.req \div nexus.bs

\* A nexus is never larger than its children can hold, nor of another size than
\* it was created with where that was exact.
SizeIsSound == DataFits /\ ExactSize
=============================================================================
