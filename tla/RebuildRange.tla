----------------------------- MODULE RebuildRange -----------------------------
(***************************************************************************)
(* Which blocks a rebuild copies: the log of the segments written while a  *)
(* child was away (nexus_io_log.rs, segment_map.rs), the checks of the     *)
(* range (rebuild_descriptor.rs), the walks over it (rebuilders.rs) and    *)
(* the statistics derived from them (rebuild_job_backend.rs).  The content *)
(* of the devices is abstracted to the blocks in which the destination     *)
(* differs from the source and to the blocks the source has never written. *)
(***************************************************************************)
EXTENDS Integers, FiniteSets

CONSTANTS
  SegBlks,      \* blocks in a segment (SEGMENT_SIZE)
  Starts,       \* where the data partition of a child may start
  RangeSizes,        \* the sizes in blocks a nexus may have
  Devices,      \* the sizes in blocks a device may have
  Walks,        \* "full", "seq": a nexus job without and with a map;
                \* "device", "bitmap": a bdev job without and with a map
  LogCores,     \* the cores, each with a log of its own
  CopyTasks,    \* SEGMENT_TASKS
  MaxRangeWrites     \* bounds the writes before the rebuild

\* The label puts the data at a whole number of MiB, and so at a segment.
ASSUME RangeAssumption ==
  /\ SegBlks \in Nat \ {0} /\ CopyTasks \in Nat \ {0}
  /\ \A s \in Starts : s \in Nat /\ s % SegBlks = 0

VARIABLES
  walk,     \* the kind of job
  geo,      \* [start, end]: the range; [src, dst]: the sizes of the devices
  log,      \* core -> segments marked in its log
  map,      \* segments marked in the map of the job
  differs,  \* blocks in which the destination differs from the source
  holes,    \* blocks the source has not allocated
  stage,    \* "logging", "running", "completed", "failed", "refused"
  peek,     \* what the walk yields next
  flight,   \* blocks given to copy tasks
  landed,   \* those of them that are copied, the result not yet received
  done,     \* segments_done
  overwritten, \* (history) blocks of the destination that the job wrote
  writes    \* bounds the writes

rangeVars == <<walk, geo, log, map, differs, holes, stage, peek, flight, landed, done, overwritten, writes>>

Nexus == {"full", "seq"}
Mapped == {"seq", "bitmap"}
NoMore == -1

MinOf(a, b) == IF a < b THEN a ELSE b
MaxOf(a, b) == IF a < b THEN b ELSE a
Data == geo.start .. (geo.end - 1)

\* Range::within
Within(from, to, blocks) == from < to /\ 0 < blocks /\ to <= blocks

-----------------------------------------------------------------------------
(* SegmentMap.                                                             *)

LbnToSeg(lbn) == lbn \div SegBlks

\* Mutant: only the segment of the first block is marked.
SetFirst(m, lbn, cnt) == m \cup {LbnToSeg(lbn)}

\* set(lbn, cnt, true)
SetDirty(m, lbn, cnt) == m \cup (LbnToSeg(lbn) .. LbnToSeg(lbn + cnt - 1))

\* set(lbn, 1, false)
SetClean(m, lbn) == m \ {LbnToSeg(lbn)}

CountDirtyBlks(m) == Cardinality(m) * SegBlks

-----------------------------------------------------------------------------
(* The child is away: the nexus goes on writing and logs what it writes.   *)

RangeInit ==
  /\ walk \in Walks
  /\ \E s \in Starts, n \in RangeSizes, src, dst \in Devices :
       /\ walk \in Nexus => s + n <= src /\ s + n <= dst
       /\ walk \notin Nexus => s = 0 /\ n = dst
       /\ geo = [start |-> s, end |-> s + n, src |-> src, dst |-> dst]
  /\ log = [c \in LogCores |-> {}]
  /\ map = {}
  /\ holes \in {{}, Data}
  /\ differs = IF walk \in Mapped THEN {} ELSE Data \ holes
  /\ stage = "logging"
  /\ peek = NoMore /\ flight = {} /\ landed = {} /\ done = 0
  /\ overwritten = {}
  /\ writes = 0

EffectiveOffset(offset) == offset + geo.start

\* log_io of a write, or of an unmap, which gives back the segments it covers
\* entirely.
LogIo(core, unmap, offset, cnt) ==
  LET lbn == EffectiveOffset(offset)
      blks == (geo.start + offset) .. (geo.start + offset + cnt - 1)
      whole == {b \in blks : \A c \in Data : LbnToSeg(c) = LbnToSeg(b) => c \in blks}
  IN  /\ stage = "logging" /\ writes < MaxRangeWrites
      /\ geo.start + offset + cnt <= geo.end /\ geo.end <= geo.src
      /\ writes' = writes + 1
      /\ log' = IF walk \in Mapped THEN [log EXCEPT ![core] = SetDirty(@, lbn, cnt)] ELSE log
      /\ differs' = differs \cup blks
      /\ holes' = IF unmap THEN holes \cup whole ELSE holes \ blks
      /\ UNCHANGED <<walk, geo, map, stage, peek, flight, landed, done, overwritten>>

-----------------------------------------------------------------------------
(* The walks.                                                              *)

\* FullRebuild and PartialSeqRebuild: the range in steps of a segment.
FullWalk == {b \in Data : (b - geo.start) % SegBlks = 0}

\* PartialRebuild: the set bits, by their position in the map.
BitmapWalk(m) == m

Walk(m) == IF walk = "bitmap" THEN BitmapWalk(m) ELSE FullWalk

Least(S) == IF S = {} THEN NoMore ELSE CHOOSE b \in S : \A c \in S : b <= c

\* PeekableIterator::next
After(blk) == Least({b \in Walk(map) : b > blk})

\* FullRebuild: the blocks from the next one on.
FullRemaining == IF peek = NoMore THEN 0 ELSE MaxOf(geo.end, peek) - peek

\* PartialRebuild: total_blks - rebuilt_blks
BitmapRemaining == Cardinality({s \in map : peek # NoMore /\ s >= peek}) * SegBlks

BlocksRemaining ==
  CASE walk = "seq" -> CountDirtyBlks(map)
    [] walk = "bitmap" -> BitmapRemaining
    [] OTHER -> FullRemaining

\* The statistics: the last segment may be shorter than it is counted.
BlocksTotal == geo.end - geo.start
BlocksRecovered == MinOf(done * SegBlks, BlocksTotal)
Progress == (BlocksRecovered * 100) \div BlocksTotal

-----------------------------------------------------------------------------
(* The job.                                                                *)

\* RebuildDescriptor::validate
Validate == Within(geo.start, geo.end, geo.src) /\ Within(geo.start, geo.end, geo.dst)

\* RebuildDescriptor::validate_map: the map of a bdev job has the size of the
\* destination.
ValidateMap == walk = "bitmap" => geo.dst <= geo.end

\* IOLog::finalize: the logs of all cores are taken and merged.
Finalize == UNION {log[c] : c \in LogCores}

\* The range is checked, the map taken and the walk set up, and the first
\* tasks are started; a job with nothing to do is done.
Build ==
  LET all == Walk(Finalize)
      first == {b \in all : Cardinality({c \in all : c < b}) < CopyTasks}
      valid == Validate /\ ValidateMap
  IN  /\ stage = "logging"
      /\ stage' = CASE ~valid -> "refused"
                    [] valid /\ all = {} -> "completed"
                    [] OTHER -> "running"
      /\ map' = Finalize
      /\ log' = [c \in LogCores |-> {}]
      /\ flight' = IF valid THEN first ELSE {}
      /\ peek' = IF valid THEN Least(all \ first) ELSE NoMore
      /\ UNCHANGED <<walk, geo, differs, holes, landed, done, overwritten, writes>>

GetSegmentSizeBlks(blk) == IF blk + SegBlks > geo.end THEN geo.end - blk ELSE SegBlks

\* PartialSeqCopier::is_blk_sync
IsBlkClean(blk) == walk = "seq" /\ LbnToSeg(blk) \notin map

\* read_src_segment: a nexus job does not copy what the source never wrote.
ReadSrcSegment(blks) == ~(walk \in Nexus /\ blks \subseteq holes)

\* copy_segment: the clean segment is skipped, else the segment is read from the
\* source and written to the destination.
CopySegment(blk) ==
  LET blks == blk .. (blk + GetSegmentSizeBlks(blk) - 1)
      moved == ~IsBlkClean(blk) /\ ReadSrcSegment(blks)
  IN  /\ blk \in flight \ landed
      /\ stage = "running"
      /\ landed' = landed \cup {blk}
      /\ differs' = IF moved THEN differs \ blks ELSE differs
      /\ overwritten' = IF moved THEN overwritten \cup blks ELSE overwritten
      /\ map' = IF walk = "seq" THEN SetClean(map, blk) ELSE map
      /\ UNCHANGED <<walk, geo, log, holes, stage, peek, flight, done, writes>>

\* Reading or writing fails, and the job with it.
CopyFails(blk) ==
  /\ blk \in flight \ landed /\ ~IsBlkClean(blk)
  /\ stage = "running"
  /\ stage' = "failed"
  /\ UNCHANGED <<walk, geo, log, map, differs, holes, peek, flight, landed, done, overwritten, writes>>

\* verify_segment: what was written is read back and is found to differ; the
\* segment stays marked.
VerifyFails(blk) ==
  LET blks == blk .. (blk + GetSegmentSizeBlks(blk) - 1)
  IN  /\ blk \in flight \ landed
      /\ stage = "running"
      /\ ~IsBlkClean(blk) /\ ReadSrcSegment(blks)
      /\ stage' = "failed"
      /\ overwritten' = overwritten \cup blks
      /\ UNCHANGED <<walk, geo, log, map, differs, holes, peek, flight, landed, done, writes>>

\* schedule_task_by_id: the task takes the next block, if there is one.
ScheduleTaskById(busy) ==
  /\ flight' = IF peek = NoMore THEN busy ELSE busy \cup {peek}
  /\ peek' = IF peek = NoMore THEN NoMore ELSE After(peek)

\* await_one_task: the job is complete with the result of its last task.
AwaitOneTask(blk) ==
  /\ stage = "running"
  /\ blk \in landed
  /\ landed' = landed \ {blk}
  /\ done' = done + 1
  /\ ScheduleTaskById(flight \ {blk})
  /\ stage' = IF flight' = {} THEN "completed" ELSE stage
  /\ UNCHANGED <<walk, geo, log, map, differs, holes, overwritten, writes>>

RangeNext ==
  \/ \E core \in LogCores, unmap \in BOOLEAN, offset \in 0 .. (geo.end - 1), cnt \in 1 .. geo.end :
       LogIo(core, unmap, offset, cnt)
  \/ Build
  \/ \E blk \in flight : CopySegment(blk) \/ CopyFails(blk) \/ VerifyFails(blk) \/ AwaitOneTask(blk)

RangeSpec == RangeInit /\ [][RangeNext]_rangeVars

-----------------------------------------------------------------------------
\* A rebuild that completed has copied every block in which the destination
\* differed, the last segment of a range that is no multiple of a segment
\* included, but for those the source has given back.
CompletedIsCopied == stage = "completed" => differs \cap Data \subseteq holes

\* A rebuild writes no block outside of its range: neither the label in front of
\* the data nor its copy behind it.
StaysInRange == overwritten \subseteq Data

\* The assert of stats(), which any request for statistics runs: "progress is {}%
\* but there are {} blocks remaining".
ProgressIsHonest ==
  stage \in {"running", "completed", "failed"} => Progress < 100 \/ BlocksRemaining = 0

\* A rebuild copies all of its range and nothing else, and says so truly.
RangeIsCopied == CompletedIsCopied /\ StaysInRange /\ ProgressIsHonest
=============================================================================
