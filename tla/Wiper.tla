-------------------------------- MODULE Wiper --------------------------------
(***************************************************************************)
(* Wiping a replica for the test service (core/wiper.rs, grpc/v1/test.rs): *)
(* the device is wiped chunk by chunk, a chunk in I/Os of bounded size,    *)
(* and the client is told after each chunk through a channel of bounded    *)
(* length, from which it may stop reading and go away at any time.         *)
(***************************************************************************)
EXTENDS Integers, FiniteSets

CONSTANTS
  BlockLen,      \* bytes of a block
  SkipBlocks,    \* skip_gpt_backup_blocks, 33
  MaxIo,         \* max_io_size in bytes, 8 MiB
  MaxChunks,     \* max_chunks, the length of the channel, 1024
  DevSizes,      \* sizes of the replica in bytes, none of them exactly SkipBlocks
  ChunkSizes     \* chunk sizes clients ask for, 0 included

VARIABLES
  size,      \* of the replica
  wipe,      \* the wipe: where it is, its method and its outcome
  iter,      \* WipeIterator of the device
  split,     \* WipeIterator of the chunk that is being wiped, or NoIter
  touched,   \* bytes that were wiped, or read for the checksum
  queue,     \* messages in the channel
  closed,    \* the client has gone
  late       \* I/Os started after it went

wipeVars == <<size, wipe, iter, split, touched, queue, closed, late>>

Methods == {"None", "WriteZeroes", "Unmap", "WritePattern", "CkSum"}

NoIter == [start |-> 0, total |-> 0, chunk |-> 1, extra |-> 0, wiped |-> 0, bytes |-> 0,
           remaining |-> 0, chunks |-> 0]
NoWipe == [at |-> "none", method |-> "None", end |-> "none"]

-----------------------------------------------------------------------------
(* WipeIterator.                                                           *)

\* Mutant: a block of the copy of the label is wiped.
TotalBytesOff(bytes) ==
  LET blks == bytes \div BlockLen IN
    (IF blks >= SkipBlocks THEN blks - SkipBlocks + 1 ELSE blks) * BlockLen

\* checked_sub: a device shorter than the copy of the label is taken as it is.
TotalBytes(bytes) ==
  LET blks == bytes \div BlockLen IN
    (IF blks >= SkipBlocks THEN blks - SkipBlocks ELSE blks) * BlockLen

ExtraChunk(total, chunk) == total % chunk

\* NoIter stands for an error.  A replica has more blocks than the copy of the
\* label, or chunk could be zero.
IterNew(start, bytes, asked) ==
  LET total == TotalBytes(bytes)
      chunk == IF asked = 0 THEN total ELSE asked
      extra == ExtraChunk(total, chunk)
      chunks == (total \div chunk) + IF extra = 0 THEN 0 ELSE 1
  IN  IF \/ bytes = 0
         \/ chunk > total
         \/ chunk % BlockLen # 0
         \/ extra % BlockLen # 0
      THEN NoIter
      ELSE [start |-> start, total |-> total, chunk |-> chunk, extra |-> extra, wiped |-> 0,
            bytes |-> 0, remaining |-> chunks, chunks |-> chunks]

IterMore(it) == it.wiped < it.chunks

\* The offset and the size of the chunk that comes next.
IterNext(it) ==
  [offset |-> it.start + it.wiped * it.chunk,
   size |-> IF it.extra # 0 /\ it.remaining = 1 THEN it.extra ELSE it.chunk]

CompleteChunk(it, bytes) ==
  [it EXCEPT !.wiped = @ + 1, !.bytes = @ + bytes, !.remaining = @ - 1]

BytesOf(c) == c.offset .. c.offset + c.size - 1

-----------------------------------------------------------------------------
(* StreamedWiper.                                                          *)

WipeInit ==
  /\ size \in DevSizes
  /\ wipe = NoWipe
  /\ iter = NoIter
  /\ split = NoIter
  /\ touched = {}
  /\ queue = 0
  /\ closed = FALSE
  /\ late = 0

Supported(m) == m \in {"None", "WriteZeroes", "CkSum"}

\* notify: try_send fails when the channel is full or closed; check_abort tells
\* the two apart.
Notified == ~closed /\ queue < MaxChunks
NotifyError == IF closed THEN "aborted" ELSE "notify failed"

FitsChannel(it) == it.chunks < MaxChunks

\* wipe_replica and StreamedWiper::new: the options are checked, the iterator is
\* made, and the client is told that the wipe starts.  Failing early is reported
\* to the client through the same channel.
WipeReplica(m, asked) ==
  LET it == IterNew(0, size, asked) IN
    /\ wipe.at = "none"
    /\ Supported(m)
    /\ IF asked <= size /\ it # NoIter /\ FitsChannel(it)
       THEN /\ iter' = it
            /\ wipe' = IF Notified THEN [at |-> "chunk", method |-> m, end |-> "none"]
                       ELSE [at |-> "error", method |-> m, end |-> NotifyError]
            /\ queue' = IF Notified THEN queue + 1 ELSE queue
       ELSE /\ wipe' = [at |-> "error", method |-> m, end |-> "invalid"]
            /\ UNCHANGED <<iter, queue>>
    /\ UNCHANGED <<size, split, touched, closed, late>>

\* wipe: the next chunk, in parts if it is larger than one I/O may be.
NextChunk ==
  /\ wipe.at = "chunk"
  /\ IF ~IterMore(iter)
     THEN /\ wipe' = [wipe EXCEPT !.at = "done", !.end = "ok"]
          /\ UNCHANGED split
     ELSE LET c == IterNext(iter)
              sub == IterNew(c.offset, c.size, MaxIo)
          IN  IF c.size <= MaxIo
              THEN wipe' = [wipe EXCEPT !.at = "io"] /\ split' = NoIter
              ELSE IF sub = NoIter
              THEN wipe' = [wipe EXCEPT !.at = "error", !.end = "invalid"] /\ UNCHANGED split
              ELSE wipe' = [wipe EXCEPT !.at = "io"] /\ split' = sub
  /\ UNCHANGED <<size, iter, touched, queue, closed, late>>

CurrentIo == IF split = NoIter THEN IterNext(iter) ELSE IterNext(split)

\* Wiper::wipe submits the I/O, unless the method only pretends.
WipeIo ==
  /\ wipe.at = "io"
  /\ wipe' = [wipe EXCEPT !.at = "wait"]
  /\ late' = IF closed THEN late + 1 ELSE late
  /\ UNCHANGED <<size, iter, split, touched, queue, closed>>

IoFails ==
  /\ wipe.at = "wait" /\ wipe.method # "None"
  /\ wipe' = [wipe EXCEPT !.at = "error", !.end = "io failed"]
  /\ UNCHANGED <<size, iter, split, touched, queue, closed, late>>

CheckAbort == closed

\* complete_chunk and the message to the client.
ChunkDone ==
  /\ iter' = CompleteChunk(iter, IterNext(iter).size)
  /\ split' = NoIter
  /\ wipe' = IF Notified THEN [wipe EXCEPT !.at = "chunk"]
             ELSE [wipe EXCEPT !.at = "error", !.end = NotifyError]
  /\ queue' = IF Notified THEN queue + 1 ELSE queue

\* wipe_with_abort after an I/O: the parts of a large chunk go on, and only there
\* the client is checked.
IoDone ==
  /\ wipe.at = "wait"
  /\ touched' = IF wipe.method = "None" THEN touched ELSE touched \cup BytesOf(CurrentIo)
  /\ IF split = NoIter THEN ChunkDone
     ELSE LET p == CompleteChunk(split, CurrentIo.size) IN
          IF CheckAbort
          THEN /\ wipe' = [wipe EXCEPT !.at = "error", !.end = "aborted"]
               /\ split' = p
               /\ UNCHANGED <<iter, queue>>
          ELSE IF IterMore(p)
          THEN /\ wipe' = [wipe EXCEPT !.at = "io"]
               /\ split' = p
               /\ UNCHANGED <<iter, queue>>
          ELSE ChunkDone
  /\ UNCHANGED <<size, closed, late>>

\* The error goes to the client, if it is there, as soon as the channel has room.
SendError ==
  /\ wipe.at = "error"
  /\ closed \/ queue < MaxChunks
  /\ wipe' = [wipe EXCEPT !.at = "done"]
  /\ queue' = IF closed THEN queue ELSE queue + 1
  /\ UNCHANGED <<size, iter, split, touched, closed, late>>

Receive ==
  /\ queue > 0 /\ ~closed
  /\ queue' = queue - 1
  /\ UNCHANGED <<size, wipe, iter, split, touched, closed, late>>

Disconnect ==
  /\ wipe.at # "none" /\ ~closed
  /\ closed' = TRUE
  /\ queue' = 0
  /\ UNCHANGED <<size, wipe, iter, split, touched, late>>

WipeStep == NextChunk \/ WipeIo \/ IoDone \/ SendError

WipeNext ==
  \/ \E m \in Methods, asked \in ChunkSizes : WipeReplica(m, asked)
  \/ WipeStep
  \/ IoFails
  \/ Receive
  \/ Disconnect

\* The reactor runs the wipe, a device completes its I/O, and a client that is
\* connected reads its messages.
WipeFairness == WF_wipeVars(WipeStep) /\ WF_wipeVars(Receive)

WipeSpec == WipeInit /\ [][WipeNext]_wipeVars /\ WipeFairness

-----------------------------------------------------------------------------
\* The bytes in front of the copy of the label; all, if there is no room for one.
Usable == 0 .. (IF size < SkipBlocks * BlockLen THEN size ELSE size - SkipBlocks * BlockLen) - 1

\* A wipe that is reported as complete has wiped, or read, every byte in front
\* of the copy of the label, if its chunks are no larger than one I/O may be.
CompleteIsWiped ==
  /\ wipe.end = "ok" /\ wipe.method # "None" /\ iter.chunk <= MaxIo
  => touched = Usable

\* The progress a client is told is real: the bytes counted are those of the
\* chunks that are finished, and no more than were wiped.
ProgressIsReal ==
  /\ iter.bytes + iter.chunk * iter.remaining >= iter.total
  /\ iter.wiped + iter.remaining = iter.chunks
  /\ wipe.method # "None" /\ iter.chunk <= MaxIo
       => Cardinality(touched) >= iter.bytes

\* What a client is told of a wipe, while it runs and at its end, has been
\* done.
WipeIsReported == CompleteIsWiped /\ ProgressIsReal
=============================================================================
