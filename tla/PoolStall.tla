------------------------------- MODULE PoolStall -------------------------------
(***************************************************************************)
(* The detection of stalled I/O of a pool (lvs_store.rs).  The blobstore   *)
(* calls back for every I/O that is older than a deadline, on the core of  *)
(* the I/O.  The first such call marks the pool as stalled, resets the     *)
(* disk, and leaves to the primary reactor to switch the detection off.    *)
(* After the reset, or at once if the disk has none, the primary reactor   *)
(* reads the super block; when that ends, the pool is marked as resumed    *)
(* and the detection is switched on again.  The futures left to the        *)
(* primary reactor find the pool by its name, and the pool may have been   *)
(* exported and imported again in the meantime.                            *)
(***************************************************************************)
EXTENDS Naturals, Sequences

CONSTANTS
  MaxStalls,  \* bound on the stalls of the disk
  MaxLoads,   \* bound on the imports of the pool
  ErrorThreshold, TransitionThreshold   \* io_error_threshold, io_stall_transition_threshold

VARIABLES
  loaded,     \* whether the store is loaded
  known,      \* whether add_info() has been called for it
  stallInfo,  \* io_stalled of its PoolInfo, or NoInfo
  transitions,  \* the length of transition_timestamps
  detects,    \* whether the timeout of the store is set
  stalls,     \* whether the disk answers no I/O
  resets,     \* whether the disk is being reset
  reads,      \* the reads of the super block under way
  master,     \* the futures sent to the primary reactor, in order
  stallCount, loads

stallVars == <<loaded, known, stallInfo, transitions, detects, stalls, resets, reads, master, stallCount, loads>>

NoInfo == "none"
Stalled == stallInfo = "stalled"

StallInit ==
  /\ loaded = FALSE /\ known = FALSE /\ stallInfo = NoInfo /\ transitions = 0 /\ detects = FALSE /\ stalls = FALSE
  /\ resets = FALSE /\ reads = 0 /\ master = <<>> /\ stallCount = 0 /\ loads = 0

-----------------------------------------------------------------------------
(* The pool comes and goes.                                                *)

\* import(): the store is loaded, and its replicas are shared.
LoadStore ==
  /\ ~loaded /\ ~stalls /\ loads < MaxLoads
  /\ loaded' = TRUE /\ known' = FALSE /\ detects' = FALSE /\ loads' = loads + 1
  /\ UNCHANGED <<transitions, stallInfo, stalls, resets, reads, master, stallCount>>

\* The end of import() and of create_from_args_inner().
AddInfo ==
  /\ loaded /\ ~known
  /\ known' = TRUE /\ stallInfo' = "running" /\ transitions' = 0 /\ detects' = TRUE
  /\ UNCHANGED <<loaded, stalls, resets, reads, master, stallCount, loads>>

\* export() and destroy(): the store has no I/O left.
RemoveInfo ==
  /\ loaded /\ ~resets /\ reads = 0 /\ ~stalls
  /\ loaded' = FALSE /\ known' = FALSE /\ stallInfo' = NoInfo /\ transitions' = 0 /\ detects' = FALSE
  /\ UNCHANGED <<stalls, resets, reads, master, stallCount, loads>>

\* The disk is removed: PoolInfo stays.
StoreRemoved ==
  /\ loaded
  /\ loaded' = FALSE /\ known' = FALSE /\ detects' = FALSE
  /\ stalls' = FALSE /\ resets' = FALSE /\ reads' = 0
  /\ UNCHANGED <<transitions, stallInfo, master, stallCount, loads>>

-----------------------------------------------------------------------------
(* The disk stalls.                                                        *)

DiskStalls ==
  /\ loaded /\ ~stalls /\ stallCount < MaxStalls
  /\ stalls' = TRUE /\ stallCount' = stallCount + 1
  /\ UNCHANGED <<transitions, loaded, known, stallInfo, detects, resets, reads, master, loads>>

DiskRecovers ==
  /\ stalls
  /\ stalls' = FALSE
  /\ UNCHANGED <<transitions, loaded, known, stallInfo, detects, resets, reads, master, stallCount, loads>>

\* lvstore_timeout_cb(), mark_io_stalled(): only the first call for a stall
\* resets the disk.  Without a reset the super block is read; if the reset
\* cannot be started, the mark is taken back.
MarkIoStalled ==
  /\ loaded /\ detects /\ stalls /\ stallInfo = "running"
  /\ \/ /\ stallInfo' = "stalled" /\ resets' = TRUE
        /\ master' = Append(master, "disable")
     \/ /\ stallInfo' = "stalled"
        /\ master' = master \o <<"read", "disable">>
        /\ UNCHANGED resets
     \/ UNCHANGED <<stallInfo, resets, master>>
  /\ UNCHANGED <<transitions, loaded, known, detects, stalls, reads, stallCount, loads>>

\* lvstore_reset_cb(): whether the reset succeeded or not.
ResetDone ==
  /\ resets
  /\ resets' = FALSE
  /\ master' = Append(master, "read")
  /\ UNCHANGED <<transitions, loaded, known, stallInfo, detects, stalls, reads, stallCount, loads>>

\* bs_super_read_cb(), mark_io_resumed().
MarkIoResumed ==
  /\ reads > 0 /\ ~stalls
  /\ reads' = reads - 1
  /\ IF Stalled
       THEN /\ stallInfo' = "running" /\ detects' = TRUE
            /\ transitions' = IF transitions = TransitionThreshold * 10 THEN transitions
                             ELSE transitions + 1
       ELSE UNCHANGED <<stallInfo, transitions, detects>>
  /\ UNCHANGED <<loaded, known, stalls, resets, master, stallCount, loads>>

-----------------------------------------------------------------------------
(* What a client is told of the pool: alerts with a status.                *)

Healthy == 0
Attention == 1
Warning == 2
Critical == 3
PoolAlert(a, s) == {[alert |-> a, status |-> s]}

\* set_alert(), lower_status(): an alert lowers the status of the pool, none raises it.
AlertStatus(alerts) ==
  CHOOSE s \in Healthy..Critical :
    /\ \A a \in alerts : a.status <= s
    /\ s = Healthy \/ \E a \in alerts : a.status = s

\* with_io_errors().
IoErrorAlerts(errors) ==
  IF errors = 0 THEN {}
  ELSE IF errors < ErrorThreshold THEN PoolAlert("IoError", Attention)
  ELSE PoolAlert("IoErrorExc", Warning)

\* with_io_stall().
IoStallAlerts ==
  (IF Stalled THEN PoolAlert("IoStalled", Critical) ELSE {})
  \cup (IF transitions \in {0, 1} THEN {}
        ELSE IF transitions < TransitionThreshold THEN PoolAlert("IoStallIntermittent", Attention)
        ELSE PoolAlert("IoStallIntermittentExc", Warning))

PoolAlerts(errors) == IoErrorAlerts(errors) \cup IoStallAlerts

\* PoolErrorsNt::state().
PoolState(errors) ==
  IF AlertStatus(PoolAlerts(errors)) >= Warning THEN "suspected" ELSE "online"

\* PoolErrorsNt::new(): to report on the pool drops the transitions that are
\* older than the window.
Report ==
  /\ loaded /\ transitions > 0
  /\ transitions' \in 0..(transitions - 1)
  /\ UNCHANGED <<loaded, known, stallInfo, detects, stalls, resets, reads, master, stallCount, loads>>

-----------------------------------------------------------------------------
(* The futures of the primary reactor.                                     *)

\* Mutant: the detection is switched off, stalled or not.
DisableDetectionAlways ==
  /\ master # <<>> /\ Head(master) = "disable"
  /\ master' = Tail(master)
  /\ detects' = (detects /\ ~loaded)
  /\ UNCHANGED <<transitions, loaded, known, stallInfo, stalls, resets, reads, stallCount, loads>>

\* disable_stall_detection(): only of a pool that is stalled still.
DisableDetection ==
  /\ master # <<>> /\ Head(master) = "disable"
  /\ master' = Tail(master)
  /\ detects' = (detects /\ ~(loaded /\ Stalled))
  /\ UNCHANGED <<transitions, loaded, known, stallInfo, stalls, resets, reads, stallCount, loads>>

\* sched_superblock_read().
ReadSuper ==
  /\ master # <<>> /\ Head(master) = "read"
  /\ master' = Tail(master)
  /\ reads' = IF loaded THEN reads + 1 ELSE reads
  /\ UNCHANGED <<transitions, loaded, known, stallInfo, detects, stalls, resets, stallCount, loads>>

StallNext ==
  \/ LoadStore \/ AddInfo \/ RemoveInfo \/ StoreRemoved
  \/ DiskStalls \/ DiskRecovers
  \/ MarkIoStalled \/ ResetDone \/ MarkIoResumed
  \/ DisableDetection \/ ReadSuper \/ Report

StallSpec == StallInit /\ [][StallNext]_stallVars

-----------------------------------------------------------------------------
(* Properties.                                                             *)

\* The primary reactor has nothing left to do for a pool: then its stalls are
\* detected exactly if it is not marked as stalled.  A future that was sent for
\* an earlier stall, or for an earlier import of the pool, does not leave the
\* pool without detection.
DetectionMatches ==
  loaded /\ known /\ master = <<>> => detects = ~Stalled

\* A pool that is marked as stalled has a reset or a read of its super block
\* under way or to come: nothing else takes the mark away.
StallHasRecovery ==
  loaded /\ known /\ Stalled =>
    resets \/ reads > 0 \/ \E i \in DOMAIN master : master[i] = "read"

\* A pool is reported as suspected exactly if it is stalled now, was stalled too
\* often of late, or has had too many errors, whichever else is the matter.
SuspectedIsToldOf ==
  \A errors \in 0..(ErrorThreshold + 1) :
    PoolState(errors) = "suspected" <=>
      Stalled \/ (errors > 0 /\ errors >= ErrorThreshold)
      \/ (transitions > 1 /\ transitions >= TransitionThreshold)

\* A stall is noticed while the pool is well, something is under way to end it
\* while it is not, and clients are told.
StallIsHandled == DetectionMatches /\ StallHasRecovery /\ SuspectedIsToldOf
=============================================================================
