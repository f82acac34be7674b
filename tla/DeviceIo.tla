------------------------------- MODULE DeviceIo -------------------------------
(***************************************************************************)
(* I/O through the handle of an SPDK block device.  A handle takes a       *)
(* context from BDEV_IOCTX_POOL, submits the I/O to SPDK with it, and the  *)
(* completion of SPDK calls the callback of the caller before it frees the *)
(* context: the callback may submit again.                                 *)
(***************************************************************************)
EXTENDS Naturals

CONSTANTS DevIos,           \* the I/Os of callers
          Contexts,      \* the contexts of the pool
          MaxSubmits,    \* bound: submissions
          MaxIoFaults    \* bound: submissions that SPDK or an injection refuses

VARIABLES
  devIo,         \* the I/Os
  pool,       \* the free contexts
  lost,       \* the contexts of I/Os that were refused
  submits, ioFaults

devIoVars == <<devIo, pool, lost, submits, ioFaults>>

NoDevIo == [st |-> "idle", op |-> "none", ctx |-> "none"]

\* The I/Os that SPDK has, or whose callback runs.
InFlight == {i \in DevIos : devIo[i].st \in {"sent", "calling"}}
Held == {devIo[i].ctx : i \in InFlight}

Refusal(i, op) == devIo' = [devIo EXCEPT ![i] = [st |-> "refused", op |-> op, ctx |-> "none"]]

\* alloc_bdev_io_ctx(): without a context the caller gets ENOMEM.
Exhausted(i, op) ==
  /\ pool = {}
  /\ Refusal(i, op)
  /\ UNCHANGED <<pool, lost, ioFaults>>

\* SPDK takes the I/O.
Sent(i, op) ==
  /\ pool # {}
  /\ LET c == CHOOSE x \in pool : TRUE IN
     /\ pool' = pool \ {c}
     /\ devIo' = [devIo EXCEPT ![i] = [st |-> "sent", op |-> op, ctx |-> c]]
  /\ UNCHANGED <<lost, ioFaults>>

\* SPDK refuses the I/O: the caller is told, and the context is not freed.
Rejected(i, op) ==
  /\ pool # {} /\ ioFaults < MaxIoFaults
  /\ LET c == CHOOSE x \in pool : TRUE IN pool' = pool \ {c} /\ lost' = lost \union {c}
  /\ Refusal(i, op)
  /\ ioFaults' = ioFaults + 1

\* A caller submits an I/O, also from the callback of another one.
Submit(i, op) ==
  /\ devIo[i].st \in {"idle", "refused"} /\ submits < MaxSubmits
  /\ submits' = submits + 1
  /\ Exhausted(i, op) \/ Sent(i, op) \/ Rejected(i, op)

\* A read or a write may also be refused by inject_submission_error(), with the
\* context in hand as well.
ReadvBlocks(i) == Submit(i, "read")
WritevBlocks(i) == Submit(i, "write")
ComparevBlocks(i) == Submit(i, "compare")
ResetDevice(i) == Submit(i, "reset")
UnmapBlocks(i) == Submit(i, "unmap")
WriteZeroes(i) == Submit(i, "write_zeroes")
FlushIo(i) == Submit(i, "flush")

\* Mutant: the context is freed before the callback is called.
CallBackFreed(i) ==
  /\ devIo[i].st = "sent"
  /\ devIo' = [devIo EXCEPT ![i].st = "calling"]
  /\ pool' = pool \union {devIo[i].ctx}
  /\ UNCHANGED <<lost, submits, ioFaults>>

\* bdev_io_completion(): the callback of the caller ...
CallBack(i) ==
  /\ devIo[i].st = "sent"
  /\ devIo' = [devIo EXCEPT ![i].st = "calling"]
  /\ UNCHANGED <<pool, lost, submits, ioFaults>>

\* ... and then the context goes back to the pool.
FreeBdevIoCtx(i) ==
  /\ devIo[i].st = "calling"
  /\ devIo' = [devIo EXCEPT ![i] = NoDevIo]
  /\ pool' = pool \union {devIo[i].ctx}
  /\ UNCHANGED <<lost, submits, ioFaults>>

DevIoInit ==
  /\ devIo = [i \in DevIos |-> NoDevIo] /\ pool = Contexts /\ lost = {}
  /\ submits = 0 /\ ioFaults = 0

DevIoNext ==
  \E i \in DevIos :
    \/ ReadvBlocks(i) \/ WritevBlocks(i) \/ ComparevBlocks(i) \/ ResetDevice(i) \/ UnmapBlocks(i)
    \/ WriteZeroes(i) \/ FlushIo(i) \/ CallBack(i) \/ FreeBdevIoCtx(i)

DevIoSpec == DevIoInit /\ [][DevIoNext]_devIoVars

-----------------------------------------------------------------------------
(* Properties                                                              *)

\* A context is in the pool, or belongs to one I/O until the callback of that
\* I/O has returned, or was lost with a refused submission: no two I/Os share
\* one, and no other is missing when callers are told ENOMEM.
ContextsAccounted ==
  /\ \A i, j \in InFlight : devIo[i].ctx = devIo[j].ctx => i = j
  /\ pool \intersect Held = {} /\ lost \intersect (pool \union Held) = {}
  /\ pool \union Held \union lost = Contexts
=============================================================================
