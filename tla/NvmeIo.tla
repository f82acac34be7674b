------------------------------- MODULE NvmeIo -------------------------------
(***************************************************************************)
(* The I/O path of one NVMe channel on its core: device handles connecting *)
(* the queue pair of the channel, commands submitted through it, contexts  *)
(* taken from the pool, and the queue pair being dropped by a reset or a   *)
(* shutdown at any moment (channel.rs, qpair.rs, handle.rs, mempool.rs).   *)
(* All of it runs on one reactor, so a step is what runs between awaits.   *)
(***************************************************************************)
EXTENDS Integers, FiniteSets

CONSTANTS MaxQpairs,    \* queue pairs the channel may get, one after the other
          Openers,      \* tasks that create a handle on the device
          Slots,        \* commands that may be outstanding
          PoolSize,     \* capacity of NVME_IOCTX_POOL
          MaxSubmits    \* bound on the commands submitted

VARIABLES
  qpair,    \* queue pair -> its QPairState, "None" before it is created
  current,  \* the queue pair in the channel, 0 if none
  conn,     \* the queue pairs with a Connection that is polled
  opener,   \* task -> where its create_async() is
  shutdown, \* the channel was shut down
  cmd,      \* slot -> the command
  pending,  \* num_pending_ios
  pool,     \* free contexts
  leaked,   \* contexts of rejected commands, lost to the pool
  done,     \* operations accounted in the statistics
  submits,  \* commands submitted so far
  assertion \* an assertion of the code failed

ioVars == <<qpair, current, conn, opener, shutdown, cmd, pending, pool, leaked, done, submits, assertion>>
connVars == <<qpair, current, conn, opener, shutdown>>
cmdVars == <<cmd, pending, pool, leaked, done, submits>>

Qpairs == 1..MaxQpairs
\* readv, writev, compare, write_zeroes and unmap; flush; read_at and
\* write_at; nvme_admin, whose command does not go through the queue pair;
\* io_passthru, which carries the reservations.
Kinds == {"blocks", "flush", "at", "admin", "passthru"}
Pooled == {"blocks", "flush"}
Accounted == Kinds \ {"flush"}
NoCmd == [kind |-> "none", st |-> "free", qp |-> 0]

IoInit ==
  /\ qpair = [q \in Qpairs |-> IF q = 1 THEN "Disconnected" ELSE "None"]
  /\ current = 1
  /\ conn = {}
  /\ opener = [t \in Openers |-> [pc |-> "idle", qp |-> 0]]
  /\ shutdown = FALSE
  /\ cmd = [i \in Slots |-> NoCmd]
  /\ pending = 0
  /\ pool = PoolSize
  /\ leaked = 0
  /\ done = 0
  /\ submits = 0
  /\ assertion = FALSE

-----------------------------------------------------------------------------
(***************************************************************************)
(* Connecting.  create_async() of a handle connects the queue pair, joins  *)
(* the connection in progress, or finds it connected.                      *)
(***************************************************************************)
Answer(q) == [t \in Openers |->
                IF opener[t].qp = q THEN [pc |-> "idle", qp |-> 0] ELSE opener[t]]
Waits(t, q) == opener' = [opener EXCEPT ![t] = [pc |-> "waiting", qp |-> q]]

ConnectAsync(t) ==
  /\ opener[t].pc = "idle"
  /\ current # 0
  /\ \/ /\ qpair[current] = "Disconnected"        \* start_new_async()
        /\ qpair' = [qpair EXCEPT ![current] = "Connecting"]
        /\ \/ conn' = conn \cup {current} /\ Waits(t, current)
           \/ UNCHANGED <<conn, opener>>        \* the probe was refused
     \/ /\ qpair[current] = "Connecting"          \* waiting_async()
        /\ Waits(t, current)
        /\ UNCHANGED <<qpair, conn>>
  /\ UNCHANGED <<current, shutdown, cmdVars, assertion>>

\* create() of a handle connects at once; the state it must not find is
\* Connecting.
ConnectSync ==
  /\ current # 0
  /\ \/ /\ qpair[current] = "Disconnected"
        /\ \E st \in {"Connected", "Disconnected"} : qpair' = [qpair EXCEPT ![current] = st]
        /\ UNCHANGED assertion
     \/ /\ qpair[current] = "Connecting"
        /\ assertion' = TRUE
        /\ UNCHANGED qpair
  /\ UNCHANGED <<current, conn, opener, shutdown, cmdVars>>

\* The poller of a Connection: the queue pair was dropped, or the probe ended.
ConnectionEnds(q) ==
  /\ q \in conn
  /\ conn' = conn \ {q}
  /\ \E st \in {"Connected", "Disconnected"} :
       qpair' = IF qpair[q] = "Connecting" THEN [qpair EXCEPT ![q] = st] ELSE qpair
  /\ opener' = Answer(q)
  /\ UNCHANGED <<current, shutdown, cmdVars, assertion>>

-----------------------------------------------------------------------------
(***************************************************************************)
(* Submission.                                                             *)
(***************************************************************************)
Account(k) == IF k \in Accounted THEN pending + 1 ELSE pending
Discard(n) == IF pending < n THEN 0 ELSE pending - n

\* A context is taken from the pool, and given back.
PoolGet(k) == IF k \in Pooled THEN pool - 1 ELSE pool
PoolPut(n) == pool + n

Submitted(i, k) ==
  /\ cmd' = [cmd EXCEPT ![i] = [kind |-> k, st |-> "spdk", qp |-> IF k = "admin" THEN 0 ELSE current]]
  /\ pending' = Account(k)
  /\ pool' = PoolGet(k)
  /\ UNCHANGED leaked

\* A rejected command keeps the context that was allocated for it.
Rejected(k) ==
  /\ pool' = PoolGet(k)
  /\ leaked' = IF k \in Pooled THEN leaked + 1 ELSE leaked
  /\ UNCHANGED <<cmd, pending>>

\* What check_channel_for_io() and alloc_nvme_io_ctx() ask for.
Submittable(i, k) ==
  /\ cmd[i].st = "free"
  /\ submits < MaxSubmits
  /\ current # 0
  /\ k \in Pooled => pool > 0
  /\ submits' = submits + 1
  /\ UNCHANGED <<connVars, done, assertion>>

Submit(i, k) == Submittable(i, k) /\ (Submitted(i, k) \/ Rejected(k))

\* read_at() and write_at() treat ENOMEM as a submission.
OutOfMemory(i) ==
  /\ Submittable(i, "at")
  /\ cmd' = [cmd EXCEPT ![i] = [kind |-> "at", st |-> "lost", qp |-> current]]
  /\ pending' = Account("at")
  /\ UNCHANGED <<pool, leaked>>

\* The operations of a handle.  They differ in whether they take a context,
\* are accounted for, await their answer, and may meet an injected fault.
ReadvBlocks(i) == Submit(i, "blocks")
WritevBlocks(i) == Submit(i, "blocks")
ComparevBlocks(i) == Submit(i, "blocks")
UnmapBlocks(i) == Submit(i, "blocks")
WriteZeroes(i) == Submit(i, "blocks")
FlushIo(i) == Submit(i, "flush")
ReadAt(i) == Submit(i, "at") \/ OutOfMemory(i)
WriteAt(i) == Submit(i, "at") \/ OutOfMemory(i)
NvmeAdmin(i) == Submit(i, "admin")
CreateSnapshot(i) == NvmeAdmin(i)
IoPassthru(i) == Submit(i, "passthru")
Reservation(i) == IoPassthru(i)

Operation(i) ==
  \/ ReadvBlocks(i) \/ WritevBlocks(i) \/ ComparevBlocks(i) \/ UnmapBlocks(i) \/ WriteZeroes(i)
  \/ FlushIo(i)
  \/ ReadAt(i) \/ WriteAt(i)
  \/ NvmeAdmin(i) \/ CreateSnapshot(i)
  \/ IoPassthru(i) \/ Reservation(i)

-----------------------------------------------------------------------------
(***************************************************************************)
(* Completion.  A pooled command ends in its callback; an awaited one only *)
(* wakes its future, which accounts it when it runs.                       *)
(***************************************************************************)
Ended(i, ok) ==
  IF cmd[i].kind \in Pooled THEN NoCmd
  ELSE [cmd[i] EXCEPT !.st = IF ok THEN "ok" ELSE "failed"]

Complete(i, ok) ==
  /\ cmd[i].st = "spdk"
  /\ cmd[i].kind # "admin" => qpair[cmd[i].qp] = "Connected"
  /\ cmd' = [cmd EXCEPT ![i] = Ended(i, ok)]
  /\ pending' = IF cmd[i].kind = "blocks" THEN Discard(1) ELSE pending
  /\ pool' = IF cmd[i].kind \in Pooled THEN PoolPut(1) ELSE pool
  /\ done' = IF ok /\ cmd[i].kind \in Pooled THEN done + 1 ELSE done
  /\ UNCHANGED <<connVars, leaked, submits, assertion>>

Wake(i) ==
  /\ cmd[i].st \in {"ok", "failed"}
  /\ cmd' = [cmd EXCEPT ![i] = NoCmd]
  /\ pending' = Discard(1)
  /\ done' = IF cmd[i].st = "ok" /\ cmd[i].kind = "at" THEN done + 1 ELSE done
  /\ UNCHANGED <<connVars, pool, leaked, submits, assertion>>

-----------------------------------------------------------------------------
(***************************************************************************)
(* The channel loses its queue pair: Drop aborts every command queued on   *)
(* it, so their completions run now.  A Connection outlives the queue pair *)
(* and answers its waiters; without one they are answered as the queue     *)
(* pair, which holds their senders, goes away.                             *)
(***************************************************************************)
AbortedBy(q) == {i \in Slots : cmd[i].st = "spdk" /\ cmd[i].qp = q}
CountOf(q, kinds) == Cardinality({i \in AbortedBy(q) : cmd[i].kind \in kinds})

\* Mutant: the commands on the queue pair are not aborted.
DropQpairSilent ==
  /\ cmd' = cmd
  /\ pending' = pending
  /\ pool' = pool
  /\ opener' = IF current \in conn THEN opener ELSE Answer(current)

DropQpair ==
  /\ cmd' = [i \in Slots |-> IF i \in AbortedBy(current) THEN Ended(i, FALSE) ELSE cmd[i]]
  /\ pending' = Discard(CountOf(current, {"blocks"}))
  /\ pool' = PoolPut(CountOf(current, Pooled))
  /\ opener' = IF current \in conn THEN opener ELSE Answer(current)

ResetChannel ==
  /\ current # 0
  /\ DropQpair
  /\ qpair' = [qpair EXCEPT ![current] = "Dropped"]
  /\ current' = 0
  /\ UNCHANGED <<conn, shutdown, leaked, done, submits, assertion>>

ShutdownChannel ==
  /\ ~shutdown
  /\ shutdown' = TRUE
  /\ IF current = 0
       THEN UNCHANGED <<cmd, pending, pool, opener, qpair>>
       ELSE DropQpair /\ qpair' = [qpair EXCEPT ![current] = "Dropped"]
  /\ current' = 0
  /\ UNCHANGED <<conn, leaked, done, submits, assertion>>

\* reinitialize(): the new queue pair is connected before it is put in the
\* channel; a failure leaves the channel without one.
Reinitialize ==
  /\ ~shutdown
  /\ current = 0
  /\ \E q \in Qpairs :
       /\ qpair[q] = "None" /\ \A p \in 1..(q - 1) : qpair[p] # "None"
       /\ \/ qpair' = [qpair EXCEPT ![q] = "Connected"] /\ current' = q
          \/ qpair' = [qpair EXCEPT ![q] = "Dropped"] /\ UNCHANGED current
  /\ UNCHANGED <<conn, opener, shutdown, cmdVars, assertion>>

-----------------------------------------------------------------------------
\* A handle is created, with a connect that waits or one that does not.
CreateHandle == ConnectSync \/ \E t \in Openers : ConnectAsync(t)

Step ==
  \/ CreateHandle
  \/ \E q \in Qpairs : ConnectionEnds(q)
  \/ \E i \in Slots : Operation(i)
  \/ \E i \in Slots, ok \in BOOLEAN : Complete(i, ok)
  \/ \E i \in Slots : Wake(i)
  \/ ResetChannel \/ ShutdownChannel \/ Reinitialize

IoNext == ~assertion /\ Step

\* The pollers of the channel and of the connections run, and so do the
\* futures that were woken.
IoFairness ==
  /\ \A q \in Qpairs : WF_ioVars(~assertion /\ ConnectionEnds(q))
  /\ \A i \in Slots : WF_ioVars(~assertion /\ Wake(i))

IoSpec == IoInit /\ [][IoNext]_ioVars

-----------------------------------------------------------------------------
InUse(kinds) == Cardinality({i \in Slots : cmd[i].st # "free" /\ cmd[i].kind \in kinds})

\* Nothing is outstanding on a queue pair that is gone: whatever the order of
\* submissions, resets and shutdowns, every command submitted through it was
\* completed or aborted.
NoneOnDroppedQpair ==
  \A i \in Slots : cmd[i].st = "spdk" /\ cmd[i].kind # "admin" => cmd[i].qp = current

\* num_pending_ios is the number of commands accounted for and not yet
\* answered to their caller, flushes excepted.
PendingIsOutstanding == pending = InUse(Accounted)

\* Every context is in the pool, with one command in flight, or lost by a
\* command that SPDK or fault injection rejected: none is freed twice.
PoolIsAccounted == pool + InUse(Pooled) + leaked = PoolSize

\* Every command of a channel is accounted for: with its queue pair, in the
\* counter of the channel and in the pool of contexts.
CommandsAccounted == NoneOnDroppedQpair /\ PendingIsOutstanding /\ PoolIsAccounted
=============================================================================
