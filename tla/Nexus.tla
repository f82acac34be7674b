------------------------------- MODULE Nexus -------------------------------
(***************************************************************************)
(* The write path of a nexus: the bdev that mirrors every write to all its *)
(* children, from the I/O channels of the reactor cores down to the record *)
(* of healthy children in the persistent store.                            *)
(*                                                                         *)
(* A write is submitted to every writer of the channel of its core, and is *)
(* acknowledged when all of them succeed (nexus_io.rs).  A child whose I/O *)
(* fails is faulted at once, on whatever core saw the failure; a routine   *)
(* on the master core then retires it: it marks the child unhealthy in the *)
(* store, detaches it from the channels one after the other, pauses the    *)
(* nexus, and destroys the child's device (nexus_bdev_children.rs).  While *)
(* the store is written, the channels freeze the I/O they would submit     *)
(* (nexus_persistence.rs).  A write the faulted child misses is recorded   *)
(* in the child's I/O log, and a child brought back online is rebuilt from *)
(* that log (nexus_bdev_rebuild.rs); the rebuild job itself is RebuildJob, *)
(* and here it is a set of segments still to be copied.                    *)
(*                                                                         *)
(* Every write goes to a segment of its own, so a set of writes is both    *)
(* what a child holds and what a log records.                              *)
(***************************************************************************)
EXTENDS Integers, FiniteSets, Sequences

CONSTANTS
    NumChildren,    \* the children are 1..NumChildren, in the nexus' order
    NumCores,       \* the I/O channels are 1..NumCores, in traversal order
    Writes,         \* the writes the initiator sends, each at most once
    Faulty,         \* the children whose device may fail
    Added,          \* at most one child, which add_child has just opened
    Events          \* which of AllEvents the environment produces

Children == 1..NumChildren
Cores == 1..NumCores

AllEvents == {
    "admin",        \* a device reports a failed admin command
    "submit",       \* an I/O is refused by a device when it is submitted
    "handle",       \* an I/O handle of an open child cannot be had
    "store",        \* the store fails, whether or not it did what was asked
    "republish",    \* the control plane publishes the nexus elsewhere
    "online",       \* a closed child is brought back online
    "stop"}         \* a rebuild is stopped and started again

ASSUME ChildrenAssumption == NumChildren \in Nat \ {0}
ASSUME CoresAssumption == NumCores \in Nat \ {0}
ASSUME FaultyAssumption == Faulty \subseteq 1..NumChildren
ASSUME AddedAssumption ==
    Added \subseteq 1..NumChildren /\ Added # 1..NumChildren /\ \A c, d \in Added : c = d
ASSUME EventsAssumption == Events \subseteq AllEvents

VARIABLES
    \* the children
    cstate,         \* ChildState: Open, Closed, or Faulted for a reason that is
                    \* IoError, CantOpen or another one (Faulted)
    csync,          \* ChildSyncState: Synced or OutOfSync
    dev,            \* the block device: open, closing (queued), gone
    logging,        \* the children with an active I/O log
    logged,         \* the segments in each child's log
    data,           \* the writes that are on each child's device
    \* the I/O channels
    readers, writers, logs,
    mode,           \* IoMode: Normal or Freeze
    trav,           \* the traversals of the channels under way
    \* the I/Os
    io,
    \* the routines of the master core
    retire,         \* child_retire_routine, by child
    online,         \* online_child and start_rebuild, by child
    update,         \* on_rebuild_update, by child
    shut,           \* try_self_shutdown
    nstate,         \* NexusState
    pausers,        \* the retire routines that pause or have paused the nexus
    frozen,         \* the I/O subsystem was resumed as Frozen
    \* the rebuild jobs
    job, src, todo,
    \* persistence
    persist,        \* the persist call that holds the nexus_info lock
    info,           \* nexus_info: the record kept in memory
    store,          \* the record in the persistent store
    taken           \* the children a republished nexus was given

chvars == <<readers, writers, logs, mode>>
childvars == <<cstate, csync, dev>>
logvars == <<logging, logged>>
jobvars == <<job, src, todo>>
storevars == <<persist, info, store, taken>>
routines == <<online, update, shut, nstate, pausers, frozen>>
vars == <<cstate, csync, dev, logging, logged, data, readers, writers, logs,
          mode, trav, io, retire, online, update, shut, nstate, pausers,
          frozen, job, src, todo, persist, info, store, taken>>

-----------------------------------------------------------------------------
(* Derived state.                                                          *)

IsHealthy(c) == cstate[c] = "Open" /\ csync[c] = "Synced"

\* NexusChild::is_rebuilding, for given child states.
RebuildingIn(cs) ==
    {c \in Children : job[c] # "none" /\ cs[c] = "Open" /\ csync[c] = "OutOfSync"}

\* Nexus::io_log_channels, for given active logs and child states.
LogsIn(lg, cs) == lg \ RebuildingIn(cs)

\* An I/O the initiator waits for.
Outstanding(w) == io[w].st \in {"ready", "sub", "frozen"}

\* The reactor of core k is about to submit an I/O that the step it is taking
\* has released: it takes no other step before that.
Busy(k) == \E w \in Writes : io[w].st = "ready" /\ io[w].core = k

NewIo == [st |-> "new", core |-> 1, sent |-> {}, ok |-> FALSE, bad |-> FALSE]
Finished(w, st) == [io EXCEPT ![w] = [NewIo EXCEPT !.st = st]]

Idle == [st |-> "idle", own |-> "none", child |-> 1, expect |-> {}]
Traversal(op, own, c) == [op |-> op, own |-> own, child |-> c, at |-> 1]
Traverse(op, own, c) == trav' = Append(trav, Traversal(op, own, c))
Traversing(own, c) ==
    \E i \in 1..Len(trav) : trav[i].own = own /\ trav[i].child = c

\* A traversal is over: the routine that waits for it goes on.  The master core
\* handles what it is told in order, so that is the oldest one.
Over(own, c) ==
    /\ trav # << >>
    /\ Head(trav).own = own /\ Head(trav).child = c /\ Head(trav).at = NumCores + 1
GoOn == trav' = Tail(trav)
GoOnWith(op, own, c) == trav' = Append(Tail(trav), Traversal(op, own, c))

\* Every failure of a child starts a traversal that reconnects the logs, and
\* does not wait for it.  Such a traversal that comes to core k right behind
\* another one only repeats it: leaving it out bounds their number.
Repeats(i, k) == i > 1 /\ trav[i - 1].op = "relog" /\ trav[i - 1].at = k

\* add_child_only: a child just added is open, but out of sync, recorded as not
\* healthy, and about to be rebuilt; the others take part in I/O.
Joined == Children \ Added

\* A nexus in service.
Init ==
    /\ cstate = [c \in Children |-> "Open"]
    /\ csync = [c \in Children |-> IF c \in Joined THEN "Synced" ELSE "OutOfSync"]
    /\ dev = [c \in Children |-> "open"]
    /\ logging = {}
    /\ logged = [c \in Children |-> {}]
    /\ data = [c \in Children |-> {}]
    /\ readers = [k \in Cores |-> Joined]
    /\ writers = [k \in Cores |-> Joined]
    /\ logs = [k \in Cores |-> {}]
    /\ mode = [k \in Cores |-> "Normal"]
    /\ trav = << >>
    /\ io = [w \in Writes |-> NewIo]
    /\ retire = [c \in Children |-> "no"]
    /\ online = [c \in Children |-> IF c \in Joined THEN "no" ELSE "added"]
    /\ update = [c \in Children |-> "no"]
    /\ shut = [st |-> "no", left |-> {}]
    /\ nstate = "Open"
    /\ pausers = {}
    /\ frozen = FALSE
    /\ job = [c \in Children |-> "none"]
    /\ src = [c \in Children |-> c]
    /\ todo = [c \in Children |-> {}]
    /\ persist = Idle
    /\ info = [healthy |-> Joined, dss |-> FALSE]
    /\ store = [healthy |-> Joined, dss |-> FALSE]
    /\ taken = {}

-----------------------------------------------------------------------------
(* A child fails: Nexus::retire_child_device, run on the core that saw it. *)

\* start_io_log: only a synced child has one, and only a child whose device
\* is still known is found at all.
HasLog(c) == dev[c] # "gone" /\ csync[c] = "Synced"

RetireChildDevice(c, reason) ==
    IF dev[c] = "gone"
    THEN UNCHANGED <<cstate, logging, retire, trav>>
    ELSE /\ csync[c] = "OutOfSync" => c \notin logging   \* assertion of start_io_log
         /\ logging' = IF HasLog(c) THEN logging \union {c} ELSE logging
         /\ cstate' = [cstate EXCEPT ![c] = IF @ = "Open" THEN reason ELSE @]
         /\ retire' = [retire EXCEPT ![c] = IF cstate[c] = "Open" THEN "persist" ELSE @]
         /\ IF HasLog(c) /\ ~Repeats(Len(trav) + 1, 1) THEN Traverse("relog", "relog", c)
            ELSE UNCHANGED trav

\* A failed admin command: the device event faults the child.
AdminFailed(c) ==
    /\ "admin" \in Events /\ c \in Faulty
    /\ RetireChildDevice(c, "Faulted")
    /\ UNCHANGED <<csync, dev, logged, data, readers, writers, logs, mode, io,
                   routines, jobvars, storevars>>

-----------------------------------------------------------------------------
(* Submission, on core k: NexusBio::submit_request and submit_all.         *)

\* for_each_writer visits the readable children first, in the nexus' order.
Before(k, d, c) ==
    \/ d \in readers[k] /\ c \notin readers[k]
    \/ (d \in readers[k] <=> c \in readers[k]) /\ d < c

\* The I/O after submission to the children of sent: with none it fails.
Sent(w, k, sent, bad) ==
    IF sent = {} THEN Finished(w, "failed")
    ELSE [io EXCEPT ![w] = [st |-> "sub", core |-> k, sent |-> sent,
                            ok |-> FALSE, bad |-> bad]]

LogWrite(w, S) == [c \in Children |-> IF c \in S THEN logged[c] \union {w} ELSE logged[c]]

\* The channel is frozen: the I/O waits there.
FreezeSubmission(w, k) ==
    /\ mode[k] = "Freeze"
    /\ io' = [io EXCEPT ![w] = [NewIo EXCEPT !.st = "frozen", !.core = k]]
    /\ UNCHANGED <<childvars, logvars, data, chvars, trav, retire, routines, jobvars,
                   storevars>>

\* Mutant: the logs are not written.
SubmitAllUnlogged(w, k) ==
    /\ mode[k] = "Normal"
    /\ io' = Sent(w, k, writers[k], FALSE)
    /\ UNCHANGED <<childvars, logvars, data, chvars, trav, retire, routines, jobvars,
                   storevars>>

\* Every writer accepts the I/O.  Writing to a stopped log is a panic.
SubmitAll(w, k) ==
    /\ mode[k] = "Normal"
    /\ logs[k] \subseteq logging
    /\ io' = Sent(w, k, writers[k], FALSE)
    /\ logged' = LogWrite(w, logs[k])
    /\ UNCHANGED <<childvars, logging, data, chvars, trav, retire, routines, jobvars,
                   storevars>>

\* Writer c refuses the I/O: the writers after it are not tried, and c is
\* taken off this channel and faulted.
SubmitRefused(w, k, c) ==
    /\ mode[k] = "Normal"
    /\ "submit" \in Events /\ c \in Faulty \intersect writers[k]
    /\ io' = Sent(w, k, {d \in writers[k] : Before(k, d, c)}, TRUE)
    /\ writers' = [writers EXCEPT ![k] = @ \ {c}]
    /\ readers' = [readers EXCEPT ![k] = @ \ {c}]
    /\ RetireChildDevice(c, "IoError")
    /\ logs' = [logs EXCEPT ![k] = IF HasLog(c) THEN LogsIn(logging', cstate')
                                   ELSE LogsIn(logging, cstate)]
    /\ logged' = LogWrite(w, logs'[k] \union (IF HasLog(c) THEN {c} ELSE {}))
    /\ UNCHANGED <<csync, dev, data, mode, routines, jobvars, storevars>>

SubmitRequest(w, k) ==
    \/ FreezeSubmission(w, k)
    \/ SubmitAll(w, k)
    \/ \E c \in Children : SubmitRefused(w, k, c)

\* The initiator sends a write; a paused nexus does not let it in.
Submit(w, k) ==
    /\ io[w].st = "new" /\ pausers = {} /\ ~frozen /\ ~Busy(k)
    /\ SubmitRequest(w, k)

\* An I/O is submitted again: after a partial failure, or thawed.
Resubmit(w) == io[w].st = "ready" /\ SubmitRequest(w, io[w].core)

-----------------------------------------------------------------------------
(* Completion: NexusBio::complete.                                         *)

\* Mutant: one child that did the write is enough.
CompletedIfAny(w, r) ==
    CASE r.sent # {}           -> [io EXCEPT ![w] = r]
      [] r.sent = {} /\ r.ok   -> Finished(w, "acked")
      [] r.sent = {} /\ ~r.ok  -> Finished(w, "failed")

\* The I/O once a child has answered: r is its record without that child.
Completed(w, r) ==
    CASE r.sent # {}             -> [io EXCEPT ![w] = r]
      [] r.sent = {} /\ ~r.bad   -> Finished(w, "acked")
      [] r.sent = {} /\ r.bad /\ r.ok  -> [io EXCEPT ![w] = [NewIo EXCEPT !.st = "ready",
                                                                       !.core = r.core]]
      [] r.sent = {} /\ r.bad /\ ~r.ok -> Finished(w, "failed")

CompleteOk(w, c) ==
    /\ io[w].st = "sub" /\ c \in io[w].sent /\ ~Busy(io[w].core)
    /\ data' = [data EXCEPT ![c] = @ \union {w}]
    /\ io' = Completed(w, [io[w] EXCEPT !.sent = @ \ {c}, !.ok = TRUE])
    /\ UNCHANGED <<childvars, logvars, chvars, trav, retire, routines, jobvars, storevars>>

\* completion_error: the child is faulted and the write goes to its log; the
\* device may or may not have done the write.
CompleteError(w, c) ==
    /\ io[w].st = "sub" /\ c \in io[w].sent /\ ~Busy(io[w].core)
    /\ c \in Faulty
    /\ data' \in {data, [data EXCEPT ![c] = @ \union {w}]}
    /\ RetireChildDevice(c, "IoError")
    /\ logs' = IF HasLog(c) THEN [logs EXCEPT ![io[w].core] = LogsIn(logging', cstate')]
               ELSE logs
    /\ logged' = IF HasLog(c) THEN LogWrite(w, {c}) ELSE logged
    /\ io' = Completed(w, [io[w] EXCEPT !.sent = @ \ {c}, !.bad = TRUE])
    /\ UNCHANGED <<csync, dev, readers, writers, mode, routines, jobvars, storevars>>

-----------------------------------------------------------------------------
(* Traversals: a routine of the master core visits the channels in turn,   *)
(* by a message from core to core.  The messages of a core are handled in  *)
(* order, so a traversal does not overtake an earlier one.                 *)

\* The routines that wait for the last core to have been visited.
Awaited == {"persist", "retire", "online", "shutdown"}

Visits(i, k) ==
    /\ trav[i].at = k /\ ~Busy(k)
    /\ \A j \in 1..(i - 1) : trav[j].at > k
    /\ trav' = IF \/ k = NumCores /\ trav[i].own \notin Awaited
                  \/ trav[i].op = "relog" /\ Repeats(i, k + 1)
               THEN SubSeq(trav, 1, i - 1) \o SubSeq(trav, i + 1, Len(trav))
               ELSE [trav EXCEPT ![i].at = k + 1]

\* NexusChannel::detach_device
DetachDevice(i, k) ==
    /\ trav[i].op = "detach" /\ Visits(i, k)
    /\ writers' = [writers EXCEPT ![k] = @ \ {trav[i].child}]
    /\ readers' = [readers EXCEPT ![k] = @ \ {trav[i].child}]
    /\ logs' = [logs EXCEPT ![k] = LogsIn(logging, cstate)]
    /\ UNCHANGED <<childvars, logvars, data, mode, io, retire, routines, jobvars,
                   storevars>>

\* Mutant: a thawed channel forgets what it froze.
SetIoModeForgets(i, k) ==
    /\ trav[i].op \in {"Freeze", "Normal"} /\ Visits(i, k)
    /\ mode' = [mode EXCEPT ![k] = trav[i].op]
    /\ UNCHANGED <<childvars, logvars, data, readers, writers, logs, io, retire,
                   routines, jobvars, storevars>>

\* NexusChannel::set_io_mode; a thawed channel submits what it froze.
SetIoMode(i, k) ==
    /\ trav[i].op \in {"Freeze", "Normal"} /\ Visits(i, k)
    /\ mode' = [mode EXCEPT ![k] = trav[i].op]
    /\ io' = [w \in Writes |->
                IF trav[i].op = "Normal" /\ io[w].st = "frozen" /\ io[w].core = k
                THEN [io[w] EXCEPT !.st = "ready"] ELSE io[w]]
    /\ UNCHANGED <<childvars, logvars, data, readers, writers, logs, retire,
                   routines, jobvars, storevars>>

\* NexusChannel::reconnect_all.  A child whose handle cannot be had is faulted.
ReconnectAll(i, k) ==
    /\ trav[i].op = "reconnect" /\ Visits(i, k)
    /\ \E failed \in SUBSET (IF "handle" \in Events THEN Faulty ELSE {}) :
        LET healthy == {c \in Children : IsHealthy(c)}
            rebuilding == IF healthy \subseteq failed THEN {} ELSE RebuildingIn(cstate)
        IN /\ failed \subseteq healthy \union rebuilding
           /\ readers' = [readers EXCEPT ![k] = healthy \ failed]
           /\ writers' = [writers EXCEPT ![k] = (healthy \union rebuilding) \ failed]
           /\ cstate' = [c \in Children |-> IF c \in failed THEN "CantOpen" ELSE cstate[c]]
    /\ logs' = [logs EXCEPT ![k] = LogsIn(logging, cstate')]
    /\ UNCHANGED <<csync, dev, logvars, data, mode, io, retire, routines, jobvars,
                   storevars>>

\* NexusChannel::reconnect_io_logs
ReconnectIoLogs(i, k) ==
    /\ trav[i].op = "relog" /\ Visits(i, k)
    /\ logs' = [logs EXCEPT ![k] = LogsIn(logging, cstate)]
    /\ UNCHANGED <<childvars, logvars, data, readers, writers, mode, io, retire, routines,
                   jobvars, storevars>>

\* NexusChannel::disconnect_detached_devices drops handles that are used no more.
DisconnectDetached(i, k) ==
    /\ trav[i].op = "disconnect" /\ Visits(i, k)
    /\ UNCHANGED <<childvars, logvars, data, chvars, io, retire, routines, jobvars, storevars>>

\* NexusChannel::abort_frozen
AbortFrozen(i, k) ==
    /\ trav[i].op = "abort" /\ Visits(i, k)
    /\ io' = [w \in Writes |-> IF io[w].st = "frozen" /\ io[w].core = k
                               THEN [NewIo EXCEPT !.st = "failed"] ELSE io[w]]
    /\ UNCHANGED <<childvars, logvars, data, chvars, retire, routines, jobvars, storevars>>

\* Core k handles the oldest message it has of a traversal.
Hop(k) ==
    \E i \in 1..Len(trav) :
        \/ DetachDevice(i, k) \/ DisconnectDetached(i, k) \/ SetIoMode(i, k)
        \/ ReconnectAll(i, k) \/ ReconnectIoLogs(i, k) \/ AbortFrozen(i, k)

-----------------------------------------------------------------------------
(* Nexus::persist, on behalf of the retire or of the rebuild update of c.  *)

\* The nexus_info lock is not fair: any caller that waits may be next.
PersistLock(own, c) ==
    /\ persist = Idle
    /\ \/ own = "retire" /\ retire[c] = "persist"
          /\ retire' = [retire EXCEPT ![c] = "saving"] /\ UNCHANGED update
       \/ own = "update" /\ update[c] = "persist"
          /\ update' = [update EXCEPT ![c] = "saving"] /\ UNCHANGED retire
    /\ persist' = [st |-> "freezing", own |-> own, child |-> c, expect |-> {}]
    /\ Traverse("Freeze", "persist", c)
    /\ UNCHANGED <<childvars, logvars, data, chvars, io, online, shut, nstate, pausers, frozen,
                   jobvars, info, store, taken>>

\* Mutant: the last healthy child is retired like any other.
PersistModifyAny ==
    /\ persist.st = "freezing" /\ Over("persist", persist.child) /\ GoOn
    /\ persist' = [persist EXCEPT !.st = "saving", !.expect = info.healthy]
    /\ info' = [info EXCEPT !.healthy = IF persist.own = "retire" THEN @ \ {persist.child}
                                        ELSE @ \union {persist.child}]
    /\ UNCHANGED <<childvars, logvars, data, chvars, io, retire, routines, jobvars, store,
                   taken>>

\* The record in memory is changed; the last healthy child is not retired in
\* the record (the predicate of child_retire_persist).  The master core has begun
\* a shutdown it was sent before this call took the lock.
PersistModify ==
    /\ persist.st = "freezing" /\ Over("persist", persist.child) /\ shut.st # "queued"
    /\ \/ /\ persist.own = "retire" /\ Cardinality(info.healthy) <= 1
          /\ persist' = [persist EXCEPT !.st = "thawing"]
          /\ GoOnWith("Normal", "persist", persist.child)
          /\ UNCHANGED info
       \/ /\ persist.own = "retire" /\ Cardinality(info.healthy) > 1
          /\ persist' = [persist EXCEPT !.st = "saving", !.expect = info.healthy]
          /\ info' = [info EXCEPT !.healthy = @ \ {persist.child}]
          /\ GoOn
       \/ /\ persist.own = "update"
          /\ persist' = [persist EXCEPT !.st = "saving"]
          /\ info' = [info EXCEPT !.healthy = @ \union {persist.child}]
          /\ GoOn
    /\ UNCHANGED <<childvars, logvars, data, chvars, io, retire, routines, jobvars, store,
                   taken>>

\* The store takes the record: a transaction that compares with the record as
\* it was before, or a plain put.
StoreAccepts ==
    \/ persist.own = "update"
    \/ store = [info EXCEPT !.healthy = persist.expect]
    \/ store = info

PersistSaved ==
    /\ persist.st = "saving" /\ StoreAccepts
    /\ store' = info
    /\ persist' = [persist EXCEPT !.st = "thawing"]
    /\ Traverse("Normal", "persist", persist.child)
    /\ UNCHANGED <<childvars, logvars, data, chvars, io, retire, routines, jobvars, info, taken>>

\* save or save_txn fails: the lock is released with the I/O left frozen, the
\* nexus is to shut itself down, and the caller gives up.
PersistFailed ==
    /\ persist.st = "saving"
    /\ \/ /\ ~StoreAccepts
          /\ info' = [info EXCEPT !.dss = store.dss]
          /\ UNCHANGED store
       \/ /\ "store" \in Events
          /\ store' \in {store, IF StoreAccepts THEN info ELSE store}
          /\ UNCHANGED info
    /\ persist' = Idle
    /\ shut' = IF shut.st = "no" THEN [shut EXCEPT !.st = "queued"] ELSE shut
    /\ retire' = [retire EXCEPT ![persist.child] = IF persist.own = "retire" THEN "no" ELSE @]
    /\ update' = [update EXCEPT ![persist.child] = IF persist.own = "update" THEN "error" ELSE @]
    /\ UNCHANGED <<childvars, logvars, data, chvars, trav, io, online, nstate, pausers, frozen,
                   jobvars, taken>>

\* The channels are thawed: the lock is released, and the caller goes on: the
\* child is detached, or its rebuild job is removed.
PersistDone ==
    /\ persist.st = "thawing" /\ Over("persist", persist.child)
    /\ persist' = Idle
    /\ \/ /\ persist.own = "retire"
          /\ retire' = [retire EXCEPT ![persist.child] = "detach"]
          /\ GoOnWith("detach", "retire", persist.child)
          /\ UNCHANGED <<update, job>>
       \/ /\ persist.own = "update"
          /\ update' = [update EXCEPT ![persist.child] = "no"]
          /\ job' = [job EXCEPT ![persist.child] = "none"]
          /\ GoOnWith("reconnect", "update", persist.child)
          /\ UNCHANGED retire
    /\ UNCHANGED <<childvars, logvars, data, chvars, io, online, shut, nstate, pausers, frozen,
                   src, todo, info, store, taken>>

\* The control plane gives the nexus to another node: it asks this one to
\* shut itself down and takes the children the store has as healthy.
Republish ==
    /\ "republish" \in Events /\ taken = {}
    /\ store' = [store EXCEPT !.dss = TRUE]
    /\ taken' = store.healthy
    /\ UNCHANGED <<childvars, logvars, data, chvars, trav, io, retire, routines, jobvars,
                   persist, info>>

-----------------------------------------------------------------------------
(* Nexus::do_child_retire, once the store is updated.                      *)

RetireDetached(c) ==
    /\ retire[c] = "detach" /\ Over("retire", c) /\ GoOn
    /\ retire' = [retire EXCEPT ![c] = "pausing"]
    /\ pausers' = pausers \union {c}
    /\ UNCHANGED <<childvars, logvars, data, chvars, io, online, update, shut, nstate,
                   frozen, jobvars, storevars>>

\* A paused nexus has no I/O left.
RetirePaused(c) ==
    /\ retire[c] = "pausing" /\ \A w \in Writes : ~Outstanding(w)
    /\ retire' = [retire EXCEPT ![c] = "paused"]
    /\ Traverse("disconnect", "retire", c)
    /\ UNCHANGED <<childvars, logvars, data, chvars, io, routines, jobvars, storevars>>

\* The device is queued to be destroyed, and the rebuild of the child is made
\* to fail: a job that has not started yet ignores that.
RetireDestroy(c) ==
    /\ retire[c] = "paused" /\ Over("retire", c) /\ GoOn
    /\ retire' = [retire EXCEPT ![c] = "resuming"]
    /\ dev' = [dev EXCEPT ![c] = IF @ = "open" THEN "closing" ELSE @]
    /\ job' = [job EXCEPT ![c] = IF @ = "running" THEN "failed" ELSE @]
    /\ UNCHANGED <<cstate, csync, logvars, data, chvars, io, routines, src, todo, storevars>>

\* The last one to resume leaves a faulted nexus frozen.
RetireResume(c) ==
    /\ retire[c] = "resuming"
    /\ retire' = [retire EXCEPT ![c] = "no"]
    /\ pausers' = pausers \ {c}
    /\ frozen' = (\/ frozen
                  \/ /\ pausers = {c} /\ nstate = "Open"
                     /\ \A d \in Children : ~IsHealthy(d))
    /\ UNCHANGED <<childvars, logvars, data, chvars, trav, io, online, update, shut, nstate,
                   jobvars, storevars>>

\* NexusChild::unplug, when the device goes: the child leaves the I/O path,
\* unless an I/O error has taken it out already.
Unplug(c) == IF cstate[c] = "IoError" THEN UNCHANGED trav ELSE Traverse("reconnect", "unplug", c)

\* close: the device goes, unless it is being closed already, and with it an open
\* child becomes closed; close_faulted makes it faulted whatever it was.
Gone(c) == [dev EXCEPT ![c] = IF @ = "open" THEN "gone" ELSE @]
Closed(c, to) ==
    /\ dev' = Gone(c)
    /\ cstate' = [cstate EXCEPT ![c] = IF \/ to = "Faulted"
                                          \/ @ = "Open" /\ dev[c] = "open" THEN to ELSE @]
    /\ IF dev[c] = "open" THEN Unplug(c) ELSE UNCHANGED trav

\* The update of a rebuild that is over is in the queue of the master core: the
\* device monitor, which looks every 10 ms, and an RPC that opens the child
\* again come after it.
UpdateQueued(c) == job[c] \in {"completed", "failed", "stopped"} /\ update[c] = "no"

\* device_monitor_loop closes a retired child.
CloseChild(c) ==
    /\ dev[c] = "closing" /\ ~UpdateQueued(c)
    /\ dev' = [dev EXCEPT ![c] = "gone"]
    /\ cstate' = [cstate EXCEPT ![c] = IF @ = "Open" THEN "Closed" ELSE @]
    /\ Unplug(c)
    /\ UNCHANGED <<csync, logvars, data, chvars, io, retire, routines, jobvars, storevars>>

-----------------------------------------------------------------------------
(* Nexus::try_self_shutdown, a routine of the master core.                 *)

First(S) == CHOOSE c \in S : \A d \in S : c <= d

\* Detach the devices of left one after the other, then abort frozen I/O.
NextOf(left) == [st |-> IF left = {} THEN "abort" ELSE "detach", left |-> left]
TraversalOf(left) == IF left = {} THEN Traversal("abort", "shutdown", 1)
                     ELSE Traversal("detach", "shutdown", First(left))

ShutdownStart ==
    /\ shut.st = "queued"
    /\ nstate' = "ShuttingDown"
    /\ LET left == {c \in Children : dev[c] # "gone"}
       IN shut' = NextOf(left) /\ trav' = Append(trav, TraversalOf(left))
    /\ UNCHANGED <<childvars, logvars, data, chvars, io, retire, online, update, pausers,
                   frozen, jobvars, storevars>>

ShutdownDetached ==
    /\ shut.st = "detach" /\ Over("shutdown", First(shut.left))
    /\ dev' = [dev EXCEPT ![First(shut.left)] = IF @ = "open" THEN "closing" ELSE @]
    /\ LET left == shut.left \ {First(shut.left)}
       IN shut' = NextOf(left) /\ trav' = Append(Tail(trav), TraversalOf(left))
    /\ UNCHANGED <<cstate, csync, logvars, data, chvars, io, retire, online, update, nstate,
                   pausers, frozen, jobvars, storevars>>

\* The rebuild jobs are stopped and the children closed: the nexus is down once
\* they are.
ShutdownAborted ==
    /\ shut.st = "abort" /\ Over("shutdown", 1) /\ GoOn
    /\ shut' = [shut EXCEPT !.st = "close"]
    /\ job' = [c \in Children |-> IF job[c] = "running" THEN "stopped" ELSE job[c]]
    /\ dev' = [c \in Children |-> IF dev[c] = "open" THEN "closing" ELSE dev[c]]
    /\ UNCHANGED <<cstate, csync, logvars, data, chvars, io, retire, online, update, nstate,
                   pausers, frozen, src, todo, storevars>>

ShutdownClosed ==
    /\ shut.st = "close" /\ \A c \in Children : dev[c] = "gone"
    /\ shut' = [shut EXCEPT !.st = "down"]
    /\ nstate' = "Shutdown"
    /\ UNCHANGED <<childvars, logvars, data, chvars, trav, io, retire, online, update,
                   pausers, frozen, jobvars, storevars>>

-----------------------------------------------------------------------------
(* Nexus::online_child and start_rebuild; RPCs of a nexus are serialised.  *)

NoRpc == \A c \in Children : online[c] = "no"
Allowed == nstate = "Open" /\ ~frozen       \* check_nexus_operation

\* The device is created and opened again, as out of sync.
OnlineChild(c) ==
    /\ "online" \in Events /\ NoRpc /\ Allowed
    /\ dev[c] = "gone" /\ cstate[c] \in {"Closed", "IoError", "Faulted"}
    /\ retire[c] = "no" /\ ~Traversing("unplug", c) /\ ~UpdateQueued(c)
    /\ dev' = [dev EXCEPT ![c] = "open"]
    /\ cstate' = [cstate EXCEPT ![c] = "Open"]
    /\ csync' = [csync EXCEPT ![c] = "OutOfSync"]
    /\ online' = [online EXCEPT ![c] = "opened"]
    /\ UNCHANGED <<logvars, data, chvars, trav, io, retire, update, shut, nstate, pausers,
                   frozen, jobvars, storevars>>

\* find_src_replica prefers a local child, so any healthy one may be it.
Sources(c) == {s \in Children \ {c} : IsHealthy(s)}

\* start_rebuild up to its reconfiguration: the job is created and stored, and
\* the child becomes a writer.
NewRebuild(c) ==
    /\ cstate[c] = "Open" /\ csync[c] = "OutOfSync" /\ job[c] = "none"
    /\ \E s \in Sources(c) : src' = [src EXCEPT ![c] = s]
    /\ job' = [job EXCEPT ![c] = "created"]
    /\ online' = [online EXCEPT ![c] = "connecting"]
    /\ Traverse("reconnect", "online", c)
    /\ UNCHANGED <<childvars, logvars, data, chvars, io, retire, update, shut, nstate,
                   pausers, frozen, todo, storevars>>

StartRebuild(c) == online[c] \in {"opened", "added"} /\ NewRebuild(c)

\* The start_rebuild RPC, for a child whose rebuild was stopped.
RestartRebuild(c) == "stop" \in Events /\ NoRpc /\ NewRebuild(c)

\* There is nothing to rebuild or to rebuild from: the child is closed again,
\* by add_child as a faulted one.
StartRebuildFails(c) ==
    /\ online[c] \in {"opened", "added"}
    /\ \/ Sources(c) = {} \/ job[c] # "none"
       \/ cstate[c] # "Open" \/ csync[c] # "OutOfSync"
    /\ online' = [online EXCEPT ![c] = "no"]
    /\ Closed(c, IF online[c] = "added" THEN "Faulted" ELSE "Closed")
    /\ UNCHANGED <<csync, logvars, data, chvars, io, retire, update, shut, nstate,
                   pausers, frozen, jobvars, storevars>>

\* All channels are reconfigured: the log is stopped and becomes the map of
\* what the job has to copy; without a log that is everything.
StopIoLog(c) ==
    /\ online[c] = "connecting" /\ Over("online", c) /\ GoOn
    /\ online' = [online EXCEPT ![c] = "no"]
    /\ todo' = [todo EXCEPT ![c] = IF c \in logging THEN logged[c] ELSE Writes]
    /\ logging' = logging \ {c}
    /\ logged' = [logged EXCEPT ![c] = {}]
    /\ job' = [job EXCEPT ![c] = IF @ = "created" THEN "running" ELSE @]
    /\ UNCHANGED <<childvars, data, chvars, io, retire, update, shut, nstate, pausers, frozen,
                   src, storevars>>

-----------------------------------------------------------------------------
(* The rebuild job of c, as RebuildJob and its backend have it.            *)

\* Mutant: the range is not locked.
CopySegmentUnlocked(c, w) ==
    /\ job[c] = "running" /\ w \in todo[c]
    /\ dev[c] # "gone" /\ dev[src[c]] # "gone"
    /\ todo' = [todo EXCEPT ![c] = @ \ {w}]
    /\ data' = [data EXCEPT ![c] = IF w \in data[src[c]] THEN @ \union {w} ELSE @ \ {w}]
    /\ UNCHANGED <<childvars, logvars, chvars, trav, io, retire, routines, job, src,
                   storevars>>

\* A segment is copied while its range is locked: no I/O to it is under way.
CopySegment(c, w) ==
    /\ job[c] = "running" /\ w \in todo[c]
    /\ dev[c] # "gone" /\ dev[src[c]] # "gone" /\ ~Outstanding(w)
    /\ todo' = [todo EXCEPT ![c] = @ \ {w}]
    /\ data' = [data EXCEPT ![c] = IF w \in data[src[c]] THEN @ \union {w} ELSE @ \ {w}]
    /\ UNCHANGED <<childvars, logvars, chvars, trav, io, retire, routines, job, src,
                   storevars>>

\* The job ends: all is copied, a copy fails, or an RPC stops it.
JobEnds(c) ==
    /\ job[c] = "running"
    /\ \/ todo[c] = {} /\ job' = [job EXCEPT ![c] = "completed"]
       \/ /\ todo[c] # {}
          /\ {c, src[c]} \intersect Faulty # {}
          /\ job' = [job EXCEPT ![c] = "failed"]
       \/ "stop" \in Events /\ job' = [job EXCEPT ![c] = "stopped"]
    /\ UNCHANGED <<childvars, logvars, data, chvars, trav, io, retire, routines, src, todo,
                   storevars>>

\* The job of c is removed, and the channels are reconfigured.
RemoveJob(c) ==
    /\ job' = [job EXCEPT ![c] = "none"]
    /\ Traverse("reconnect", "update", c)

\* on_rebuild_update.  A child that is healthy now is recorded as such before
\* its job is removed; the child of a failed job is closed and faulted.
RebuildUpdate(c) ==
    /\ UpdateQueued(c) /\ ~Traversing("update", c)
    /\ \/ /\ job[c] = "completed" /\ cstate[c] = "Open"
          /\ csync' = [csync EXCEPT ![c] = "Synced"]
          /\ update' = [update EXCEPT ![c] = "persist"]
          /\ UNCHANGED <<cstate, dev, job, trav>>
       \/ /\ job[c] = "completed" /\ cstate[c] # "Open"
          /\ csync' = [csync EXCEPT ![c] = "Synced"]
          /\ RemoveJob(c)
          /\ UNCHANGED <<cstate, dev, update>>
       \/ /\ job[c] = "stopped"
          /\ RemoveJob(c)
          /\ UNCHANGED <<childvars, update>>
       \/ /\ job[c] = "failed"
          /\ dev' = Gone(c)
          /\ cstate' = [cstate EXCEPT ![c] = "Faulted"]
          /\ RemoveJob(c)
          /\ UNCHANGED <<csync, update>>
    /\ UNCHANGED <<logvars, data, chvars, io, retire, online, shut, nstate, pausers, frozen,
                   src, todo, storevars>>

-----------------------------------------------------------------------------
IoStep ==
    \E w \in Writes :
        \/ \E k \in Cores : Submit(w, k)
        \/ Resubmit(w)
        \/ \E c \in Children : CompleteOk(w, c) \/ CompleteError(w, c)

ChildStep ==
    \E c \in Children :
        \/ AdminFailed(c)
        \/ \E own \in {"retire", "update"} : PersistLock(own, c)
        \/ RetireDetached(c) \/ RetirePaused(c) \/ RetireDestroy(c) \/ RetireResume(c)
        \/ CloseChild(c)
        \/ OnlineChild(c) \/ RestartRebuild(c) \/ StartRebuild(c) \/ StartRebuildFails(c)
        \/ StopIoLog(c)
        \/ \E w \in Writes : CopySegment(c, w)
        \/ JobEnds(c) \/ RebuildUpdate(c)

NexusStep ==
    \/ \E k \in Cores : Hop(k)
    \/ PersistModify \/ PersistSaved \/ PersistFailed \/ PersistDone
    \/ ShutdownStart \/ ShutdownDetached \/ ShutdownAborted \/ ShutdownClosed
    \/ Republish

Next == IoStep \/ ChildStep \/ NexusStep

Spec == Init /\ [][Next]_vars

\* Reactors poll their queues and devices answer: every step of the code that
\* can be taken is, and a core comes to a message however often it is busy
\* submitting an I/O again.  What the environment does is left to it.
Fairness ==
    /\ \A k \in Cores : SF_vars(Hop(k))
    /\ \A w \in Writes : WF_vars(Resubmit(w))
    /\ \A w \in Writes, c \in Children : SF_vars(CompleteOk(w, c) \/ CompleteError(w, c))
    /\ \A c \in Children :
        /\ \A own \in {"retire", "update"} : SF_vars(PersistLock(own, c))
        /\ WF_vars(RetireDetached(c)) /\ WF_vars(RetirePaused(c))
        /\ WF_vars(RetireDestroy(c)) /\ WF_vars(RetireResume(c)) /\ WF_vars(CloseChild(c))
    /\ WF_vars(PersistModify) /\ WF_vars(PersistSaved \/ PersistFailed) /\ WF_vars(PersistDone)
    /\ WF_vars(ShutdownStart) /\ WF_vars(ShutdownDetached)
    /\ WF_vars(ShutdownAborted) /\ WF_vars(ShutdownClosed)

FairSpec == Spec /\ Fairness

-----------------------------------------------------------------------------
(* Properties.                                                             *)

ChildStates == {"Open", "Closed", "IoError", "Faulted", "CantOpen"}
Traversals ==
    [op : {"Freeze", "Normal", "detach", "disconnect", "reconnect", "relog", "abort"},
     own : {"persist", "retire", "online", "update", "unplug", "shutdown", "relog"},
     child : Children, at : 1..(NumCores + 1)]
Ios == [st : {"new", "ready", "sub", "frozen", "acked", "failed"}, core : Cores,
        sent : SUBSET Children, ok : BOOLEAN, bad : BOOLEAN]
Records == [healthy : SUBSET Children, dss : BOOLEAN]
Persists == [st : {"idle", "freezing", "saving", "thawing"}, own : {"none", "retire", "update"},
             child : Children, expect : SUBSET Children]
Shuts == [st : {"no", "queued", "detach", "abort", "close", "down"}, left : SUBSET Children]

\* The values the variables take; only a write that is submitted is with
\* children, and a traversal that is over is waited for.
ChildTypes ==
    /\ cstate \in [Children -> ChildStates]
    /\ csync \in [Children -> {"Synced", "OutOfSync"}]
    /\ dev \in [Children -> {"open", "closing", "gone"}]
LogTypes == logging \subseteq Children /\ logged \in [Children -> SUBSET Writes]
DataTypes == data \in [Children -> SUBSET Writes]
ChannelTypes ==
    /\ readers \in [Cores -> SUBSET Children] /\ writers \in [Cores -> SUBSET Children]
    /\ logs \in [Cores -> SUBSET Children]
    /\ mode \in [Cores -> {"Normal", "Freeze"}]
TraversalTypes ==
    /\ trav \in Seq(Traversals)
    /\ \A i \in 1..Len(trav) : trav[i].at = NumCores + 1 => trav[i].own \in Awaited
IoTypes ==
    /\ io \in [Writes -> Ios]
    /\ \A w \in Writes : io[w].st = "sub" <=> io[w].sent # {}
RetireTypes ==
    retire \in [Children -> {"no", "persist", "saving", "detach", "pausing", "paused", "resuming"}]
RoutineTypes ==
    /\ online \in [Children -> {"no", "opened", "added", "connecting"}]
    /\ update \in [Children -> {"no", "persist", "saving", "error"}]
    /\ shut \in Shuts
    /\ nstate \in {"Open", "ShuttingDown", "Shutdown"}
    /\ pausers \subseteq Children /\ frozen \in BOOLEAN
JobTypes ==
    /\ job \in [Children -> {"none", "created", "running", "completed", "failed", "stopped"}]
    /\ src \in [Children -> Children]
    /\ todo \in [Children -> SUBSET Writes]
StoreTypes ==
    /\ persist \in Persists
    /\ info \in Records /\ store \in Records /\ taken \subseteq Children
TypeOK ==
    /\ ChildTypes /\ LogTypes /\ DataTypes /\ ChannelTypes /\ TraversalTypes /\ IoTypes
    /\ RetireTypes /\ RoutineTypes /\ JobTypes /\ StoreTypes

Acked == {w \in Writes : io[w].st = "acked"}

\* do_child_retire marks a child in the store before it takes it off the
\* channels: a write that was acknowledged is on every child the store has as
\* healthy, from which the control plane puts the nexus together after a crash.
AckedOnHealthy == \A c \in store.healthy : Acked \subseteq data[c]

\* persist gives way to a republish (the comparison in save_txn): a write this
\* nexus acknowledges is on every child another nexus was given.
AckedOnTaken == \A c \in taken : Acked \subseteq data[c]

\* Whoever puts the nexus together again, after a crash or elsewhere, finds on
\* every child it may use what was acknowledged.
AckedIsKept == AckedOnHealthy /\ AckedOnTaken

\* A child that is open and in sync, from which the nexus rebuilds others, has
\* every acknowledged write, whether it never failed or was rebuilt.
HealthyHasAcked == \A c \in Children : IsHealthy(c) => Acked \subseteq data[c]

\* While a child has an I/O log, what was acknowledged without it is in the
\* log: a rebuild from the log brings the child up to date.
MissedIsLogged == \A c \in logging : Acked \ data[c] \subseteq logged[c]

\* child_retire_persist keeps the last healthy child: whichever children fail
\* together, and whatever becomes of the store's answers, the store has a child
\* from which the nexus can be put together again.
SomeHealthyRecorded == store.healthy # {}

\* A failing child is taken out: a write, however often it is submitted again
\* or frozen, is acknowledged or failed in the end.
WriteAnswered ==
    \A w \in Writes : Outstanding(w) ~> io[w].st \in {"acked", "failed"}
=============================================================================
