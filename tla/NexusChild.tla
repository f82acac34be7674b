------------------------------ MODULE NexusChild ------------------------------
(***************************************************************************)
(* The life of one child of a nexus (nexus_child.rs): it is opened, faults *)
(* or is hot-removed, is retired by the device monitor, is closed, brought *)
(* back online, removed.  A close destroys the block device and waits for  *)
(* the removal event that the destruction raises: the event is delivered   *)
(* to whoever listens to the device, its handler unplugs the child, and    *)
(* the unplug answers the close through a channel of two messages.         *)
(*                                                                         *)
(* All of this runs on the master core: an action is what a future does    *)
(* between two awaits.  The device is of one of two kinds.  A "nvme"       *)
(* device is a controller connected to a remote replica: every connection  *)
(* is a new device with listeners of its own.  A "loopback" device is a    *)
(* local bdev: destroying it only raises the event, and listeners are kept *)
(* by name, whatever happens to the bdev.                                  *)
(***************************************************************************)
EXTENDS Naturals, Sequences, SequencesExt

CONSTANTS
  Kinds,      \* the kinds of device the child may have
  MaxGens,    \* bound on the devices that are created for the child
  MaxRpcs,    \* for each kind, a bound on the requests to online, fault or remove
  MaxHot      \* bound on hot removals

VARIABLES
  kind,       \* which kind of device the child's URI names
  device,     \* the device: which one, whether it exists, its listeners
  child,      \* NexusChild
  channel,    \* NexusChild::remove_channel
  removals,   \* child_remove_routine() futures that are to run
  unplugs,    \* unplug() futures that wait
  close,      \* the close() that owns the destroy state
  retires,    \* RetireDevice commands on their way to the device monitor
  job,        \* the rebuild job of the child
  rpc,        \* where the current request is
  rpcs, hots, \* how many requests and hot removals there have been
  dangling,   \* whether the child was dropped while a future refers to it
  gaveUp      \* whether a close() returned without its answer

childVars == <<kind, device, child, channel, removals, unplugs, close, retires, job, rpc, rpcs,
               hots, dangling, gaveUp>>

Capacity == 2       \* the bound of remove_channel

Recoverable == {"NoSpace", "TimedOut", "IoError", "Offline", "AdminCommandFailed",
                "RebuildFailed", "HotRemove"}
Faults == Recoverable \cup {"Unknown", "CantOpen", "OfflinePermanent"}
ChildStates == {"Init", "ConfigInvalid", "Open", "Closed"} \cup Faults

\* ChildState::is_recoverable() and ChildState::is_open_or_init().
IsRecoverable(st) == st \in Recoverable \cup {"Closed"}
IsOpenOrInit(st) == st \in {"Open", "Init", "ConfigInvalid"}

\* No close() is running.  by says who called it and told whether the
\* destruction of the device reached a listener; clean, whether no earlier
\* removal was on its way when it started.
NoClose == [pc |-> "idle", by |-> "none", told |-> FALSE, clean |-> FALSE]

\* A child of a nexus that has been created, or that was added and rebuilds.
NewChild(job0) == [st |-> "Open", synced |-> job0 = "none", destroying |-> FALSE, dev |-> TRUE,
                   desc |-> 1]

Init ==
  /\ kind \in Kinds
  /\ device = [gen |-> 1, exists |-> TRUE, removing |-> FALSE, listeners |-> 1]
  /\ channel = <<>>
  /\ removals = 0
  /\ unplugs = <<>>
  /\ close = NoClose
  /\ retires = 0
  /\ job \in {"none", "running"}
  /\ child = NewChild(job)
  /\ rpc = "idle"
  /\ rpcs = 0
  /\ hots = 0
  /\ dangling = FALSE
  /\ gaveUp = FALSE

-----------------------------------------------------------------------------
(* The device.                                                             *)

\* Every listener of the device posts a child_remove_routine().
Notify == removals' = removals + device.listeners

\* set_event_listener(): a nexus that already listens is told twice.
Listening(d) == [d EXCEPT !.listeners = @ + 1]

\* The reactor starts futures in the order in which they were sent: one that
\* is sent now starts after the removal routines.
Started == removals = 0

\* The namespace of the controller goes away, or the bdev is unregistered:
\* the device stays until it is destroyed or, a bdev, until it is closed.
HotRemove ==
  /\ hots < MaxHot
  /\ device.exists /\ ~device.removing
  /\ hots' = hots + 1
  /\ Notify
  /\ device' = [device EXCEPT !.removing = TRUE,
                              !.exists = kind = "nvme" \/ child.desc = device.gen]
  /\ UNCHANGED <<kind, gaveUp, child, channel, unplugs, close, retires, job, rpc, rpcs, dangling>>

\* The child drops its descriptor, the last user of a bdev that is removed.
DropDescriptor(c) ==
  /\ child' = [c EXCEPT !.desc = 0]
  /\ device' = [device EXCEPT !.exists =
                  @ /\ ~(kind = "loopback" /\ device.removing /\ c.desc = device.gen)]

-----------------------------------------------------------------------------
(* Faulting and retiring.                                                  *)

\* retire_child_device(): the first fault of an open child sends the retire
\* routine, which fails the rebuild job and gives the device monitor a
\* command.  The time the routine takes is part of the wait in the queue.
Retire(reason) ==
  IF child.st = "Open"
    THEN /\ child' = [child EXCEPT !.st = reason]
         /\ retires' = retires + 1
         /\ job' = IF job = "running" THEN "failed" ELSE job
    ELSE UNCHANGED <<child, retires, job>>

\* An I/O fails: a child takes part in I/O once it is synced or rebuilding.
IoFault ==
  /\ child.st = "Open"
  /\ child.synced \/ job = "running"
  /\ Retire("IoError")
  /\ UNCHANGED <<kind, gaveUp, device, channel, removals, unplugs, close, rpc, rpcs, hots, dangling>>

\* unplug_complete() reads the descriptor and sends.
Completing(desc) == [flag |-> FALSE, at |-> "send", msg |-> desc = 0]

\* Mutant: a child that faulted is left alone, and nobody is answered.
UnplugOpenOnly ==
  /\ child.st # "IoError"
  /\ child' = [child EXCEPT !.dev = @ /\ ~child.destroying,
                            !.st = IF @ = "Open" THEN "Closed" ELSE @]
  /\ unplugs' = Append(unplugs, [flag |-> child.destroying, at |-> "reconfigure", msg |-> FALSE])
  /\ UNCHANGED device

\* Mutant: the state is left to the close, which does not set it.
UnplugKeepsState ==
  /\ child' = [child EXCEPT !.dev = @ /\ ~child.destroying]
  /\ unplugs' = Append(unplugs, [flag |-> child.destroying, at |-> "reconfigure", msg |-> FALSE])
  /\ UNCHANGED device

\* What unplug() does before it first waits.  A child that faulted on an I/O
\* error is out of the I/O path already and needs no reconfigure().
Unplug ==
  LET c == [child EXCEPT !.dev = @ /\ ~child.destroying,
                         !.st = IF @ = "Open" THEN "Closed" ELSE @] IN
  \/ /\ child.st # "IoError"
     /\ child' = c
     /\ unplugs' = Append(unplugs, [flag |-> child.destroying, at |-> "reconfigure",
                                    msg |-> FALSE])
     /\ UNCHANGED device
  \/ /\ child.st = "IoError" /\ child.destroying
     /\ DropDescriptor(c)
     /\ unplugs' = Append(unplugs, Completing(0))
  \/ /\ child.st = "IoError" /\ ~child.destroying
     /\ child' = c
     /\ unplugs' = Append(unplugs, Completing(c.desc))
     /\ UNCHANGED device

\* hot_removed(): the child was in use and nobody is destroying it.
HotRemoved == child.st = "Open" /\ ~child.destroying

\* child_remove_routine(): a removal that nobody intended is a fault, any
\* other one unplugs the child.
RemoveRoutine ==
  /\ removals > 0
  /\ removals' = removals - 1
  /\ \/ ~child.dev /\ UNCHANGED <<child, retires, job, unplugs, device>>
     \/ child.dev /\ HotRemoved /\ Retire("HotRemove") /\ UNCHANGED <<unplugs, device>>
     \/ child.dev /\ ~HotRemoved /\ Unplug /\ UNCHANGED <<retires, job>>
  /\ UNCHANGED <<kind, gaveUp, channel, close, rpc, rpcs, hots, dangling>>

\* reconfigure() has returned.
UnplugReconfigured(i) ==
  /\ unplugs[i].at = "reconfigure"
  /\ \/ /\ unplugs[i].flag
        /\ DropDescriptor(child)
        /\ unplugs' = [unplugs EXCEPT ![i] = Completing(0)]
     \/ /\ ~unplugs[i].flag
        /\ unplugs' = [unplugs EXCEPT ![i] = Completing(child.desc)]
        /\ UNCHANGED <<child, device>>
  /\ UNCHANGED <<kind, gaveUp, channel, removals, close, retires, job, rpc, rpcs, hots, dangling>>

\* The message goes into the channel when there is room for it.
UnplugComplete(i) ==
  /\ unplugs[i].at = "send"
  /\ Len(channel) < Capacity
  /\ channel' = Append(channel, unplugs[i].msg)
  /\ unplugs' = RemoveAt(unplugs, i)
  /\ UNCHANGED <<kind, gaveUp, device, child, removals, close, retires, job, rpc, rpcs, hots, dangling>>

-----------------------------------------------------------------------------
(* close(): whoever finds the destroy state free destroys the device and   *)
(* waits for the unplug, anyone else returns at once.                      *)

CloseReturnsAtOnce ==
  \/ child.destroying
  \/ ~child.dev
  \/ kind = "nvme" /\ ~device.exists      \* device_destroy() fails

Clean == channel = <<>> /\ unplugs = <<>> /\ removals = 0

\* close() up to its first await.
CloseStart(by) ==
  /\ ~CloseReturnsAtOnce
  /\ child' = [child EXCEPT !.destroying = TRUE]
  /\ \/ /\ kind = "nvme"
        /\ close' = [pc |-> "shutdown", by |-> by, told |-> FALSE, clean |-> Clean]
        /\ UNCHANGED removals
     \/ /\ kind = "loopback" /\ device.exists
        /\ close' = [pc |-> "recv", by |-> by, told |-> device.listeners > 0, clean |-> Clean]
        /\ Notify
     \/ /\ kind = "loopback" /\ ~device.exists
        /\ close' = [pc |-> "recv", by |-> by, told |-> FALSE, clean |-> Clean]
        /\ UNCHANGED removals

\* destroy_device(): the controller is shut down, the listeners are told,
\* and the controller is dropped.
CloseShutdown ==
  /\ close.pc = "shutdown"
  /\ device' = [device EXCEPT !.exists = FALSE]
  /\ Notify
  /\ close' = [close EXCEPT !.pc = "recv", !.told = device.listeners > 0]
  /\ UNCHANGED <<kind, gaveUp, child, channel, unplugs, retires, job, rpc, rpcs, hots, dangling>>

\* The futures that refer to the child, other than a close of its remover.
Referenced(by) == unplugs # <<>> \/ (close.pc # "idle" /\ close.by # by)

\* remove_child() drops the child, and with it the device and the descriptor.
DropChild ==
  /\ DropDescriptor([child EXCEPT !.st = "Gone", !.destroying = FALSE, !.dev = FALSE])
  /\ dangling' = Referenced("remove")

\* What the caller does with the child c once its close() has returned.
AfterClose(by, c) ==
  CASE by = "remove" -> DropChild /\ rpc' = "idle" /\ UNCHANGED job
    [] by = "online" -> child' = c /\ rpc' = "idle" /\ UNCHANGED <<device, dangling, job>>
    [] by = "job" -> /\ child' = [c EXCEPT !.st = "RebuildFailed"]
                     /\ job' = "none"
                     /\ UNCHANGED <<device, dangling, rpc>>
    [] by = "monitor" -> child' = c /\ UNCHANGED <<device, dangling, rpc, job>>

CloseEnds ==
  /\ close' = NoClose
  /\ AfterClose(close.by, [child EXCEPT !.destroying = FALSE])

\* An unplug that left the descriptor in place is not the one to wait for.
CloseRecv ==
  /\ close.pc \in {"recv", "poll"}
  /\ channel # <<>>
  /\ channel' = Tail(channel)
  /\ \/ Head(channel) /\ CloseEnds
     \/ /\ ~Head(channel)
        /\ close' = [close EXCEPT !.pc = "poll"]
        /\ UNCHANGED <<child, device, job, rpc, dangling>>
  /\ UNCHANGED <<kind, gaveUp, removals, unplugs, retires, rpcs, hots>>

\* Twenty tries are over: the close returns all the same.
CloseGivesUp ==
  /\ close.pc = "poll"
  /\ channel = <<>>
  /\ gaveUp' = TRUE
  /\ CloseEnds
  /\ UNCHANGED <<kind, channel, removals, unplugs, retires, rpcs, hots>>

\* A caller's close().
Close(by) ==
  \/ /\ CloseReturnsAtOnce
     /\ AfterClose(by, child)
     /\ UNCHANGED <<close, removals>>
  \/ /\ CloseStart(by)
     /\ rpc' = IF by \in {"remove", "online"} THEN "closing" ELSE rpc
     /\ UNCHANGED <<device, dangling, job>>

\* The device monitor runs its commands one at a time.
MonitorCloses ==
  /\ Started
  /\ retires > 0
  /\ close.by # "monitor"
  /\ retires' = retires - 1
  /\ IF child.dev THEN Close("monitor")
     ELSE UNCHANGED <<device, child, removals, close, job, rpc, dangling>>
  /\ UNCHANGED <<kind, gaveUp, channel, unplugs, rpcs, hots>>

-----------------------------------------------------------------------------
(* The rebuild job.                                                        *)

\* It completes, is stopped by the request that is to come, or fails.
JobEnds ==
  /\ job = "running"
  /\ \/ job' = "none" /\ child' = [child EXCEPT !.synced = TRUE]
     \/ job' = "none" /\ UNCHANGED child
     \/ job' = "failed" /\ UNCHANGED child
  /\ UNCHANGED <<kind, gaveUp, device, channel, removals, unplugs, close, retires, rpc, rpcs, hots,
                 dangling>>

\* on_rebuild_update() of a job that failed: close_faulted().
JobFailed ==
  /\ job = "failed"
  /\ close.by # "job"
  /\ Close("job")
  /\ UNCHANGED <<kind, gaveUp, channel, unplugs, retires, rpcs, hots>>

-----------------------------------------------------------------------------
(* Requests, one at a time.                                                *)

Request ==
  /\ Started
  /\ rpc = "idle"
  /\ rpcs < MaxRpcs[kind]
  /\ child.st # "Gone"
  /\ rpcs' = rpcs + 1

\* fault_child(), once the job that rebuilds the child has been stopped.
FaultChild(reason) ==
  /\ Request
  /\ child.dev
  /\ job # "running"
  /\ Retire(reason)
  /\ UNCHANGED <<kind, gaveUp, device, channel, removals, unplugs, close, rpc, hots, dangling>>

\* remove_child(), from the moment the nexus is paused and the store updated.
RemoveChild ==
  /\ Request
  /\ Close("remove")
  /\ UNCHANGED <<kind, gaveUp, channel, unplugs, retires, hots>>

\* open() of the child c on the device d; then the reservation is acquired,
\* which a bdev does without waiting.
Open(c, d) ==
  \/ /\ c.destroying \/ c.st = "Open" \/ ~IsRecoverable(c.st)
     /\ child' = c /\ device' = d
     /\ rpc' = "idle"
  \/ /\ ~c.destroying /\ c.st # "Open" /\ IsRecoverable(c.st)
     /\ \/ /\ child' \in {[c EXCEPT !.st = "ConfigInvalid"], [c EXCEPT !.st = "CantOpen"]}
           /\ device' = d
           /\ rpc' = "idle"
        \/ /\ ~d.removing
           /\ child' = [c EXCEPT !.st = "Open", !.synced = FALSE, !.desc = d.gen]
           /\ \/ kind = "nvme" /\ device' = d /\ rpc' = "reserve"
              \/ kind = "loopback" /\ device' = Listening(d) /\ rpc' = "rebuild"

\* online_child() and online() up to their first await.  A controller with
\* the name of one that still exists is refused; a bdev is opened at once.
OnlineChild ==
  /\ Request
  /\ ~IsOpenOrInit(child.st)
  /\ ~child.destroying
  /\ IsRecoverable(child.st)
  /\ \/ /\ kind = "nvme" /\ ~device.exists /\ device.gen < MaxGens
        /\ rpc' = "create"
        /\ UNCHANGED <<device, child>>
     \/ /\ kind = "loopback" /\ device.exists
        /\ Open([child EXCEPT !.dev = TRUE], device)
  /\ UNCHANGED <<kind, gaveUp, channel, removals, unplugs, close, retires, job, hots, dangling>>

\* The controller has been connected, or not.
OnlineCreated ==
  /\ rpc = "create"
  /\ \/ rpc' = "idle" /\ UNCHANGED <<device, child>>
     \/ Open([child EXCEPT !.dev = TRUE],
             [gen |-> device.gen + 1, exists |-> TRUE, removing |-> FALSE, listeners |-> 0])
  /\ UNCHANGED <<kind, gaveUp, channel, removals, unplugs, close, retires, job, rpcs, hots, dangling>>

\* The reservation on the controller has been acquired, or not.
OnlineReserved ==
  /\ rpc = "reserve"
  /\ \/ Close("online")
     \/ /\ child.dev
        /\ device' = Listening(device)
        /\ rpc' = "rebuild"
        /\ UNCHANGED <<child, removals, close, job, dangling>>
  /\ UNCHANGED <<kind, gaveUp, channel, unplugs, retires, rpcs, hots>>

\* start_rebuild() may fail, and does when the child or a job is in the way.
OnlineRebuild ==
  /\ rpc = "rebuild"
  /\ \/ Close("online")
     \/ /\ child.st = "Open" /\ ~child.synced /\ job = "none"
        /\ job' = "running"
        /\ rpc' = "idle"
        /\ UNCHANGED <<device, child, removals, close, dangling>>
  /\ UNCHANGED <<kind, gaveUp, channel, unplugs, retires, rpcs, hots>>

\* A bdev that was removed comes back: its pool is imported again.
BdevReturns ==
  /\ kind = "loopback"
  /\ ~device.exists
  /\ device.gen < MaxGens
  /\ device' = [device EXCEPT !.gen = @ + 1, !.exists = TRUE, !.removing = FALSE]
  /\ UNCHANGED <<kind, gaveUp, child, channel, removals, unplugs, close, retires, job, rpc, rpcs, hots,
                 dangling>>

-----------------------------------------------------------------------------
Requests ==
  \/ OnlineChild \/ RemoveChild
  \/ \E reason \in {"Offline", "OfflinePermanent"} : FaultChild(reason)

Unplugging ==
  \/ RemoveRoutine
  \/ \E i \in DOMAIN unplugs : UnplugReconfigured(i) \/ UnplugComplete(i)

Closing == CloseShutdown \/ CloseRecv \/ CloseGivesUp
Onlining == OnlineCreated \/ OnlineReserved \/ OnlineRebuild

Next ==
  /\ ~dangling
  /\ \/ Requests \/ Unplugging \/ Closing \/ Onlining \/ MonitorCloses
     \/ JobEnds \/ JobFailed \/ IoFault \/ HotRemove \/ BdevReturns

Spec == Init /\ [][Next]_childVars

\* The reactor runs every future that can go on.
Fairness ==
  /\ WF_childVars(~dangling /\ Unplugging)
  /\ WF_childVars(~dangling /\ Closing)
  /\ WF_childVars(~dangling /\ Onlining)
  /\ WF_childVars(~dangling /\ MonitorCloses)
FairSpec == Spec /\ Fairness

-----------------------------------------------------------------------------
\* Every variable has its type, and the channel holds two messages at most.
TypeOK ==
  /\ kind \in {"nvme", "loopback"}
  /\ device \in [gen : 1..MaxGens, exists : BOOLEAN, removing : BOOLEAN, listeners : Nat]
  /\ child \in [st : ChildStates \cup {"Gone"}, synced : BOOLEAN, destroying : BOOLEAN,
                dev : BOOLEAN, desc : 0..MaxGens]
  /\ channel \in BoundedSeq(BOOLEAN, Capacity)
  /\ removals \in Nat
  /\ close.pc \in {"idle", "shutdown", "recv", "poll"}
  /\ rpc \in {"idle", "create", "reserve", "rebuild", "closing"}
  /\ job \in {"none", "running", "failed"}

\* The asserts of open(): a child that is open has its device and descriptor.
OpenHasDescriptor ==
  child.st = "Open" => (child.dev /\ child.desc # 0) \/ gaveUp

\* No future outlives the child it refers to.
ReferencesLive == ~dangling

\* The destroy state is taken exactly while a close() runs.
DestroyingIsOwned == dangling \/ (child.destroying <=> close.pc # "idle")

\* The expect() of set_event_listener(): a child that is brought online still
\* has its device when the nexus comes to listen to it.
OnlinedHasDevice == rpc = "reserve" => child.dev \/ gaveUp

\* What open(), close() and the requests that bring a child online assert of
\* it.
ChildIsSound == OpenHasDescriptor /\ DestroyingIsOwned /\ OnlinedHasDevice

\* A close() that started with no earlier removal on its way and got its answer
\* has released the descriptor, whatever faults, removals and requests came in
\* between.
ReleasedOnReturn ==
  close.told /\ close.clean /\ close'.pc = "idle" /\ ~gaveUp' => child'.desc = 0

\* Every close() that told a listener returns, with the device released.
CloseReturns ==
  /\ (close.pc # "idle" /\ close.told) ~> (close.pc = "idle" \/ dangling)
  /\ [][ReleasedOnReturn]_childVars
=============================================================================
