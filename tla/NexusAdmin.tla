------------------------------- MODULE NexusAdmin -------------------------------
(***************************************************************************)
(* The life of a nexus as its administration sees it: it is created,       *)
(* shut down and destroyed, its children are added, onlined, removed and   *)
(* faulted, snapshots are taken and its children reset (nexus_bdev.rs,     *)
(* nexus_bdev_children.rs, nexus_bdev_rebuild.rs, nexus_bdev_snapshot.rs,  *)
(* grpc/v1/nexus.rs).                                                      *)
(*                                                                         *)
(* The RPCs on one nexus are serialised, so one process stands for all of  *)
(* them.  The routines the engine starts by itself are not: retiring a     *)
(* child, updating the nexus after a rebuild, the self-shutdown that a     *)
(* failed save of the nexus information asks for, and the reset that       *)
(* follows the loss of the initiator.  All run on the master core, so an   *)
(* action is what a future does between two awaits.                        *)
(*                                                                         *)
(* Pausing the nexus is a counter here (NexusIoSubsystem has the details;  *)
(* pause() never returns an error), closing a child one step (NexusChild). *)
(***************************************************************************)
EXTENDS Integers, FiniteSets, FiniteSetsExt

CONSTANTS
    Children,   \* URIs of possible children
    First,      \* the children a nexus is created with
    Ops,        \* the RPCs that are called
    MaxRpcs,    \* bound on the RPCs
    MaxGens,    \* bound on the times the nexus is created
    MaxEvents   \* bound on children failing, initiators lost and saves that fail

VARIABLES
    state,      \* Nexus::state, "None" when there is no such nexus
    listed,     \* the nexus bdev is registered: nexus_lookup finds it
    gens,       \* how often the nexus has been created
    members,    \* Nexus::children
    cs,         \* state of the children: closed, healthy, unsync or faulted
    info,       \* NexusInfo: what is on record of each child
    job,        \* the rebuild job of each destination in NexusRebuildJob's registry
    src,        \* the source of each job
    upd,        \* the update of the nexus after a job
    pauses,     \* pauses that have not been resumed
    frozen,     \* the I/O subsystem is Frozen
    rpc,        \* the RPC under way
    shut,       \* the self-shutdown
    reset,      \* the reset of the children
    retire,     \* how many retire routines of each child are at each of their awaits
    budget,     \* what is left of the bounds
    panicked,   \* a RebuildPauseGuard was dropped before its resume: the engine stops
    dangling    \* ghost: a routine has to go on with a nexus or child that is gone

nexusVars == <<state, listed, gens, members, cs, info>>
jobVars == <<job, src, upd>>
ioVars == <<pauses, frozen>>
ghosts == <<panicked, dangling>>
adminVars == <<state, listed, gens, members, cs, info, job, src, upd, pauses, frozen,
               rpc, shut, reset, retire, budget, panicked, dangling>>

RetireSteps == {"asked", "detach", "held"}
NoInfo == [c \in Children |-> "absent"]
Idle == [op |-> "none", pc |-> "idle", c |-> "none", cancelled |-> {}]

Init ==
    /\ state = "None" /\ listed = FALSE /\ gens = 0 /\ members = {} /\ info = NoInfo
    /\ cs = [c \in Children |-> "closed"]
    /\ job = [c \in Children |-> "none"]
    /\ src = [c \in Children |-> "none"]
    /\ upd = [c \in Children |-> "no"]
    /\ pauses = 0 /\ frozen = FALSE
    /\ rpc = Idle /\ shut = "no" /\ reset = "no"
    /\ retire = [c \in Children |-> [at \in RetireSteps |-> 0]]
    /\ budget = [rpcs |-> MaxRpcs, events |-> MaxEvents]
    /\ panicked = FALSE /\ dangling = FALSE

Spend(what) == budget[what] > 0 /\ budget' = [budget EXCEPT ![what] = @ - 1]

-----------------------------------------------------------------------------
(* What the routines ask of the nexus.                                     *)

Opened(c) == cs[c] \in {"healthy", "unsync"}
Healthy == {c \in members : cs[c] = "healthy"}

\* Nexus::status, as far as resume() looks at it.
Faulted == state \in {"Open", "Reconfiguring"} /\ Healthy = {}

\* check_nexus_operation: not during a shutdown, not while I/O is frozen.
Allowed == state \notin {"ShuttingDown", "Shutdown"} /\ ~frozen

\* pause() and resume(): the last resume of a faulted nexus freezes it instead.
Pause == pauses' = pauses + 1 /\ UNCHANGED frozen
Resume ==
    /\ pauses' = pauses - 1
    /\ frozen' = (frozen \/ (pauses = 1 /\ Faulted))

\* child.close() of the given children.
Close(C) == cs' = [c \in Children |-> IF c \in C /\ Opened(c) THEN "closed" ELSE cs[c]]

\* A save of the nexus information that failed asks for a self-shutdown.
AskSelfShutdown == shut' = IF shut = "no" THEN "asked" ELSE shut

\* Routines that hold a reference to the nexus across an await.
UpdatesUnderWay == {c \in Children : upd[c] \in {"saving", "closing"}}
UnderWay ==
    \/ UpdatesUnderWay # {}
    \/ shut \in {"cancel", "close"}
    \/ reset = "held"
    \/ \E c \in Children : retire[c]["detach"] + retire[c]["held"] > 0

\* The bdev is unregistered, which destructs the nexus.  Routines that are under
\* way are left with a reference to nothing and not followed any further.
Gone ==
    /\ state' = "None" /\ listed' = FALSE /\ members' = {} /\ info' = NoInfo
    /\ pauses' = 0 /\ frozen' = FALSE
    /\ dangling' = (dangling \/ UnderWay)
    /\ upd' = [c \in Children |-> IF c \in UpdatesUnderWay THEN "no" ELSE upd[c]]
    /\ shut' = IF shut \in {"cancel", "close"} THEN "no" ELSE shut
    /\ reset' = IF reset = "held" THEN "no" ELSE reset
    /\ retire' = [c \in Children |-> [retire[c] EXCEPT !["detach"] = 0, !["held"] = 0]]
    /\ UNCHANGED <<gens, panicked>>

\* A child is dropped from the list of children.
Drop(c) ==
    /\ members' = members \ {c}
    /\ dangling' = (dangling \/ c \in UpdatesUnderWay)
    /\ upd' = [upd EXCEPT ![c] = IF c \in UpdatesUnderWay THEN "no" ELSE @]

-----------------------------------------------------------------------------
(* Rebuild jobs.                                                           *)

Jobs(c) == {d \in Children : job[d] = "running" /\ (d = c \/ src[d] = c)}

\* force_stop of a set of jobs; a job that has ended already is left alone.
StopJobs(D) ==
    /\ job' = [d \in Children |-> IF d \in D THEN "stopped" ELSE job[d]]
    /\ upd' = [d \in Children |-> IF d \in D THEN "sent" ELSE upd[d]]
    /\ UNCHANGED src

\* cancel_rebuild_jobs waits until the jobs it has stopped have terminated; by
\* then their updates, sent before, have started.
Terminated == \A d \in Children : ~(job[d] = "stopped" /\ upd[d] = "sent")

\* An RPC that waits for the store or for a device gives way to futures that
\* have been sent before.
Started == \A d \in Children : upd[d] # "sent"

\* start_rebuild needs a healthy source and an out-of-sync destination without a job.
CanRebuild(c) ==
    /\ c \in members /\ cs[c] = "unsync" /\ job[c] = "none"
    /\ Healthy \ {c} # {}
StartJobs(D) ==
    LET go == {d \in D : CanRebuild(d)} IN
    /\ job' = [d \in Children |-> IF d \in go THEN "running" ELSE job[d]]
    /\ \E from \in [go -> Healthy] :
          src' = [d \in Children |-> IF d \in go THEN from[d] ELSE src[d]]
    /\ UNCHANGED upd

\* A job copies all segments or fails; the nexus is told by a future of its own.
JobEnds(c) ==
    /\ job[c] = "running"
    /\ job' \in {[job EXCEPT ![c] = "completed"], [job EXCEPT ![c] = "failed"]}
    /\ upd' = [upd EXCEPT ![c] = "sent"]
    /\ UNCHANGED <<nexusVars, src, ioVars, rpc, shut, reset, retire, budget, ghosts>>

RemoveJob(c) ==
    /\ job' = [job EXCEPT ![c] = "none"]
    /\ src' = [src EXCEPT ![c] = "none"]
    /\ upd' = [upd EXCEPT ![c] = "no"]

\* on_rebuild_update: a nexus or child that is not found leaves the job where it is.
RebuildUpdate(c) ==
    /\ upd[c] = "sent"
    /\ \/ /\ ~listed \/ c \notin members
          /\ upd' = [upd EXCEPT ![c] = "no"]
          /\ UNCHANGED <<job, src, cs>>
       \/ /\ listed /\ c \in members /\ job[c] = "completed"
          /\ cs' = [cs EXCEPT ![c] = IF @ = "unsync" THEN "healthy" ELSE @]
          /\ IF cs'[c] = "healthy" THEN upd' = [upd EXCEPT ![c] = "saving"] /\ UNCHANGED <<job, src>>
                                   ELSE RemoveJob(c)
       \/ /\ listed /\ c \in members /\ job[c] = "failed"
          /\ cs' = [cs EXCEPT ![c] = "faulted"]
          /\ upd' = [upd EXCEPT ![c] = "closing"]
          /\ UNCHANGED <<job, src>>
       \/ /\ listed /\ c \in members /\ job[c] = "stopped"
          /\ RemoveJob(c)
          /\ UNCHANGED cs
    /\ UNCHANGED <<state, listed, gens, members, info, ioVars, rpc, shut, reset, retire, budget, ghosts>>

\* The child is closed, or saved as healthy; the job leaves the registry last
\* and not at all if the save fails.
RebuildUpdateEnds(c) ==
    /\ c \in UpdatesUnderWay
    /\ info' = [info EXCEPT ![c] = IF upd[c] = "saving" /\ @ # "absent" THEN "healthy" ELSE @]
    /\ \/ /\ RemoveJob(c)
          /\ UNCHANGED <<shut, budget>>
       \/ /\ upd[c] = "saving" /\ Spend("events")
          /\ AskSelfShutdown
          /\ upd' = [upd EXCEPT ![c] = "no"]
          /\ UNCHANGED <<job, src>>
    /\ UNCHANGED <<state, listed, gens, members, cs, ioVars, rpc, reset, retire, ghosts>>

-----------------------------------------------------------------------------
(* Routines of the engine itself.                                          *)

\* An I/O error or an event of the device: retire_child_device faults the child
\* and sends the retire routine, once.
ChildFails(c) ==
    /\ listed /\ c \in members /\ Opened(c)
    /\ Spend("events")
    /\ cs' = [cs EXCEPT ![c] = "faulted"]
    /\ retire' = [retire EXCEPT ![c]["asked"] = @ + 1]
    /\ UNCHANGED <<state, listed, gens, members, info, jobVars, ioVars, rpc, shut, reset, ghosts>>

\* child_retire_persist: the last healthy child stays on record.
Recorded(c) == c \in members /\ Cardinality({d \in Children : info[d] = "healthy"}) > 1

\* child_retire_routine, do_child_retire up to the detaching: a nexus that is
\* gone ends it, and so does a failed save.
RetirePersist(c) ==
    /\ retire[c]["asked"] > 0
    /\ info' = [info EXCEPT ![c] = IF Recorded(c) /\ @ # "absent" THEN "unhealthy" ELSE @]
    /\ \/ /\ retire' = [retire EXCEPT ![c]["asked"] = @ - 1, ![c]["detach"] = IF listed THEN @ + 1 ELSE @]
          /\ UNCHANGED <<shut, budget>>
       \/ /\ Recorded(c) /\ Spend("events")
          /\ AskSelfShutdown
          /\ retire' = [retire EXCEPT ![c]["asked"] = @ - 1]
    /\ UNCHANGED <<state, listed, gens, members, cs, jobVars, ioVars, rpc, reset, ghosts>>

RetirePause(c) ==
    /\ retire[c]["detach"] > 0
    /\ Pause
    /\ retire' = [retire EXCEPT ![c]["detach"] = @ - 1, ![c]["held"] = @ + 1]
    /\ UNCHANGED <<nexusVars, jobVars, rpc, shut, reset, budget, ghosts>>

\* child_retire_destroy_device fails the job of the child; then I/O resumes.
RetireResume(c) ==
    /\ retire[c]["held"] > 0
    /\ IF c \in members /\ job[c] = "running"
       THEN /\ job' = [job EXCEPT ![c] = "failed"]
            /\ upd' = [upd EXCEPT ![c] = "sent"]
       ELSE UNCHANGED <<job, upd>>
    /\ Resume
    /\ retire' = [retire EXCEPT ![c]["held"] = @ - 1]
    /\ UNCHANGED <<nexusVars, src, rpc, shut, reset, budget, ghosts>>

\* Mutant: only a nexus that is Open shuts itself down.
SelfShutdownOpen ==
    /\ shut = "asked"
    /\ IF listed /\ state = "Open"
       THEN state' = "ShuttingDown" /\ shut' = "cancel"
       ELSE shut' = "no" /\ UNCHANGED state
    /\ UNCHANGED <<listed, gens, members, cs, info, jobVars, ioVars, rpc, reset, retire, budget, ghosts>>

\* try_self_shutdown gives way to a shutdown that is under way or done.
SelfShutdown ==
    /\ shut = "asked"
    /\ IF listed /\ state \notin {"ShuttingDown", "Shutdown"}
       THEN state' = "ShuttingDown" /\ shut' = "cancel"
       ELSE shut' = "no" /\ UNCHANGED state
    /\ UNCHANGED <<listed, gens, members, cs, info, jobVars, ioVars, rpc, reset, retire, budget, ghosts>>

\* The channels of all children are closed and frozen I/Os aborted; then the
\* rebuild jobs are cancelled.
SelfShutdownCancel ==
    /\ shut = "cancel"
    /\ StopJobs({d \in members : job[d] = "running"})
    /\ shut' = "close"
    /\ UNCHANGED <<nexusVars, ioVars, rpc, reset, retire, budget, ghosts>>

\* Nothing is saved: the nexus may exist on another node by now.
SelfShutdownClose ==
    /\ shut = "close" /\ Started
    /\ Close(members)
    /\ state' = "Shutdown"
    /\ shut' = "no"
    /\ UNCHANGED <<listed, gens, members, info, jobVars, ioVars, rpc, reset, retire, budget, ghosts>>

\* initiator_keep_alive_timeout of the last initiator: set_reset_state.
KeepAliveTimeout ==
    /\ listed /\ state = "Open" /\ reset = "no"
    /\ Spend("events")
    /\ state' = "Reconfiguring"
    /\ reset' = "asked"
    /\ UNCHANGED <<listed, gens, members, cs, info, jobVars, ioVars, rpc, shut, retire, ghosts>>

\* reset_all_children pauses the nexus and resets its NVMe children.
ResetPause ==
    /\ reset = "asked"
    /\ IF listed THEN Pause /\ reset' = "held" ELSE reset' = "no" /\ UNCHANGED ioVars
    /\ UNCHANGED <<nexusVars, jobVars, rpc, shut, retire, budget, ghosts>>

\* I/O resumes, and the nexus is Open again unless it is being shut down (set_open_state).
ResetResume ==
    /\ reset = "held"
    /\ Resume
    /\ state' = IF state = "Reconfiguring" THEN "Open" ELSE state
    /\ reset' = "no"
    /\ UNCHANGED <<listed, gens, members, cs, info, jobVars, rpc, shut, retire, budget, ghosts>>

-----------------------------------------------------------------------------
(* RPCs.  A future that was sent before an RPC is started before it.       *)

Begin(op, c, pc) ==
    /\ op \in Ops
    /\ rpc = Idle /\ listed
    /\ shut # "asked" /\ reset # "asked"
    /\ Spend("rpcs")
    /\ rpc' = [op |-> op, pc |-> pc, c |-> c, cancelled |-> {}]

At(op, pc) == rpc.op = op /\ rpc.pc = pc
GoTo(pc) == rpc' = [rpc EXCEPT !.pc = pc]
End == rpc' = Idle

\* nexus_create_internal: the devices of the children are created; a nexus that
\* is not registered yet is not found by anybody.
Create ==
    /\ rpc = Idle /\ ~listed /\ gens < MaxGens
    /\ shut # "asked" /\ reset # "asked"
    /\ state' = "Init" /\ gens' = gens + 1
    /\ members' = First
    /\ rpc' = [Idle EXCEPT !.op = "create", !.pc = "register"]
    /\ UNCHANGED <<listed, cs, info, jobVars, ioVars, shut, reset, retire, budget, ghosts>>

\* A child cannot be created or does not fit: its devices go, and the nexus too.
CreateFails ==
    /\ At("create", "register")
    /\ Gone /\ End
    /\ UNCHANGED <<cs, job, src, budget>>

\* register_instance: from here the nexus is listed, and its children are opened.
CreateRegister ==
    /\ At("create", "register")
    /\ listed' = TRUE
    /\ cs' = [c \in Children |-> IF c \in members THEN "healthy" ELSE cs[c]]
    /\ GoTo("persist")
    /\ UNCHANGED <<state, gens, members, info, jobVars, ioVars, shut, reset, retire, budget, ghosts>>

\* The nexus is Open once it is saved; if that fails it is unregistered, and so
\* it is when a child could not be opened.
CreatePersist ==
    /\ At("create", "persist")
    /\ state' = "Open" /\ End
    /\ info' = [c \in Children |-> IF c \notin members THEN "absent"
                                  ELSE IF c \in Healthy THEN "healthy" ELSE "unhealthy"]
    /\ UNCHANGED <<listed, gens, members, cs, jobVars, ioVars, shut, reset, retire, budget, ghosts>>

CreatePersistFails ==
    /\ At("create", "persist")
    /\ Spend("events")
    /\ Gone /\ End
    /\ Close(members)
    /\ UNCHANGED <<job, src>>

\* destroy_ext: the nexus is unshared, its jobs are cancelled, its children are
\* closed, a clean shutdown is saved if possible, and the bdev is unregistered.
Destroy ==
    /\ Begin("destroy", "none", "cancel")
    /\ UNCHANGED <<nexusVars, jobVars, ioVars, shut, reset, retire, ghosts>>

\* unshare_nexus_internal can fail.
DestroyRefused ==
    /\ At("destroy", "cancel")
    /\ End
    /\ UNCHANGED <<nexusVars, jobVars, ioVars, shut, reset, retire, budget, ghosts>>

\* The same for a shutdown, which is refused when one is under way, and leaves
\* the nexus paused.
Shutdown ==
    /\ Begin("shutdown", "none", "pause")
    /\ state \notin {"Shutdown", "ShuttingDown"}
    /\ state' = "ShuttingDown"
    /\ UNCHANGED <<listed, gens, members, cs, info, jobVars, ioVars, shut, reset, retire, ghosts>>

ShutdownPause ==
    /\ At("shutdown", "pause")
    /\ Pause
    /\ GoTo("cancel")
    /\ UNCHANGED <<nexusVars, jobVars, shut, reset, retire, budget, ghosts>>

CancelAll ==
    /\ rpc.op \in {"destroy", "shutdown"} /\ rpc.pc = "cancel"
    /\ StopJobs({d \in members : job[d] = "running"})
    /\ GoTo("close")
    /\ UNCHANGED <<nexusVars, ioVars, shut, reset, retire, budget, ghosts>>

\* Mutant: only the healthy children are closed.
CloseHealthyChildren ==
    /\ rpc.op \in {"destroy", "shutdown"} /\ rpc.pc = "close" /\ Started
    /\ Close(Healthy)
    /\ GoTo("persist")
    /\ UNCHANGED <<state, listed, gens, members, info, jobVars, ioVars, shut, reset, retire, budget, ghosts>>

CloseChildren ==
    /\ rpc.op \in {"destroy", "shutdown"} /\ rpc.pc = "close" /\ Started
    /\ Close(members)
    /\ GoTo("persist")
    /\ UNCHANGED <<state, listed, gens, members, info, jobVars, ioVars, shut, reset, retire, budget, ghosts>>

ShutdownEnds ==
    /\ At("shutdown", "persist")
    /\ state' = "Shutdown" /\ End
    /\ UNCHANGED <<listed, gens, members, cs, info, jobVars, ioVars, shut, reset, retire, budget, ghosts>>

\* destruct closes what is still open.
DestroyEnds ==
    /\ At("destroy", "persist")
    /\ Close(members)
    /\ Gone /\ End
    /\ UNCHANGED <<job, src, budget>>

-----------------------------------------------------------------------------
(* Adding and onlining a child, and starting its rebuild.                  *)

\* add_child_only: the device is created first.
AddChild(c) ==
    /\ Begin("add", c, "open")
    /\ c \notin members
    /\ Allowed
    /\ UNCHANGED <<nexusVars, jobVars, ioVars, shut, reset, retire, ghosts>>

AddOpen ==
    /\ At("add", "open")
    /\ \/ /\ members' = members \cup {rpc.c}
          /\ cs' = [cs EXCEPT ![rpc.c] = "unsync"]
          /\ GoTo("persist")
       \/ End /\ UNCHANGED <<members, cs>>
    /\ UNCHANGED <<state, listed, gens, info, jobVars, ioVars, shut, reset, retire, budget, ghosts>>

\* The child is dropped again if it cannot be saved; otherwise its rebuild starts,
\* or the child is closed as faulted (add_child).
AddPersist ==
    /\ At("add", "persist")
    /\ \/ /\ IF CanRebuild(rpc.c) THEN StartJobs({rpc.c}) /\ UNCHANGED cs
             ELSE cs' = [cs EXCEPT ![rpc.c] = "faulted"] /\ UNCHANGED jobVars
          /\ UNCHANGED <<members, shut, budget, dangling>>
       \/ /\ Spend("events")
          /\ AskSelfShutdown
          /\ Drop(rpc.c)
          /\ cs' = [cs EXCEPT ![rpc.c] = "closed"]
          /\ UNCHANGED <<job, src>>
    /\ info' = [info EXCEPT ![rpc.c] = "unhealthy"]
    /\ End
    /\ UNCHANGED <<state, listed, gens, ioVars, reset, retire, panicked>>

\* online_child: a child that is open already stays as it is.
OnlineChild(c) ==
    /\ Begin("online", c, "open")
    /\ c \in members /\ ~Opened(c)
    /\ Allowed
    /\ UNCHANGED <<nexusVars, jobVars, ioVars, shut, reset, retire, ghosts>>

OnlineOpen ==
    /\ At("online", "open")
    /\ \/ cs' = [cs EXCEPT ![rpc.c] = "unsync"] /\ GoTo("rebuild")
       \/ End /\ UNCHANGED cs
    /\ UNCHANGED <<state, listed, gens, members, info, jobVars, ioVars, shut, reset, retire, budget, ghosts>>

\* The reservation has been acquired, or not; a child without a rebuild is closed.
OnlineRebuild ==
    /\ At("online", "rebuild")
    /\ \/ CanRebuild(rpc.c) /\ StartJobs({rpc.c}) /\ UNCHANGED cs
       \/ Close({rpc.c}) /\ UNCHANGED jobVars
    /\ End
    /\ UNCHANGED <<state, listed, gens, members, info, ioVars, shut, reset, retire, budget, ghosts>>

\* start_rebuild asked for by an RPC.
StartRebuild(c) ==
    /\ Begin("rebuild", c, "start")
    /\ CanRebuild(c)
    /\ UNCHANGED <<nexusVars, jobVars, ioVars, shut, reset, retire, ghosts>>

StartRebuildEnds ==
    /\ At("rebuild", "start")
    /\ StartJobs({rpc.c})
    /\ End
    /\ UNCHANGED <<nexusVars, ioVars, shut, reset, retire, budget, ghosts>>

-----------------------------------------------------------------------------
(* Removing and faulting a child, under a RebuildPauseGuard.               *)

\* check_child_remove_operation: neither the last child nor the last healthy one.
Removable(c) == c \in members /\ members # {c} /\ Healthy # {c}

\* Both start by cancelling the jobs from and to the child.
RemoveOrFault(op, c) ==
    /\ Begin(op, c, "cancel")
    /\ Allowed /\ Removable(c)
    /\ UNCHANGED <<nexusVars, jobVars, ioVars, shut, reset, retire, ghosts>>

\* Mutant: only the job that rebuilds the child is cancelled.
PauseOwnRebuildJob ==
    /\ rpc.pc = "cancel" /\ rpc.op \in {"remove", "fault"}
    /\ StopJobs(Jobs(rpc.c) \cap {rpc.c})
    /\ rpc' = [rpc EXCEPT !.pc = "cancelled"]
    /\ UNCHANGED <<nexusVars, ioVars, shut, reset, retire, budget, ghosts>>

\* cancel_rebuild_jobs: the guard remembers the destinations of the jobs that
\* had the child as their source.
PauseRebuildJobs ==
    /\ rpc.pc = "cancel" /\ rpc.op \in {"remove", "fault"}
    /\ StopJobs(Jobs(rpc.c))
    /\ rpc' = [rpc EXCEPT !.pc = "cancelled", !.cancelled = Jobs(rpc.c) \ {rpc.c}]
    /\ UNCHANGED <<nexusVars, ioVars, shut, reset, retire, budget, ghosts>>

RemovePause ==
    /\ At("remove", "cancelled") /\ Terminated
    /\ Pause
    /\ GoTo("persist")
    /\ UNCHANGED <<nexusVars, jobVars, shut, reset, retire, budget, ghosts>>

\* If the store cannot be updated, remove_child returns: nothing is resumed, and
\* the guard is dropped, which asserts that it was.
RemovePersist ==
    /\ At("remove", "persist") /\ Started
    /\ info' = [info EXCEPT ![rpc.c] = "absent"]
    /\ \/ GoTo("close") /\ UNCHANGED <<shut, budget, panicked>>
       \/ Spend("events") /\ AskSelfShutdown /\ panicked' = TRUE /\ End
    /\ UNCHANGED <<state, listed, gens, members, cs, jobVars, ioVars, reset, retire, dangling>>

\* The child is detached, closed and dropped.
RemoveClose ==
    /\ At("remove", "close") /\ Started
    /\ Close({rpc.c})
    /\ Drop(rpc.c)
    /\ GoTo("resume")
    /\ UNCHANGED <<state, listed, gens, info, job, src, ioVars, shut, reset, retire, budget, panicked>>

\* I/O resumes, and the guard restarts the rebuilds (start_rebuild_jobs).
RemoveResume ==
    /\ At("remove", "resume")
    /\ Resume
    /\ StartJobs(rpc.cancelled)
    /\ End
    /\ UNCHANGED <<nexusVars, shut, reset, retire, budget, ghosts>>

\* fault_child: retire_child_device, then the guard restarts the rebuilds.
FaultRetire ==
    /\ At("fault", "cancelled") /\ Terminated
    /\ IF Opened(rpc.c)
       THEN /\ cs' = [cs EXCEPT ![rpc.c] = "faulted"]
            /\ retire' = [retire EXCEPT ![rpc.c]["asked"] = @ + 1]
       ELSE UNCHANGED <<cs, retire>>
    /\ GoTo("restart")
    /\ UNCHANGED <<state, listed, gens, members, info, jobVars, ioVars, shut, reset, budget, ghosts>>

FaultRestart ==
    /\ At("fault", "restart")
    /\ StartJobs(rpc.cancelled)
    /\ End
    /\ UNCHANGED <<nexusVars, ioVars, shut, reset, retire, budget, ghosts>>

-----------------------------------------------------------------------------
(* Snapshots of all replicas.                                              *)

\* check_nexus_state: only a nexus that is Open, not one that is reset.
Snapshotable == Allowed /\ state = "Open" /\ members # {}

\* create_snapshot.
CreateSnapshot ==
    /\ Begin("snapshot", "none", "take")
    /\ Snapshotable
    /\ Pause
    /\ UNCHANGED <<nexusVars, jobVars, shut, reset, retire, ghosts>>

\* The replicas asked for, all of them healthy, have been snapshotted or not.
SnapshotResume ==
    /\ At("snapshot", "take")
    /\ Resume
    /\ End
    /\ UNCHANGED <<nexusVars, jobVars, shut, reset, retire, budget, ghosts>>

-----------------------------------------------------------------------------
EngineStep ==
    \/ \E c \in Children :
          \/ JobEnds(c) \/ RebuildUpdate(c) \/ RebuildUpdateEnds(c)
          \/ ChildFails(c) \/ RetirePersist(c) \/ RetirePause(c) \/ RetireResume(c)
    \/ SelfShutdown \/ SelfShutdownCancel \/ SelfShutdownClose
    \/ KeepAliveTimeout \/ ResetPause \/ ResetResume

RpcStep ==
    \/ Create \/ CreateFails \/ CreateRegister \/ CreatePersist \/ CreatePersistFails
    \/ Destroy \/ DestroyRefused \/ DestroyEnds
    \/ Shutdown \/ ShutdownPause \/ CancelAll \/ CloseChildren \/ ShutdownEnds
    \/ \E c \in Children :
          \/ AddChild(c) \/ OnlineChild(c) \/ StartRebuild(c)
          \/ RemoveOrFault("remove", c) \/ RemoveOrFault("fault", c)
    \/ AddOpen \/ AddPersist \/ OnlineOpen \/ OnlineRebuild \/ StartRebuildEnds
    \/ PauseRebuildJobs \/ RemovePause \/ RemovePersist \/ RemoveClose \/ RemoveResume
    \/ FaultRetire \/ FaultRestart
    \/ CreateSnapshot \/ SnapshotResume

Next == ~panicked /\ (EngineStep \/ RpcStep)

Spec == Init /\ [][Next]_adminVars

\* Every future that is not waiting is polled, and what it waits for ends: jobs
\* that were told to stop, saves, closes and resets.  No fairness for starting
\* an RPC, nor for children failing.
RpcGoesOn ==
    \/ CreateFails \/ CreateRegister \/ CreatePersist \/ CreatePersistFails
    \/ DestroyEnds \/ DestroyRefused \/ ShutdownPause \/ CancelAll \/ CloseChildren \/ ShutdownEnds
    \/ AddOpen \/ AddPersist \/ OnlineOpen \/ OnlineRebuild \/ StartRebuildEnds
    \/ PauseRebuildJobs \/ RemovePause \/ RemovePersist \/ RemoveClose \/ RemoveResume
    \/ FaultRetire \/ FaultRestart \/ SnapshotResume
Fairness ==
    /\ WF_adminVars(~panicked /\ RpcGoesOn)
    /\ WF_adminVars(~panicked /\ (SelfShutdown \/ SelfShutdownCancel \/ SelfShutdownClose))
    /\ WF_adminVars(~panicked /\ (ResetPause \/ ResetResume))
    /\ \A c \in Children :
          /\ WF_adminVars(~panicked /\ (RebuildUpdate(c) \/ RebuildUpdateEnds(c)))
          /\ WF_adminVars(~panicked /\ (RetirePersist(c) \/ RetirePause(c) \/ RetireResume(c)))
FairSpec == Spec /\ Fairness

-----------------------------------------------------------------------------
\* Every variable has its type, and an update that is under way has its job in
\* the registry.
AdminTypeOK ==
    /\ state \in {"None", "Init", "Open", "Reconfiguring", "ShuttingDown", "Shutdown"}
    /\ listed \in BOOLEAN /\ gens \in 0..MaxGens
    /\ members \subseteq Children /\ info \in [Children -> {"absent", "healthy", "unhealthy"}]
    /\ cs \in [Children -> {"closed", "healthy", "unsync", "faulted"}]
    /\ job \in [Children -> {"none", "running", "completed", "failed", "stopped"}]
    /\ src \in [Children -> Children \cup {"none"}]
    /\ upd \in [Children -> {"no", "sent", "saving", "closing"}]
    /\ \A c \in Children : upd[c] # "no" => job[c] # "none"
    /\ pauses \in Nat /\ frozen \in BOOLEAN
    /\ rpc.c \in Children \cup {"none"} /\ rpc.cancelled \subseteq Children
    /\ shut \in {"no", "asked", "cancel", "close"} /\ reset \in {"no", "asked", "held"}
    /\ retire \in [Children -> [RetireSteps -> Nat]]
    /\ budget \in [{"rpcs", "events"} -> Nat]
    /\ panicked \in BOOLEAN /\ dangling \in BOOLEAN

RpcHolds ==
    \/ rpc.op \in {"remove", "snapshot"} /\ rpc.pc \in {"persist", "close", "resume", "take"}
    \/ rpc.op = "shutdown" /\ rpc.pc # "pause"
Holders ==
    MapThenSumSet(LAMBDA c : retire[c]["held"], Children)
    + (IF reset = "held" THEN 1 ELSE 0) + (IF RpcHolds THEN 1 ELSE 0)

\* Whatever interleaves, each pause of the nexus belongs to a routine that will
\* resume it; only a shutdown leaves the nexus paused for good.
PausesAccounted ==
    ~panicked => pauses - Holders \in IF state = "Shutdown" THEN {0, 1} ELSE {0}

\* A nexus that has been shut down, by an RPC or by itself, never serves again:
\* neither the end of a reset nor that of a creation reopens it.
StaysShutdown == state = "Shutdown" => state' \in {"Shutdown", "None"}

\* When the shutdown RPC ends, all children are closed and no rebuild runs: no
\* routine of the engine opens a child or starts a rebuild behind its back.
ShutdownCloses ==
    rpc.op = "shutdown" /\ state' = "Shutdown" =>
        \A c \in members : ~Opened(c)' /\ job'[c] # "running"

\* A shutdown is complete when it is reported, and final.
ShutdownHolds == [][StaysShutdown /\ ShutdownCloses]_adminVars

\* A rebuild runs between two children of a nexus that exists: removing a child
\* or destroying the nexus leaves no job behind.
JobHasNexus ==
    \A c \in Children : job[c] = "running" => listed /\ {c, src[c]} \subseteq members

\* The bookkeeping of pauses and of rebuild jobs, which outlive the calls that
\* began them.
AdminIsSound == AdminTypeOK /\ PausesAccounted /\ JobHasNexus

\* A self-shutdown that was asked for leads to a nexus that is shut down or gone.
SelfShutdownHappens == shut = "asked" ~> state \in {"Shutdown", "None"} \/ panicked
==============================================================================
