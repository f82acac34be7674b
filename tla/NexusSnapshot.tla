---------------------------- MODULE NexusSnapshot ----------------------------
(***************************************************************************)
(* A snapshot of a nexus: the subsystem is paused, a snapshot is taken of  *)
(* every replica asked for, in parallel, and the subsystem is resumed      *)
(* (nexus_bdev_snapshot.rs).  A replica of this node is snapshotted        *)
(* directly (bdev/device.rs); another one through a vendor specific NVMe   *)
(* admin command (nvmx/handle.rs, subsys/nvmf/admin_cmd.rs), which may be  *)
(* refused, carried out although its answer is lost, or carried out when   *)
(* the nexus has long resumed.  Meanwhile the host writes and replicas     *)
(* fail or are removed.                                                    *)
(***************************************************************************)
EXTENDS Naturals, Sequences, FiniteSets

CONSTANTS
  Members,         \* the replicas the nexus was created with
  LocalMembers,    \* those that are replicas of this node
  SnapshotIds,     \* the snapshot UUIDs clients ask for
  MaxHostWrites,   \* bound on the writes of the host
  MaxSnapCalls,    \* bound on the snapshot requests
  MaxSnapTroubles  \* bound on failures, removals and lost connections together

VARIABLES
  replica,    \* per replica: member, state, open (has a descriptor), data (last write it has)
  hostWrite,  \* the replicas a write in flight has yet to reach
  written,    \* the number of writes the host has submitted
  call,       \* the request: pc, list, id, report and the write it paused at
  task,       \* per replica the future of take_snapshot: where it is, and its status
  command,    \* per replica the admin commands at its target: [call, id, at]
  taken,      \* per replica its snapshots: [call, id, data]
  snapCalls,  \* the number of requests so far
  troubles    \* the number of failures so far

snapshotVars == <<replica, hostWrite, written, call, task, command, taken, snapCalls, troubles>>

OK == 0
EIO == 5
ENXIO == 6
EEXIST == 17
ENODEV == 19
ENOTSUP == 95

Descriptors == [uuid : Members \cup {"other"}, named : BOOLEAN, skip : BOOLEAN]
Lists == UNION {[1 .. n -> Descriptors] : n \in 1 .. Cardinality(Members)}

EmptyReport == [done |-> {}, skipped |-> {}, failed |-> FALSE]
NoTask == [at |-> "none", status |-> OK]
NoCall == [pc |-> "idle", list |-> <<>>, id |-> "none", at |-> 0, report |-> EmptyReport]

IsMember(r) == replica[r].member
Children == {r \in Members : IsMember(r)}

\* Open and synchronised: a replica that missed a write is faulted at once.
ReplicaIsHealthy(r) == replica[r].state = "Open"

Trouble == troubles < MaxSnapTroubles /\ troubles' = troubles + 1

SnapshotInit ==
  /\ replica = [r \in Members |-> [member |-> TRUE, state |-> "Open", open |-> TRUE, data |-> 0]]
  /\ hostWrite = {} /\ written = 0
  /\ call = NoCall
  /\ task = [r \in Members |-> NoTask]
  /\ command = [r \in Members |-> {}]
  /\ taken = [r \in Members |-> {}]
  /\ snapCalls = 0 /\ troubles = 0

-----------------------------------------------------------------------------
(* The host and its replicas.                                              *)

\* The target accepts I/O unless the subsystem is paused, and pausing it.
AcceptsIo == call.pc \notin {"pausing", "take", "resume"}

\* The nexus submits a write to every healthy child.
HostSubmit ==
  /\ AcceptsIo /\ hostWrite = {} /\ written < MaxHostWrites
  /\ written' = written + 1
  /\ hostWrite' = {r \in Children : ReplicaIsHealthy(r)}
  /\ UNCHANGED <<replica, call, task, command, taken, snapCalls, troubles>>

\* The write reaches a replica ...
Written(r) ==
  /\ r \in hostWrite
  /\ replica' = [replica EXCEPT ![r].data = written]
  /\ hostWrite' = hostWrite \ {r}
  /\ UNCHANGED <<written, call, task, command, taken, snapCalls, troubles>>

\* ... or fails there, which faults the child before the write is completed.
WriteFails(r) ==
  /\ r \in hostWrite /\ Trouble
  /\ replica' = [replica EXCEPT ![r].state = "Faulted"]
  /\ hostWrite' = hostWrite \ {r}
  /\ UNCHANGED <<written, call, task, command, taken, snapCalls>>

\* A child is faulted by something else: its device is removed, a client asks.
Fault(r) ==
  /\ IsMember(r) /\ ReplicaIsHealthy(r) /\ r \notin hostWrite /\ Trouble
  /\ replica' = [replica EXCEPT ![r].state = "Faulted"]
  /\ UNCHANGED <<hostWrite, written, call, task, command, taken, snapCalls>>

\* The retire routine closes the device of a faulted child.
Retire(r) ==
  /\ IsMember(r) /\ ~ReplicaIsHealthy(r) /\ replica[r].open
  /\ replica' = [replica EXCEPT ![r].open = FALSE]
  /\ UNCHANGED <<hostWrite, written, call, task, command, taken, snapCalls, troubles>>

\* A client of API version 0, which locks another name, removes a child.  A
\* future that waits for its handle still refers to it: it may go either way.
RemoveReplica(r) ==
  /\ IsMember(r) /\ r \notin hostWrite /\ Trouble
  /\ replica' = [replica EXCEPT ![r].member = FALSE, ![r].open = FALSE]
  /\ UNCHANGED <<hostWrite, written, call, task, command, taken, snapCalls>>

-----------------------------------------------------------------------------
(* The request.                                                            *)

\* check_nexus_state.
SnapshotAllowed == Children # {}

\* create_nexus_snapshot, create_snapshot: one request at a time holds the lock
\* of the nexus.
CreateNexusSnapshot(list, id) ==
  /\ call.pc = "idle" /\ snapCalls < MaxSnapCalls
  /\ snapCalls' = snapCalls + 1
  /\ SnapshotAllowed
  /\ call' = [NoCall EXCEPT !.pc = "pausing", !.list = list, !.id = id]
  /\ UNCHANGED <<replica, hostWrite, written, task, command, taken, troubles>>

\* The number of replicas asked for is that of the children.
TopologyMatches(list) == Len(list) = Cardinality(Children)

\* "Make sure target replica appers only once".
NoDuplicates(list) == \A i, j \in DOMAIN list : i # j => list[i].uuid # list[j].uuid

\* "Replica must be healthy for a snapshot to be taken", and be given a UUID.
MayTake(d) == d.skip \/ (ReplicaIsHealthy(d.uuid) /\ d.named)

\* ReplicaSnapshotExecutor::new.
Executable(list) ==
  /\ TopologyMatches(list)
  /\ \A i \in DOMAIN list : list[i].uuid \in Children
  /\ NoDuplicates(list)
  /\ \A i \in DOMAIN list : MayTake(list[i])

Participants(list) == {list[i].uuid : i \in {j \in DOMAIN list : ~list[j].skip}}
Skipped(list) == {list[i].uuid : i \in {j \in DOMAIN list : list[j].skip}}

\* Mutant: the subsystem counts as paused while a write is still in flight.
PausedAtOnce == TRUE

\* The subsystem is paused once its outstanding I/O is completed.
Drained == hostWrite = {}

\* pause() returns: the replicas are looked up and a future is scheduled for
\* each of them.
Paused ==
  /\ call.pc = "pausing" /\ Drained
  /\ IF Executable(call.list)
     THEN /\ call' = [call EXCEPT !.pc = "take", !.at = written]
          /\ task' = [r \in Members |-> IF r \in Participants(call.list) THEN [NoTask EXCEPT !.at = "scheduled"] ELSE NoTask]
     ELSE /\ call' = [NoCall EXCEPT !.pc = "resume", !.report.failed = TRUE]
          /\ UNCHANGED task
  /\ UNCHANGED <<replica, hostWrite, written, command, taken, snapCalls, troubles>>

At(r, place) == task[r].at = place
Goes(r, place) == task' = [task EXCEPT ![r].at = place]
TaskEnds(r, status) == task' = [task EXCEPT ![r] = [at |-> "ended", status |-> status]]

\* The future of a replica looks the child up by its UUID and asks for an I/O
\* handle; without a descriptor there is none.
Lookup(r) ==
  /\ At(r, "scheduled")
  /\ \/ IsMember(r) /\ replica[r].open /\ Goes(r, "handle")
     \/ IsMember(r) /\ ~replica[r].open /\ TaskEnds(r, ENXIO)
     \/ ~IsMember(r) /\ TaskEnds(r, ENODEV)
  /\ UNCHANGED <<replica, hostWrite, written, call, command, taken, snapCalls, troubles>>

\* A replica takes a snapshot under a UUID that none of its snapshots has.
Exists(r, id) == \E s \in taken[r] : s.id = id
Snapshot(r, n, id) == taken' = [taken EXCEPT ![r] = @ \cup {[call |-> n, id |-> id, data |-> replica[r].data]}]

\* create_snapshot of a replica of this node.
CreateLocal(r) ==
  /\ At(r, "handle") /\ r \in LocalMembers
  /\ \/ ~Exists(r, call.id) /\ Snapshot(r, snapCalls, call.id) /\ TaskEnds(r, OK) /\ UNCHANGED troubles
     \/ Exists(r, call.id) /\ TaskEnds(r, EEXIST) /\ UNCHANGED <<taken, troubles>>
     \/ Trouble /\ TaskEnds(r, EIO) /\ UNCHANGED taken
  /\ UNCHANGED <<replica, hostWrite, written, call, command, snapCalls>>

\* create_snapshot of a remote replica: the parameters are encoded and sent.
CreateRemote(r) ==
  /\ At(r, "handle") /\ r \notin LocalMembers
  /\ command' = [command EXCEPT ![r] = @ \cup {[call |-> snapCalls, id |-> call.id, at |-> "sent"]}]
  /\ Goes(r, "sent")
  /\ UNCHANGED <<replica, hostWrite, written, call, taken, snapCalls, troubles>>

\* nvme_admin: the channel has no qpair, or the controller takes no command.
DispatchFails(r) ==
  /\ At(r, "handle") /\ r \notin LocalMembers
  /\ ~replica[r].open \/ ~ReplicaIsHealthy(r)
  /\ TaskEnds(r, ENODEV)
  /\ UNCHANGED <<replica, hostWrite, written, call, command, taken, snapCalls, troubles>>

\* nvme_admin_passthru_done: a failure that carries no code counts as EIO.
AdminPassthruDone(cdw0) == IF cdw0 = 0 THEN EIO ELSE cdw0

\* The answer of a command reaches the future that waits for it.
AnswerArrives(r, n, status) ==
  IF n = snapCalls /\ At(r, "sent") THEN TaskEnds(r, status) ELSE UNCHANGED task

\* The connection to the target is lost: the command is aborted here, and the
\* target may or may not have it.
ConnectionLost(r) ==
  /\ At(r, "sent") /\ Trouble
  /\ TaskEnds(r, AdminPassthruDone(0))
  /\ \/ UNCHANGED command
     \/ command' = [command EXCEPT ![r] = {c \in @ : c.call # snapCalls \/ c.at # "sent"}]
  /\ UNCHANGED <<replica, hostWrite, written, call, taken, snapCalls>>

-----------------------------------------------------------------------------
(* The target of a replica.                                                *)

\* nvmf_create_snapshot_hdlr accepts a command: it is decoded, and a future is
\* queued on the first core.
ReceiveCommand(r) ==
  \E c \in command[r] :
    /\ c.at = "sent"
    /\ command' = [command EXCEPT ![r] = (@ \ {c}) \cup {[c EXCEPT !.at = "queued"]}]
    /\ UNCHANGED <<replica, hostWrite, written, call, task, taken, snapCalls, troubles>>

\* It refuses one: no single namespace, no bdev or an unreadable message.  The
\* target answers that the opcode is not supported.
RefuseCommand(r) ==
  \E c \in command[r] :
    /\ c.at = "sent" /\ Trouble
    /\ command' = [command EXCEPT ![r] = @ \ {c}]
    /\ AnswerArrives(r, c.call, AdminPassthruDone(0))
    /\ UNCHANGED <<replica, hostWrite, written, call, taken, snapCalls>>

\* A request of the target is completed.
CompleteOk(r, c) == AnswerArrives(r, c.call, OK)
CompleteError(r, c, errno) == AnswerArrives(r, c.call, AdminPassthruDone(errno))

\* create_remote_snapshot.
CreateRemoteSnapshot(r) ==
  \E c \in command[r] :
    /\ c.at = "queued"
    /\ command' = [command EXCEPT ![r] = @ \ {c}]
    /\ \/ /\ ~Exists(r, c.id)
          /\ Snapshot(r, c.call, c.id)
          /\ CompleteOk(r, c)
          /\ UNCHANGED troubles
       \/ /\ Exists(r, c.id)
          /\ CompleteError(r, c, EEXIST)
          /\ UNCHANGED <<taken, troubles>>
       \/ /\ Trouble
          /\ \E errno \in {ENOTSUP, EIO} : CompleteError(r, c, errno)
          /\ UNCHANGED taken
    /\ UNCHANGED <<replica, hostWrite, written, call, snapCalls>>

-----------------------------------------------------------------------------
(* The report.                                                             *)

Joined(r) == task[r].at \in {"none", "ended"}

\* The futures are joined, and their results listed.
AllTaken ==
  /\ call.pc = "take"
  /\ \A r \in Members : Joined(r)
  /\ call' = [call EXCEPT !.pc = "resume",
                          !.report.done = {[uuid |-> r, status |-> task[r].status] : r \in Participants(call.list)},
                          !.report.skipped = Skipped(call.list)]
  /\ task' = [r \in Members |-> NoTask]
  /\ UNCHANGED <<replica, hostWrite, written, command, taken, snapCalls, troubles>>

\* The subsystem is resumed, whatever became of the snapshots.
Resumed ==
  /\ call.pc = "resume"
  /\ call' = [call EXCEPT !.pc = "idle"]
  /\ UNCHANGED <<replica, hostWrite, written, task, command, taken, snapCalls, troubles>>

ReplicaTask(r) == Lookup(r) \/ CreateLocal(r) \/ CreateRemote(r) \/ DispatchFails(r)
Target(r) == ReceiveCommand(r) \/ CreateRemoteSnapshot(r)

SnapshotNext ==
  \/ HostSubmit
  \/ \E list \in Lists, id \in SnapshotIds : CreateNexusSnapshot(list, id)
  \/ Paused \/ AllTaken \/ Resumed
  \/ \E r \in Members :
       \/ Written(r) \/ WriteFails(r) \/ Fault(r) \/ Retire(r) \/ RemoveReplica(r)
       \/ ReplicaTask(r) \/ Target(r) \/ RefuseCommand(r) \/ ConnectionLost(r)

\* Reactors and targets run what is queued; an I/O completes.
SnapshotFairness ==
  /\ WF_snapshotVars(Paused \/ AllTaken \/ Resumed)
  /\ \A r \in Members :
       WF_snapshotVars(Written(r)) /\ WF_snapshotVars(ReplicaTask(r)) /\ WF_snapshotVars(Target(r))

SnapshotSpec == SnapshotInit /\ [][SnapshotNext]_snapshotVars /\ SnapshotFairness

-----------------------------------------------------------------------------

\* The snapshots that a request reports as taken are of the same data: every
\* write the host had submitted when the nexus was paused, on every replica,
\* however writes, failures and the targets' own pace interleave.
SnapshotsAgree ==
  call.pc = "idle" =>
    \A d \in call.report.done : d.status = OK =>
      \E s \in taken[d.uuid] : s.call = snapCalls /\ s.id = call.id /\ s.data = call.at

\* A request that is carried out accounts for each replica that was asked for
\* exactly once: as skipped, or with what became of it.
EveryReplicaReported ==
  call.pc = "idle" /\ call.report # EmptyReport /\ ~call.report.failed =>
    /\ Cardinality(call.report.done) + Cardinality(call.report.skipped) = Len(call.list)
    /\ \A d \in call.report.done : d.uuid \notin call.report.skipped /\ d.status \in Nat
=============================================================================
