----------------------------- MODULE SnapshotProofs -----------------------------
(***************************************************************************)
(* Proofs about snapshots: what the snapshots that a nexus takes of its    *)
(* replicas hold, for any set of replicas and any number of writes and of  *)
(* requests (NexusSnapshot).                                               *)
(***************************************************************************)
EXTENDS NexusSnapshot, TLAPS

(* What the provers may take on a leaf: thirty seconds each.              *)
USE SMTT(30), ZenonT(30)

-----------------------------------------------------------------------------
(* The snapshots of a nexus.  A healthy replica that no write is on its    *)
(* way to has every write of the host; while the nexus is paused no write  *)
(* is under way, so what a participant is asked to snapshot stays what it  *)
(* was at the pause, and a late command of an earlier request is not taken *)
(* for one of this.                                                        *)

\* What the state is made of: replicas, the futures of a request, the commands
\* to remote replicas, and the snapshots that were taken.
ReplicaStates == [member : BOOLEAN, state : {"Open", "Faulted"}, open : BOOLEAN, data : Nat]
TaskStates == [at : {"none", "scheduled", "handle", "sent", "ended"}, status : Nat]
SnapCommands == [call : Nat, id : SnapshotIds, at : {"sent", "queued"}]
SnapRecords == [call : Nat, id : SnapshotIds, data : Nat]

SnapTypes ==
  /\ replica \in [Members -> ReplicaStates]
  /\ hostWrite \subseteq Members /\ written \in Nat /\ snapCalls \in Nat
  /\ task \in [Members -> TaskStates]
  /\ command \in [Members -> SUBSET SnapCommands]
  /\ taken \in [Members -> SUBSET SnapRecords]
  /\ call.pc \in {"idle", "pausing", "take", "resume"}
  /\ call.pc \in {"pausing", "take"} => call.id \in SnapshotIds

\* The fields of a request, and of its report.
CallFields ==
  /\ call = [pc |-> call.pc, list |-> call.list, id |-> call.id, at |-> call.at, report |-> call.report]
  /\ call.report = [done |-> call.report.done, skipped |-> call.report.skipped, failed |-> call.report.failed]

\* A replica the nexus counts as healthy has all that was written, or is about to.
HealthyIsWritten ==
  \A r \in Members : IsMember(r) /\ ReplicaIsHealthy(r) /\ r \notin hostWrite => replica[r].data = written

\* The futures of a request run while the nexus is paused, on replicas that have
\* all that was written; the commands they sent carry the snapshot asked for.
TakesAtPause ==
  /\ \A r \in Members : task[r].at # "none" => call.pc = "take"
  /\ call.pc = "take" => hostWrite = {} /\ call.at = written
  /\ \A r \in Members : task[r].at # "none" => replica[r].data = call.at
  /\ \A r \in Members : \A c \in command[r] :
       /\ c.call <= snapCalls
       /\ c.call = snapCalls /\ call.pc = "take" => c.id = call.id
       /\ c.call = snapCalls => call.pc # "pausing"
  /\ call.pc = "take" => \A r \in Participants(call.list) : r \in Members /\ task[r].at # "none"

\* The snapshot of this request.
TookIt(r) == \E s \in taken[r] : s.call = snapCalls /\ s.id = call.id /\ s.data = call.at

\* A future that ended well, and an entry of the report that says so, took it.
EndedTookIt == \A r \in Members : task[r].at = "ended" /\ task[r].status = OK => TookIt(r)

ReportedTookIt ==
  /\ call.pc \in {"pausing", "take"} => call.report.done = {}
  /\ \A d \in call.report.done : d.uuid \in Members /\ (d.status = OK => TookIt(d.uuid))

SnapInv == SnapTypes /\ CallFields /\ HealthyIsWritten /\ TakesAtPause /\ EndedTookIt /\ ReportedTookIt

\* Writes, failures and removals: no participant gains or loses data.
LEMMA HostKept ==
  ASSUME SnapInv, NEW r \in Members,
         HostSubmit \/ Written(r) \/ WriteFails(r) \/ Fault(r) \/ Retire(r) \/ RemoveReplica(r)
  PROVE  SnapInv'
PROOF
<1>1. UNCHANGED <<call, task, command, taken, snapCalls>>
  BY DEF HostSubmit, Written, WriteFails, Fault, Retire, RemoveReplica
<1>2. replica \in [Members -> ReplicaStates] /\ replica[r] \in ReplicaStates /\ written \in Nat /\ hostWrite \subseteq Members
  BY DEF SnapInv, SnapTypes
<1>3. /\ replica' \in [Members -> ReplicaStates] /\ hostWrite' \subseteq Members /\ written' \in Nat
      /\ HealthyIsWritten'
      /\ call.pc = "take" => hostWrite' = {} /\ written' = written
      /\ call.pc = "take" => \A q \in Members : replica'[q].data = replica[q].data
  <2>1. CASE HostSubmit
    BY <1>2, <2>1 DEF HostSubmit, AcceptsIo, HealthyIsWritten, Children, IsMember, ReplicaIsHealthy
  <2>2. call.pc = "take" => hostWrite = {}
    BY DEF SnapInv, TakesAtPause
  <2>3. CASE Written(r)
    <3> DEFINE new == [replica[r] EXCEPT !.data = written]
    <3>1. /\ replica' = [replica EXCEPT ![r] = new]
          /\ r \in hostWrite /\ hostWrite' = hostWrite \ {r} /\ written' = written
      BY <2>3 DEF Written
    <3>2. new \in ReplicaStates /\ new.data = written
      BY <1>2 DEF ReplicaStates
    <3> HIDE DEF new
    <3> QED BY <1>2, <2>2, <3>1, <3>2 DEF SnapInv, HealthyIsWritten, IsMember, ReplicaIsHealthy
  <2>4. CASE WriteFails(r) \/ Fault(r)
    <3> DEFINE new == [replica[r] EXCEPT !.state = "Faulted"]
    <3>1. /\ replica' = [replica EXCEPT ![r] = new]
          /\ hostWrite' = hostWrite \ {r} /\ written' = written
      BY <2>4 DEF WriteFails, Fault
    <3>2. new \in ReplicaStates /\ new.state = "Faulted" /\ new.data = replica[r].data
      BY <1>2 DEF ReplicaStates
    <3> HIDE DEF new
    <3> QED BY <1>2, <2>2, <3>1, <3>2 DEF SnapInv, HealthyIsWritten, IsMember, ReplicaIsHealthy
  <2>5. CASE Retire(r)
    <3> DEFINE new == [replica[r] EXCEPT !.open = FALSE]
    <3>1. /\ replica' = [replica EXCEPT ![r] = new]
          /\ replica[r].state # "Open" /\ hostWrite' = hostWrite /\ written' = written
      BY <2>5 DEF Retire, ReplicaIsHealthy
    <3>2. new \in ReplicaStates /\ new.state = replica[r].state /\ new.data = replica[r].data
      BY <1>2, Zenon DEF ReplicaStates
    <3> HIDE DEF new
    <3> QED BY <1>2, <2>2, <3>1, <3>2 DEF SnapInv, HealthyIsWritten, IsMember, ReplicaIsHealthy
  <2>6. CASE RemoveReplica(r)
    <3> DEFINE new == [replica[r] EXCEPT !.member = FALSE, !.open = FALSE]
    <3>1. /\ replica' = [replica EXCEPT ![r] = new]
          /\ hostWrite' = hostWrite /\ written' = written
      BY <2>6, Zenon DEF RemoveReplica
    <3>2. new \in ReplicaStates /\ ~new.member /\ new.data = replica[r].data
      BY <1>2, Zenon DEF ReplicaStates
    <3> HIDE DEF new
    <3> QED BY <1>2, <2>2, <3>1, <3>2 DEF SnapInv, HealthyIsWritten, IsMember, ReplicaIsHealthy
  <2> QED BY <2>1, <2>3, <2>4, <2>5, <2>6
<1>4. SnapTypes'
  BY <1>1, <1>3 DEF SnapInv, SnapTypes
<1>5. TakesAtPause'
  BY <1>1, <1>3 DEF SnapInv, TakesAtPause, Participants
<1> QED BY <1>1, <1>3, <1>4, <1>5 DEF SnapInv, CallFields, EndedTookIt, ReportedTookIt, TookIt

\* A request begins: no command is its own yet.
LEMMA BeginKept ==
  ASSUME SnapInv, NEW list \in Lists, NEW id \in SnapshotIds, CreateNexusSnapshot(list, id)
  PROVE  SnapInv'
PROOF
<1>1. /\ UNCHANGED <<replica, hostWrite, written, task, command, taken>>
      /\ snapCalls' = snapCalls + 1 /\ call.pc = "idle"
      /\ call' = [pc |-> "pausing", list |-> list, id |-> id, at |-> 0,
                   report |-> [done |-> {}, skipped |-> {}, failed |-> FALSE]]
  BY Zenon DEF CreateNexusSnapshot, NoCall, EmptyReport
<1>2. SnapTypes'
  BY <1>1 DEF SnapInv, SnapTypes
<1>6. CallFields' /\ HealthyIsWritten'
  BY <1>1 DEF SnapInv, CallFields, HealthyIsWritten, IsMember, ReplicaIsHealthy
<1>3. \A r \in Members : task[r].at = "none"
  BY <1>1 DEF SnapInv, SnapTypes, TakesAtPause
<1>4. \A r \in Members : \A c \in command[r] : c.call \in Nat /\ c.call <= snapCalls /\ c.call # snapCalls'
  BY <1>1 DEF SnapInv, SnapTypes, SnapCommands, TakesAtPause
<1>5. TakesAtPause'
  BY <1>1, <1>3, <1>4 DEF SnapInv, SnapTypes, TakesAtPause
<1> QED BY <1>1, <1>2, <1>3, <1>5, <1>6 DEF SnapInv, EndedTookIt, ReportedTookIt

\* The nexus is paused: the participants are healthy, and no write is under way.
LEMMA PausedKept ==
  ASSUME SnapInv, Paused
  PROVE  SnapInv'
PROOF
<1>1. UNCHANGED <<replica, hostWrite, written, command, taken, snapCalls>> /\ call.pc = "pausing" /\ hostWrite = {}
  BY DEF Paused, Drained
<1>2. \A r \in Members : task[r].at = "none"
  BY <1>1 DEF SnapInv, TakesAtPause
<1>3. HealthyIsWritten'
  BY <1>1 DEF SnapInv, HealthyIsWritten, IsMember, ReplicaIsHealthy
<1>4. \A r \in Members : \A c \in command[r] : c.call <= snapCalls /\ c.call # snapCalls
  BY <1>1 DEF SnapInv, TakesAtPause
<1>5. CASE Executable(call.list)
  <2>1. /\ call' = [call EXCEPT !.pc = "take", !.at = written]
        /\ task' = [r \in Members |-> IF r \in Participants(call.list) THEN [NoTask EXCEPT !.at = "scheduled"] ELSE NoTask]
    BY <1>5 DEF Paused
  <2>2. call' = [pc |-> "take", list |-> call.list, id |-> call.id, at |-> written, report |-> call.report]
    BY <2>1, Zenon DEF SnapInv, CallFields
  <2>3. task' \in [Members -> TaskStates]
    BY <2>1 DEF TaskStates, NoTask, OK
  <2>9. SnapTypes'
    BY <1>1, <2>2, <2>3 DEF SnapInv, SnapTypes
  <2>10. CallFields'
    BY <2>2 DEF SnapInv, CallFields
  <2>4. \A r \in Participants(call.list) : r \in Members /\ replica[r].data = written
    <3> SUFFICES ASSUME NEW i \in DOMAIN call.list, ~call.list[i].skip
                 PROVE  call.list[i].uuid \in Members /\ replica[call.list[i].uuid].data = written
      BY DEF Participants
    <3>1. call.list[i].uuid \in Members /\ IsMember(call.list[i].uuid) /\ ReplicaIsHealthy(call.list[i].uuid)
      BY <1>5 DEF Executable, MayTake, Children
    <3> QED BY <1>1, <3>1 DEF SnapInv, HealthyIsWritten
  <2>5. \A r \in Members : task'[r].at = (IF r \in Participants(call.list) THEN "scheduled" ELSE "none")
    BY <2>1 DEF NoTask
  <2>6. TakesAtPause'
    BY <1>1, <1>4, <2>2, <2>4, <2>5 DEF TakesAtPause, Participants
  <2>7. EndedTookIt'
    BY <2>5 DEF EndedTookIt
  <2>8. ReportedTookIt'
    BY <1>1, <2>2 DEF SnapInv, ReportedTookIt
  <2> QED BY <1>3, <2>6, <2>7, <2>8, <2>9, <2>10 DEF SnapInv
<1>6. CASE ~Executable(call.list)
  <2>1. /\ call' = [pc |-> "resume", list |-> <<>>, id |-> "none", at |-> 0,
                      report |-> [done |-> {}, skipped |-> {}, failed |-> TRUE]]
        /\ task' = task
    BY <1>6, Zenon DEF Paused, NoCall, EmptyReport
  <2>2. SnapTypes'
    BY <1>1, <2>1 DEF SnapInv, SnapTypes
  <2>3. TakesAtPause'
    BY <1>1, <1>2, <1>4, <2>1 DEF TakesAtPause
  <2> QED BY <1>2, <1>3, <2>1, <2>2, <2>3 DEF SnapInv, CallFields, EndedTookIt, ReportedTookIt
<1> QED BY <1>5, <1>6

\* What the future of a replica and its target do: snapshots are added, and a
\* task ends well only with the snapshot of its request.
LEMMA StepKept ==
  ASSUME SnapInv, NEW r \in Members,
         UNCHANGED <<replica, hostWrite, written, call, snapCalls>>,
         SnapTypes',
         \A q \in Members : taken[q] \subseteq taken'[q],
         \A q \in Members : q # r => task'[q] = task[q] /\ command'[q] = command[q],
         task'[r].at # "none" <=> task[r].at # "none",
         task'[r].at = "ended" /\ task'[r].status = OK => TookIt(r)',
         \A c \in command'[r] : \/ \E b \in command[r] : c.call = b.call /\ c.id = b.id
                                \/ call.pc = "take" /\ c.call = snapCalls /\ c.id = call.id
  PROVE  SnapInv'
PROOF
<1>1. HealthyIsWritten'
  BY DEF SnapInv, HealthyIsWritten, IsMember, ReplicaIsHealthy
<1>2. \A q \in Members : TookIt(q) => TookIt(q)'
  BY DEF TookIt
<1>3. \A q \in Members : task'[q].at # "none" <=> task[q].at # "none"
  OBVIOUS
<1>4. \A q \in Members : \A c \in command'[q] :
        /\ c.call <= snapCalls
        /\ c.call = snapCalls /\ call.pc = "take" => c.id = call.id
        /\ c.call = snapCalls => call.pc # "pausing"
  BY DEF SnapInv, SnapTypes, TakesAtPause
<1>5. TakesAtPause'
  BY <1>3, <1>4 DEF SnapInv, TakesAtPause, Participants
<1>6. EndedTookIt'
  BY <1>2 DEF SnapInv, EndedTookIt
<1>7. ReportedTookIt'
  BY <1>2 DEF SnapInv, ReportedTookIt
<1> QED BY <1>1, <1>5, <1>6, <1>7 DEF SnapInv, CallFields

\* The future of a replica looks it up, and asks for its snapshot.
LEMMA TaskKept ==
  ASSUME SnapInv, NEW r \in Members, ReplicaTask(r)
  PROVE  SnapInv'
PROOF
<1> USE DEF At, Goes, TaskEnds
<1>1. CASE Lookup(r)
  <2>1. UNCHANGED <<replica, hostWrite, written, call, command, taken, snapCalls>> /\ task[r].at = "scheduled"
    BY <1>1 DEF Lookup
  <2>2. task' \in [Members -> TaskStates]
        /\ (\A q \in Members : q # r => task'[q] = task[q])
        /\ task'[r].at # "none" /\ (task'[r].at = "ended" => task'[r].status # OK)
    <3>1. \/ task' = [task EXCEPT ![r].at = "handle"]
          \/ \E e \in {6, 19} : task' = [task EXCEPT ![r] = [at |-> "ended", status |-> e]]
      BY <1>1 DEF Lookup, ENXIO, ENODEV
    <3> QED BY <3>1 DEF SnapInv, SnapTypes, TaskStates, OK
  <2>3. SnapTypes'
    BY <2>1, <2>2 DEF SnapInv, SnapTypes
  <2> QED BY <2>1, <2>2, <2>3, StepKept
<1>2. CASE CreateLocal(r)
  <2>1. UNCHANGED <<replica, hostWrite, written, call, command, snapCalls>> /\ task[r].at = "handle"
    BY <1>2 DEF CreateLocal
  <2>2. call.pc = "take" /\ replica[r].data = call.at /\ call.id \in SnapshotIds /\ replica[r].data \in Nat
    BY <2>1 DEF SnapInv, SnapTypes, TakesAtPause
  <2>3. CASE Snapshot(r, snapCalls, call.id) /\ TaskEnds(r, OK)
    <3>1. /\ taken' = [taken EXCEPT ![r] = @ \cup {[call |-> snapCalls, id |-> call.id, data |-> replica[r].data]}]
          /\ task' = [task EXCEPT ![r] = [at |-> "ended", status |-> 0]]
      BY <2>3 DEF Snapshot, OK
    <3>2. SnapTypes'
      BY <2>1, <2>2, <3>1 DEF SnapInv, SnapTypes, TaskStates, SnapRecords
    <3>3. /\ [call |-> snapCalls, id |-> call.id, data |-> call.at] \in taken'[r]
          /\ \A q \in Members : taken[q] \subseteq taken'[q]
      BY <2>2, <3>1 DEF SnapInv, SnapTypes
    <3>5. TookIt(r)'
      BY <2>1, <3>3 DEF TookIt
    <3>4. task'[r].at = "ended" /\ \A q \in Members : q # r => task'[q] = task[q]
      BY <3>1 DEF SnapInv, SnapTypes
    <3> QED BY <2>1, <3>2, <3>3, <3>4, <3>5, StepKept
  <2>4. ASSUME NEW e \in {EEXIST, EIO}, TaskEnds(r, e), UNCHANGED taken
        PROVE  SnapInv'
    <3>1. /\ task' \in [Members -> TaskStates]
          /\ \A q \in Members : q # r => task'[q] = task[q]
          /\ task'[r].at = "ended" /\ task'[r].status # OK
      BY <2>4 DEF SnapInv, SnapTypes, TaskStates, OK, EEXIST, EIO
    <3>2. SnapTypes'
      BY <2>1, <2>4, <3>1 DEF SnapInv, SnapTypes
    <3> QED BY <2>1, <2>4, <3>1, <3>2, StepKept
  <2> QED BY <1>2, <2>3, <2>4, Zenon DEF CreateLocal
<1>3. CASE CreateRemote(r)
  <2>1. UNCHANGED <<replica, hostWrite, written, call, taken, snapCalls>> /\ task[r].at = "handle"
    BY <1>3 DEF CreateRemote
  <2>2. call.pc = "take" /\ call.id \in SnapshotIds
    BY <2>1 DEF SnapInv, SnapTypes, TakesAtPause
  <2>3. /\ command' = [command EXCEPT ![r] = @ \cup {[call |-> snapCalls, id |-> call.id, at |-> "sent"]}]
        /\ task' = [task EXCEPT ![r].at = "sent"]
    BY <1>3 DEF CreateRemote
  <2>4. SnapTypes'
    BY <2>1, <2>2, <2>3 DEF SnapInv, SnapTypes, TaskStates, SnapCommands
  <2>5. \A c \in command'[r] : c \in command[r] \/ c = [call |-> snapCalls, id |-> call.id, at |-> "sent"]
    BY <2>3 DEF SnapInv, SnapTypes
  <2>6. task'[r].at = "sent" /\ \A q \in Members : q # r => task'[q] = task[q] /\ command'[q] = command[q]
    BY <2>3 DEF SnapInv, SnapTypes
  <2> QED BY <2>1, <2>2, <2>4, <2>5, <2>6, StepKept
<1>4. CASE DispatchFails(r)
  <2>1. UNCHANGED <<replica, hostWrite, written, call, command, taken, snapCalls>> /\ task[r].at = "handle"
    BY <1>4 DEF DispatchFails
  <2>2. /\ task' \in [Members -> TaskStates]
        /\ \A q \in Members : q # r => task'[q] = task[q]
        /\ task'[r].at = "ended" /\ task'[r].status # OK
    BY <1>4 DEF DispatchFails, SnapInv, SnapTypes, TaskStates, OK, ENODEV
  <2>3. SnapTypes'
    BY <2>1, <2>2 DEF SnapInv, SnapTypes
  <2> QED BY <2>1, <2>2, <2>3, StepKept
<1> QED BY <1>1, <1>2, <1>3, <1>4 DEF ReplicaTask

\* An answer other than success ends the task it is for, or nothing.
LEMMA ErrorArrives ==
  ASSUME SnapInv, NEW r \in Members, NEW n \in Nat, NEW e \in Nat \ {OK},
         UNCHANGED <<replica, hostWrite, written, call, taken, snapCalls>>,
         AnswerArrives(r, n, e) \/ (task[r].at = "sent" /\ TaskEnds(r, e)),
         command' \in [Members -> SUBSET SnapCommands],
         \A q \in Members : q # r => command'[q] = command[q],
         command'[r] \subseteq command[r]
  PROVE  SnapInv'
PROOF
<1>1. /\ task' \in [Members -> TaskStates]
      /\ \A q \in Members : q # r => task'[q] = task[q]
      /\ task'[r] = task[r] \/ (task[r].at = "sent" /\ task'[r].at = "ended" /\ task'[r].status # OK)
  <2>1. \/ task' = task
        \/ task[r].at = "sent" /\ task' = [task EXCEPT ![r] = [at |-> "ended", status |-> e]]
    BY DEF AnswerArrives, TaskEnds, At
  <2> QED BY <2>1 DEF SnapInv, SnapTypes, TaskStates
<1>2. SnapTypes'
  BY <1>1 DEF SnapInv, SnapTypes
<1>3. task'[r].at = "ended" /\ task'[r].status = OK => TookIt(r)'
  BY <1>1 DEF SnapInv, EndedTookIt, TookIt
<1> QED BY <1>1, <1>2, <1>3, StepKept

\* A command is received, refused or lost.
LEMMA CommandKept ==
  ASSUME SnapInv, NEW r \in Members, ReceiveCommand(r) \/ RefuseCommand(r) \/ ConnectionLost(r)
  PROVE  SnapInv'
PROOF
<1>1. CASE ReceiveCommand(r)
  <2>1. PICK c \in command[r] :
          /\ c.at = "sent"
          /\ command' = [command EXCEPT ![r] = (@ \ {c}) \cup {[c EXCEPT !.at = "queued"]}]
          /\ UNCHANGED <<replica, hostWrite, written, call, task, taken, snapCalls>>
    BY <1>1, Zenon DEF ReceiveCommand
  <2>2. c \in SnapCommands
    BY DEF SnapInv, SnapTypes
  <2>3. SnapTypes'
    BY <2>1, <2>2 DEF SnapInv, SnapTypes, SnapCommands
  <2>4. /\ \A q \in Members : q # r => command'[q] = command[q]
        /\ \A d \in command'[r] : \E b \in command[r] : d.call = b.call /\ d.id = b.id
    BY <2>1, <2>2 DEF SnapInv, SnapTypes, SnapCommands
  <2>5. task'[r].at = "ended" /\ task'[r].status = OK => TookIt(r)'
    BY <2>1 DEF SnapInv, EndedTookIt, TookIt
  <2> QED BY <2>1, <2>3, <2>4, <2>5, StepKept
<1>2. CASE RefuseCommand(r)
  <2>1. PICK c \in command[r] :
          /\ command' = [command EXCEPT ![r] = @ \ {c}]
          /\ AnswerArrives(r, c.call, EIO)
          /\ UNCHANGED <<replica, hostWrite, written, call, taken, snapCalls>>
    BY <1>2, Zenon DEF RefuseCommand, AdminPassthruDone
  <2>2. c.call \in Nat
    BY DEF SnapInv, SnapTypes, SnapCommands
  <2>3. /\ command' \in [Members -> SUBSET SnapCommands]
        /\ \A q \in Members : q # r => command'[q] = command[q]
        /\ command'[r] \subseteq command[r]
    BY <2>1 DEF SnapInv, SnapTypes
  <2> QED BY <2>1, <2>2, <2>3, ErrorArrives DEF EIO, OK
<1>3. CASE ConnectionLost(r)
  <2>1. /\ task[r].at = "sent" /\ TaskEnds(r, EIO)
        /\ UNCHANGED <<replica, hostWrite, written, call, taken, snapCalls>>
    BY <1>3 DEF ConnectionLost, AdminPassthruDone, At
  <2>2. /\ command' \in [Members -> SUBSET SnapCommands]
        /\ \A q \in Members : q # r => command'[q] = command[q]
        /\ command'[r] \subseteq command[r]
    BY <1>3 DEF ConnectionLost, SnapInv, SnapTypes
  <2> QED BY <2>1, <2>2, ErrorArrives DEF EIO, OK
<1> QED BY <1>1, <1>2, <1>3

\* The target takes the snapshot that a command asks for: of the replica as it
\* is then, which is as it was at the pause if a future waits for the answer.
LEMMA RemoteKept ==
  ASSUME SnapInv, NEW r \in Members, CreateRemoteSnapshot(r)
  PROVE  SnapInv'
PROOF
<1>1. PICK c \in command[r] :
        /\ command' = [command EXCEPT ![r] = @ \ {c}]
        /\ UNCHANGED <<replica, hostWrite, written, call, snapCalls>>
        /\ \/ Snapshot(r, c.call, c.id) /\ AnswerArrives(r, c.call, OK)
           \/ UNCHANGED taken /\ \E e \in {EEXIST, ENOTSUP, EIO} : AnswerArrives(r, c.call, AdminPassthruDone(e))
  BY Zenon DEF CreateRemoteSnapshot, CompleteOk, CompleteError
<1>2. c \in SnapCommands
  BY DEF SnapInv, SnapTypes
<1>3. /\ command' \in [Members -> SUBSET SnapCommands]
      /\ \A q \in Members : q # r => command'[q] = command[q]
      /\ command'[r] \subseteq command[r]
  BY <1>1 DEF SnapInv, SnapTypes
<1>4. CASE Snapshot(r, c.call, c.id) /\ AnswerArrives(r, c.call, OK)
  <2>1. taken' = [taken EXCEPT ![r] = @ \cup {[call |-> c.call, id |-> c.id, data |-> replica[r].data]}]
    BY <1>4 DEF Snapshot
  <2>2. /\ taken' \in [Members -> SUBSET SnapRecords]
        /\ \A q \in Members : taken[q] \subseteq taken'[q]
        /\ [call |-> c.call, id |-> c.id, data |-> replica[r].data] \in taken'[r]
    BY <1>2, <2>1 DEF SnapInv, SnapTypes, ReplicaStates, SnapCommands, SnapRecords
  <2>3. /\ task' \in [Members -> TaskStates]
        /\ \A q \in Members : q # r => task'[q] = task[q]
        /\ task'[r] = task[r] \/ (c.call = snapCalls /\ task[r].at = "sent" /\ task'[r].at = "ended")
    <3>1. \/ task' = task
          \/ c.call = snapCalls /\ task[r].at = "sent" /\ task' = [task EXCEPT ![r] = [at |-> "ended", status |-> 0]]
      BY <1>4 DEF AnswerArrives, TaskEnds, At, OK
    <3> QED BY <3>1 DEF SnapInv, SnapTypes, TaskStates
  <2>4. SnapTypes'
    BY <1>1, <1>3, <2>2, <2>3 DEF SnapInv, SnapTypes
  <2>5. task'[r].at = "ended" /\ task'[r].status = OK => TookIt(r)'
    <3>1. CASE task'[r] = task[r]
      BY <1>1, <2>2, <3>1 DEF SnapInv, EndedTookIt, TookIt
    <3>2. CASE c.call = snapCalls /\ task[r].at = "sent"
      <4>1. c.id = call.id /\ replica[r].data = call.at
        BY <3>2 DEF SnapInv, TakesAtPause
      <4> QED BY <1>1, <2>2, <3>2, <4>1 DEF TookIt
    <3> QED BY <2>3, <3>1, <3>2
  <2> QED BY <1>1, <1>3, <2>2, <2>3, <2>4, <2>5, StepKept
<1>5. ASSUME NEW e \in {EEXIST, ENOTSUP, EIO}, UNCHANGED taken, AnswerArrives(r, c.call, AdminPassthruDone(e))
      PROVE  SnapInv'
  <2>1. AdminPassthruDone(e) \in Nat \ {OK}
    BY DEF AdminPassthruDone, EEXIST, ENOTSUP, EIO, OK
  <2>2. c.call \in Nat
    BY <1>2 DEF SnapCommands
  <2> QED BY <1>1, <1>3, <1>5, <2>1, <2>2, ErrorArrives
<1> QED BY <1>1, <1>4, <1>5

\* The results are listed, and the nexus is resumed.
LEMMA ReportKept ==
  ASSUME SnapInv, AllTaken \/ Resumed
  PROVE  SnapInv'
PROOF
<1>1. UNCHANGED <<replica, hostWrite, written, command, taken, snapCalls>> /\ call.pc \in {"take", "resume"}
  BY DEF AllTaken, Resumed
<1>2. HealthyIsWritten'
  BY <1>1 DEF SnapInv, HealthyIsWritten, IsMember, ReplicaIsHealthy
<1>3. CASE AllTaken
  <2> DEFINE results == {[uuid |-> r, status |-> task[r].status] : r \in Participants(call.list)}
  <2>1. /\ call' = [pc |-> "resume", list |-> call.list, id |-> call.id, at |-> call.at,
                     report |-> [done |-> results, skipped |-> Skipped(call.list), failed |-> call.report.failed]]
        /\ task' = [r \in Members |-> NoTask] /\ call.pc = "take" /\ \A r \in Members : Joined(r)
    BY <1>3, Zenon DEF AllTaken, SnapInv, CallFields
  <2>2. SnapTypes'
    BY <1>1, <2>1 DEF SnapInv, SnapTypes, TaskStates, NoTask, OK
  <2>3. TakesAtPause' /\ EndedTookIt'
    BY <1>1, <2>1 DEF SnapInv, TakesAtPause, EndedTookIt, NoTask
  <2>4. \A d \in results : d.uuid \in Members /\ (d.status = OK => TookIt(d.uuid))
    BY <2>1 DEF SnapInv, TakesAtPause, EndedTookIt, Joined
  <2>5. ReportedTookIt' /\ CallFields'
    BY <1>1, <2>1, <2>4, Zenon DEF ReportedTookIt, TookIt, CallFields
  <2> QED BY <1>2, <2>2, <2>3, <2>5 DEF SnapInv
<1>4. CASE Resumed
  <2>1. /\ call' = [pc |-> "idle", list |-> call.list, id |-> call.id, at |-> call.at, report |-> call.report]
        /\ task' = task /\ call.pc = "resume"
    BY <1>4 DEF Resumed, SnapInv, CallFields
  <2>2. SnapTypes'
    BY <1>1, <2>1 DEF SnapInv, SnapTypes
  <2>3. TakesAtPause' /\ EndedTookIt' /\ ReportedTookIt' /\ CallFields'
    BY <1>1, <2>1 DEF SnapInv, TakesAtPause, EndedTookIt, ReportedTookIt, TookIt, CallFields
  <2> QED BY <1>2, <2>2, <2>3 DEF SnapInv
<1> QED BY <1>3, <1>4

\* Every step of the host, the nexus, its replicas and their targets keeps what
\* is known of the snapshots (nexus_bdev_snapshot.rs).
THEOREM SnapshotInvariance == SnapshotSpec => []SnapInv
PROOF
<1>1. SnapshotInit => SnapInv
  <2> SUFFICES ASSUME SnapshotInit PROVE SnapInv
    OBVIOUS
  <2>1. SnapTypes
    BY DEF SnapshotInit, SnapTypes, ReplicaStates, TaskStates, SnapCommands, SnapRecords, NoCall, NoTask, OK
  <2>2. CallFields /\ HealthyIsWritten /\ ReportedTookIt
    BY DEF SnapshotInit, CallFields, HealthyIsWritten, ReportedTookIt, NoCall, EmptyReport
  <2>3. TakesAtPause /\ EndedTookIt
    BY DEF SnapshotInit, TakesAtPause, EndedTookIt, NoCall, NoTask
  <2> QED BY <2>1, <2>2, <2>3 DEF SnapInv
<1>2. SnapInv /\ [SnapshotNext]_snapshotVars => SnapInv'
  <2> SUFFICES ASSUME SnapInv, [SnapshotNext]_snapshotVars PROVE SnapInv'
    OBVIOUS
  <2>1. CASE UNCHANGED snapshotVars
    BY <2>1 DEF snapshotVars, SnapInv, SnapTypes, CallFields, HealthyIsWritten, TakesAtPause, EndedTookIt, ReportedTookIt,
                TookIt, IsMember, ReplicaIsHealthy, Participants
  <2>2. CASE HostSubmit /\ Members = {}
    BY <2>2 DEF HostSubmit, SnapInv, SnapTypes, CallFields, HealthyIsWritten, TakesAtPause, EndedTookIt, ReportedTookIt,
                Children, AcceptsIo, TookIt
  <2>3. CASE HostSubmit /\ Members # {}
    BY <2>3, HostKept
  <2> QED BY <2>1, <2>2, <2>3, HostKept, BeginKept, PausedKept, TaskKept, CommandKept, RemoteKept, ReportKept
             DEF SnapshotNext, Target
<1> QED BY <1>1, <1>2, PTL DEF SnapshotSpec

\* For any replicas, writes and requests: a snapshot that is reported as taken
\* is there, under the UUID asked for, with every write the host had submitted
\* when the nexus was paused and no other, so the snapshots of one request agree
\* (SnapshotsAgree).
THEOREM SnapshotsAgreeHolds == SnapshotSpec => []SnapshotsAgree
PROOF
<1>1. SnapInv => SnapshotsAgree
  BY DEF SnapInv, ReportedTookIt, TookIt, SnapshotsAgree
<1> QED BY <1>1, SnapshotInvariance, PTL
=============================================================================
