------------------------------ MODULE RebuildJob ------------------------------
(***************************************************************************)
(* A rebuild job of the io-engine: the frontend through which clients and  *)
(* the nexus steer a rebuild (rebuild_job.rs), the two-slot state machine  *)
(* they share with the backend (rebuild_state.rs), and the backend task    *)
(* that walks the segments with a pool of copy tasks                       *)
(* (rebuild_job_backend.rs, rebuild_task.rs, rebuilders.rs).               *)
(*                                                                         *)
(* Everything here runs as futures on the master reactor, so one action is *)
(* what a future does between two awaits.  An operation of the backend     *)
(* that ends its inner loop therefore includes the reconciliation, the     *)
(* start of the next tasks and, when the job is done, the drop of the      *)
(* backend.  Blocks are abstracted to the segments they lie in.            *)
(***************************************************************************)
EXTENDS Naturals

CONSTANTS
    T,             \* copy tasks in the pool (SEGMENT_TASKS)
    N,             \* segments in the range to rebuild
    NexusJob,      \* TRUE: started through NexusRebuildJobStarter;
                   \* FALSE: created by RebuildJob::new
    Partial,       \* TRUE: PartialSeqRebuild with a map; FALSE: FullRebuild
    MaxMessages,   \* bound on queued messages of each kind
    MaxListeners   \* bound on registered completion listeners

ASSUME TAssumption == T \in Nat \ {0}
ASSUME NAssumption == N \in Nat \ {0}
ASSUME FlagsAssumption == NexusJob \in BOOLEAN /\ Partial \in BOOLEAN
ASSUME BoundsAssumption == MaxMessages \in Nat /\ MaxListeners \in Nat

VARIABLES
    current,    \* RebuildStates::current
    pending,    \* RebuildStates::pending
    bpc,        \* where the backend task is suspended
    task,       \* what each copy task is doing; "idle" ones are not active
    seg,        \* the segment last given to each copy task
    next,       \* the segment the range rebuilder yields next
    dirty,      \* the rebuild map: segments not known to be in sync
    done,       \* segments whose success the backend has counted
    wakeups,    \* WakeUp messages in info_chan
    requests,   \* GetStats messages in info_chan
    listeners,  \* senders in complete_chan
    synced,     \* segments of the destination that equal the source
    seen,       \* (history) segments whose error manage_tasks received
    lost,       \* (history) segments whose error await_all_tasks dropped
                \* while the job was about to pause
    forced      \* (history) operations force_terminate promised to finish

states == <<current, pending>>
pool == <<task, seg, next, dirty, done>>
chans == <<wakeups, requests, listeners>>
history == <<seen, lost, forced>>
vars == <<current, pending, bpc, task, seg, next, dirty, done,
          wakeups, requests, listeners, synced, seen, lost, forced>>

None == "none"
Done == {"Stopped", "Failed", "Completed"}
States == {"Init", "Running", "Paused"} \cup Done
Ids == 1..T
Segments == 1..N
TaskStates == {"idle", "copying", "ok", "err"}

Active(tk) == {t \in Ids : tk[t] # "idle"}

-----------------------------------------------------------------------------
(* The state machine shared by frontend and backend: rebuild_state.rs.     *)

\* The outcome of an operation: was it accepted, the new pending state, and
\* whether the backend has to be woken up.
Refused == [ok |-> FALSE, pending |-> pending, wake |-> FALSE]
Unchanged == [ok |-> TRUE, pending |-> pending, wake |-> FALSE]

\* Mutant: the override flag is ignored and every request overrides.
SetPendingAlways(state, override, wake) ==
    [ok |-> TRUE,
     pending |-> IF current # state THEN state ELSE None,
     wake |-> wake]

SetPending(state, override, wake) ==
    IF pending # None /\ ~override /\ pending # state
    THEN Refused
    ELSE [ok |-> TRUE,
          pending |-> IF current # state THEN state ELSE None,
          wake |-> wake]

\* The state an operation asks for, the states it is accepted in, the states
\* it finds already reached, and those in which the backend must be woken up.
Target == [Start |-> "Running", Stop |-> "Stopped", Pause |-> "Paused",
           Resume |-> "Running", Fail |-> "Failed"]
AcceptedIn == [Start |-> {"Init"}, Stop |-> {"Init", "Running", "Paused"},
               Pause |-> {"Init", "Running", "Paused"},
               Resume |-> {"Running", "Paused"}, Fail |-> {"Running"}]
ReachedIn == [Start |-> {"Running"}, Stop |-> {"Stopped"}, Pause |-> {},
              Resume |-> {}, Fail |-> {"Failed"}]
WakesIn == [Start |-> {"Init"}, Stop |-> {"Init", "Paused"}, Pause |-> {},
            Resume |-> {"Running", "Paused"}, Fail |-> {}]

ExecOp(op, override) ==
    IF current \in AcceptedIn[op]
    THEN SetPending(Target[op], override /\ op \in {"Stop", "Fail"},
                    current \in WakesIn[op])
    ELSE IF current \in ReachedIn[op] THEN Unchanged ELSE Refused

-----------------------------------------------------------------------------
Init ==
    /\ current = "Init"
    /\ pending = None
    /\ bpc = "unscheduled"
    /\ task = [t \in Ids |-> "idle"]
    /\ seg = [t \in Ids |-> 1]
    /\ next = 1
    /\ \/ Partial /\ dirty \in SUBSET Segments
       \/ ~Partial /\ dirty = Segments
    /\ synced = Segments \ dirty
    /\ done = {}
    /\ wakeups = 0
    /\ requests = 0
    /\ listeners = 0
    /\ seen = {}
    /\ lost = {}
    /\ forced = {}

-----------------------------------------------------------------------------
(* The backend: RebuildJobBackendManager::run and what it calls.           *)

\* Drop of the backend: the channel is closed and drained, every stats
\* requester and every completion listener is answered.
Drop ==
    /\ bpc' = "dropped"
    /\ wakeups' = 0
    /\ requests' = 0
    /\ listeners' = 0

\* complete(): only ever called while running and with no active task, after
\* which the run loop reconciles Completed and ends.
Complete(tk) ==
    /\ current' = "Completed"
    /\ pending' = None
    /\ task' = tk
    /\ UNCHANGED <<seg, next>>
    /\ Drop

\* start_all_tasks(): tasks take the next segments in the order of their ids.
StartAllTasks ==
    LET started == {t \in Ids : next + t - 1 <= N}
    IN  /\ task' = [t \in Ids |-> IF t \in started THEN "copying" ELSE "idle"]
        /\ seg' = [t \in Ids |-> IF t \in started THEN next + t - 1 ELSE seg[t]]
        /\ next' = IF next + T <= N + 1 THEN next + T ELSE N + 1

\* The head of the run loop, entered with no active task (tk has none) and
\* with p pending: reconcile, then stop, wait for a message, or start tasks.
\* w and r are the messages left in the channel.
LoopHead(p, tk, w, r) ==
    LET new == IF p = None THEN current ELSE p
    IN  \/ /\ new \in Done
           /\ current' = new
           /\ pending' = None
           /\ task' = tk
           /\ UNCHANGED <<seg, next>>
           /\ Drop
        \/ /\ new \in {"Init", "Paused"}
           /\ current' = new
           /\ pending' = None
           /\ task' = tk
           /\ bpc' = "recv"
           /\ wakeups' = w
           /\ requests' = r
           /\ UNCHANGED <<seg, next, listeners>>
        \/ /\ new = "Running"
           /\ next <= N
           /\ current' = new
           /\ pending' = None
           /\ StartAllTasks
           /\ bpc' = "manage"
           /\ wakeups' = w
           /\ requests' = r
           /\ UNCHANGED listeners
        \/ /\ new = "Running"
           /\ next > N
           /\ Complete(tk)

\* First poll of the backend future after schedule().
FirstPoll ==
    /\ bpc = "scheduled"
    /\ LoopHead(pending, task, wakeups, requests)
    /\ UNCHANGED <<dirty, done, synced, history>>

\* A message reaches the backend while it is not running.
ReceiveMessage ==
    /\ bpc = "recv"
    /\ \/ wakeups > 0 /\ LoopHead(pending, task, wakeups - 1, requests)
       \/ requests > 0 /\ LoopHead(pending, task, wakeups, requests - 1)
    /\ UNCHANGED <<dirty, done, synced, history>>

\* A message reaches the backend while tasks are active: select! drops the
\* manage_tasks future wherever it was suspended, and the inner loop creates
\* a new one that starts from the beginning.
InterruptTasks ==
    /\ bpc \in {"manage", "await_all"}
    /\ \/ wakeups > 0 /\ wakeups' = wakeups - 1 /\ UNCHANGED requests
       \/ requests > 0 /\ requests' = requests - 1 /\ UNCHANGED wakeups
    /\ bpc' = "manage"
    /\ UNCHANGED <<states, pool, listeners, synced, history>>

\* await_one_task(): the pool counts the result of task t, if it was a success.
AwaitOneTask(t) ==
    done' = IF task[t] = "ok" THEN done \cup {seg[t]} ELSE done

\* Mutant: the inner loop is not left when the last task has ended.
AwaitOthersForever(pc, p, tk) ==
    /\ bpc' = pc
    /\ pending' = p
    /\ task' = tk
    /\ UNCHANGED <<current, seg, next, chans>>

\* After a result that starts no new task: carry on waiting at pc for the
\* other tasks, or leave the inner loop when there are none.
AwaitOthers(pc, p, tk) ==
    \/ /\ Active(tk) # {}
       /\ bpc' = pc
       /\ pending' = p
       /\ task' = tk
       /\ UNCHANGED <<current, seg, next, chans>>
    \/ /\ Active(tk) = {}
       /\ LoopHead(p, tk, wakeups, requests)

\* manage_tasks(), a failed segment: the job fails, overriding any pending
\* operation, and the other tasks are awaited.
ManageError(t) ==
    /\ task[t] = "err"
    /\ seen' = seen \cup {seg[t]}
    /\ AwaitOthers("await_all", "Failed", [task EXCEPT ![t] = "idle"])

\* Mutant: the job completes when the range is exhausted, without waiting for
\* the other active tasks.
ManageSuccessEarly(t) ==
    /\ task[t] = "ok"
    /\ pending \in {None, "Running"}
    /\ \/ /\ next <= N
          /\ task' = [task EXCEPT ![t] = "copying"]
          /\ seg' = [seg EXCEPT ![t] = next]
          /\ next' = next + 1
          /\ UNCHANGED <<states, bpc, chans>>
       \/ /\ next > N
          /\ Complete([task EXCEPT ![t] = "idle"])
    /\ UNCHANGED seen

\* manage_tasks(), a copied segment and nothing pending: start_task_by_id
\* gives the task the next segment; when there is none the last active task
\* completes the job.
ManageSuccess(t) ==
    /\ task[t] = "ok"
    /\ pending \in {None, "Running"}
    /\ \/ /\ next <= N
          /\ task' = [task EXCEPT ![t] = "copying"]
          /\ seg' = [seg EXCEPT ![t] = next]
          /\ next' = next + 1
          /\ UNCHANGED <<states, bpc, chans>>
       \/ /\ next > N
          /\ Active(task) # {t}
          /\ task' = [task EXCEPT ![t] = "idle"]
          /\ UNCHANGED <<states, bpc, seg, next, chans>>
       \/ /\ next > N
          /\ Active(task) = {t}
          /\ Complete([task EXCEPT ![t] = "idle"])
    /\ UNCHANGED seen

\* manage_tasks(), a copied segment while another state is pending.
ManageQuiesce(t) ==
    /\ task[t] = "ok"
    /\ pending \notin {None, "Running"}
    /\ AwaitOthers("await_all", pending, [task EXCEPT ![t] = "idle"])
    /\ UNCHANGED seen

ManageTasks(t) ==
    /\ bpc = "manage"
    /\ AwaitOneTask(t)
    /\ ManageError(t) \/ ManageSuccess(t) \/ ManageQuiesce(t)
    /\ UNCHANGED <<dirty, synced, lost, forced>>

\* await_all_tasks(): results are taken until no task is active, and the
\* errors in them are not looked at.
AwaitAllTasks(t) ==
    /\ bpc = "await_all"
    /\ task[t] \in {"ok", "err"}
    /\ AwaitOneTask(t)
    /\ lost' = IF task[t] = "err" /\ pending = "Paused"
               THEN lost \cup {seg[t]} ELSE lost
    /\ AwaitOthers("await_all", pending, [task EXCEPT ![t] = "idle"])
    /\ UNCHANGED <<dirty, synced, seen, forced>>

TakeResult(t) == ManageTasks(t) \/ AwaitAllTasks(t)

-----------------------------------------------------------------------------
(* The copy tasks: schedule_segment_rebuild, copy_segment, copy_one.       *)

\* A segment is found clean in the map, is copied, or the copy fails at one
\* of its steps: locking the range, reading, writing, verifying (after the
\* write) or unlocking (after the write).
Copy(t) ==
    /\ task[t] = "copying"
    /\ \/ /\ seg[t] \notin dirty
          /\ task' = [task EXCEPT ![t] = "ok"]
          /\ UNCHANGED <<dirty, synced>>
       \/ /\ seg[t] \in dirty
          /\ task' = [task EXCEPT ![t] = "ok"]
          /\ dirty' = IF Partial THEN dirty \ {seg[t]} ELSE dirty
          /\ synced' = synced \cup {seg[t]}
       \/ /\ seg[t] \in dirty
          /\ task' = [task EXCEPT ![t] = "err"]
          /\ synced' \in {synced, synced \cup {seg[t]}}
          /\ UNCHANGED dirty

CopySegment(t) ==
    /\ Copy(t)
    /\ UNCHANGED <<states, bpc, seg, next, done, chans, history>>

-----------------------------------------------------------------------------
(* The frontend.                                                           *)

\* A nexus job is in the list of jobs before its backend is scheduled; the
\* handle of any other job is returned by new() after that.
Visible == (NexusJob \/ bpc # "unscheduled") /\ bpc # "dropped"

\* exec_op() of the frontend: apply the operation, send a wake-up if told to.
Execute(op, override) ==
    LET r == ExecOp(op, override)
    IN  /\ pending' = r.pending
        /\ wakeups' = IF r.wake THEN wakeups + 1 ELSE wakeups

\* The bound on the wake-ups that clients queue up.
Bounded(op, override) == ExecOp(op, override).wake => wakeups < MaxMessages

\* stop(), pause(), resume()
ClientOp(op) ==
    /\ Visible
    /\ Bounded(op, FALSE)
    /\ Execute(op, FALSE)
    /\ UNCHANGED <<current, bpc, pool, requests, listeners, synced, history>>

\* start(): a listener is registered if the operation is accepted.
StartOp ==
    /\ Execute("Start", FALSE)
    /\ listeners' = IF ExecOp("Start", FALSE).ok THEN listeners + 1 ELSE listeners
    /\ UNCHANGED <<current, pool, requests, synced, history>>

\* RebuildJob::new schedules the backend; start() comes later.
Schedule ==
    /\ ~NexusJob
    /\ bpc = "unscheduled"
    /\ bpc' = "scheduled"
    /\ UNCHANGED <<states, pool, chans, synced, history>>

ClientStart ==
    /\ ~NexusJob
    /\ Visible
    /\ Bounded("Start", FALSE)
    /\ listeners < MaxListeners
    /\ StartOp
    /\ UNCHANGED bpc

\* NexusRebuildJobStarter::start schedules the backend and starts the job
\* without an await in between.
StarterStart ==
    /\ NexusJob
    /\ bpc = "unscheduled"
    /\ bpc' = "scheduled"
    /\ StartOp

\* force_stop(), force_fail(): a refusal is ignored, a listener is registered
\* in any case.
ForceTerminate(op) ==
    /\ Visible
    /\ Bounded(op, TRUE)
    /\ listeners < MaxListeners
    /\ Execute(op, TRUE)
    /\ listeners' = listeners + 1
    /\ forced' = forced \cup {op}
    /\ UNCHANGED <<current, bpc, pool, requests, synced, seen, lost>>

\* stats(): a request is queued and its answer awaited.
GetStats ==
    /\ Visible
    /\ requests < MaxMessages
    /\ requests' = requests + 1
    /\ UNCHANGED <<states, bpc, pool, wakeups, listeners, synced, history>>

-----------------------------------------------------------------------------
Backend == FirstPoll \/ ReceiveMessage \/ InterruptTasks \/ \E t \in Ids : TakeResult(t)

Frontend ==
    \/ Schedule
    \/ ClientStart
    \/ StarterStart
    \/ \E op \in {"Stop", "Pause", "Resume"} : ClientOp(op)
    \/ \E op \in {"Stop", "Fail"} : ForceTerminate(op)
    \/ GetStats

Next == Backend \/ Frontend \/ \E t \in Ids : CopySegment(t)

Spec == Init /\ [][Next]_vars

\* The reactor polls every ready future: the backend when it has a message or
\* a result, and start_rebuild, which always gets to start its job.  select!
\* polls its branches in random order, so neither messages nor results starve.
\* A segment copy ends because the I/O it consists of does.
Fairness ==
    /\ WF_vars(Schedule)
    /\ WF_vars(StarterStart)
    /\ WF_vars(FirstPoll)
    /\ WF_vars(ReceiveMessage)
    /\ WF_vars(InterruptTasks)
    /\ \A t \in Ids : WF_vars(TakeResult(t)) /\ WF_vars(CopySegment(t))

FairSpec == Spec /\ Fairness

-----------------------------------------------------------------------------
(***************************************************************************)
(* The values the variables take: no copy task is ever given a segment     *)
(* past the end of the range, however often the job is paused and resumed. *)
(***************************************************************************)
TypeOK ==
    /\ current \in States
    /\ pending \in (States \ {"Init"}) \cup {None}
    /\ bpc \in {"unscheduled", "scheduled", "recv", "manage", "await_all", "dropped"}
    /\ task \in [Ids -> TaskStates]
    /\ seg \in [Ids -> Segments]
    /\ next \in 1..(N + 1)
    /\ dirty \in SUBSET Segments
    /\ done \in SUBSET Segments
    /\ wakeups \in Nat
    /\ requests \in Nat
    /\ listeners \in Nat
    /\ synced \in SUBSET Segments
    /\ seen \in SUBSET Segments
    /\ lost \in SUBSET Segments
    /\ forced \in SUBSET {"Stop", "Fail"}

(***************************************************************************)
(* When a job is Completed every segment of the destination equals the     *)
(* source, except for segments whose failure await_all_tasks dropped while *)
(* the job was about to pause.  Completed is what makes the nexus mark the *)
(* child as in sync and persist it as healthy (on_rebuild_update).         *)
(***************************************************************************)
CompletedIsSynced == current = "Completed" => Segments \ lost \subseteq synced

(***************************************************************************)
(* An error manage_tasks has received ends in Failed, or in Stopped if a   *)
(* force_stop overrides it; no later operation can turn it into a          *)
(* completion or let the job go on.                                        *)
(***************************************************************************)
ErrorIsFinal ==
    seen # {} => \/ current = "Running" /\ pending \in {"Failed", "Stopped"}
                 \/ current \in {"Failed", "Stopped"}

(***************************************************************************)
(* No copy task is left running, and no result unread, once the job leaves *)
(* Running: the source or destination may be closed then.  This is also    *)
(* what start_all_tasks asserts when a job resumes.                        *)
(***************************************************************************)
QuiescentUnlessRunning == current # "Running" => Active(task) = {}

(***************************************************************************)
(* The assertion in stats(): the progress is 100% only if no blocks        *)
(* remain, i.e. the range is exhausted (full) or the map clean (partial).  *)
(***************************************************************************)
StatsConsistent ==
    done = Segments => IF Partial THEN dirty = {} ELSE next = N + 1

(***************************************************************************)
(* What the owner of a job relies on whenever it acts on it: an error      *)
(* stays an error, and nothing copies behind the owner's back.             *)
(***************************************************************************)
JobIsSound == ErrorIsFinal /\ QuiescentUnlessRunning

(***************************************************************************)
(* Whoever forces a job to stop gets its completion: the backend ends and  *)
(* answers the listeners, whatever clients request meanwhile.              *)
(***************************************************************************)
ForcedStopTerminates == ("Stop" \in forced) ~> (bpc = "dropped")

(***************************************************************************)
(* A state change accepted while the job is running is applied, though the *)
(* frontend sends no wake-up for it.                                       *)
(***************************************************************************)
PendingIsApplied == (current = "Running" /\ pending # None) ~> (pending = None)

(***************************************************************************)
(* A stats request is answered, in every state of the job: a request that  *)
(* is queued when the backend ends is answered by its drop.                *)
(***************************************************************************)
StatsAnswered == (requests > 0) ~> (requests = 0)

(***************************************************************************)
(* What is asked of a job comes about, and whoever waits for it is         *)
(* answered.                                                               *)
(***************************************************************************)
RequestsApplied == ForcedStopTerminates /\ PendingIsApplied /\ StatsAnswered
=============================================================================
