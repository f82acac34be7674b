---------------------------- MODULE NexusIoSubsystem ----------------------------
(***************************************************************************)
(* The I/O subsystem of a nexus (nexus_io_subsystem.rs): retire, remove    *)
(* and snapshot routines, shutdown and reset all pause the nexus while     *)
(* they work, each with a pause() and a resume() of its own, and the       *)
(* subsystem serialises them with a counter and a queue of waiters over    *)
(* the one NVMe-oF subsystem that exports the nexus.                       *)
(*                                                                         *)
(* Sharing, unsharing and ANA changes act on the same NVMe-oF subsystem    *)
(* without going through the counter (nexus_share.rs, set_ana_state).      *)
(* They come from RPCs, which are serialised per nexus, so one process     *)
(* stands for all of them.  Everything runs on the master core: an action  *)
(* is what a future does between two awaits.                               *)
(***************************************************************************)
EXTENDS Naturals, Sequences, FiniteSets

CONSTANTS
    Callers,    \* routines that pause and resume the nexus
    MaxCalls,   \* bound on the pauses of each of them
    RpcOps      \* which of the other operations happen: "share", "unshare", "ana"

ASSUME CallersAssumption == IsFiniteSet(Callers)
ASSUME MaxCallsAssumption == MaxCalls \in Nat
ASSUME RpcOpsAssumption == RpcOps \subseteq {"share", "unshare", "ana"}

VARIABLES
    pause_state,    \* NexusIoSubsystem::pause_state
    pause_cnt,      \* NexusIoSubsystem::pause_cnt
    pause_waiters,  \* NexusIoSubsystem::pause_waiters
    pc,             \* where each caller is
    calls,          \* how often each caller has paused the nexus
    ss,             \* the NVMe-oF subsystem
    queue,          \* state changes SPDK has queued for it
    rpc,            \* where the current RPC is
    reply,          \* the outcome of the last state change the RPC asked for
    shared          \* NexusInfo::shared in the persistent store

counter == <<pause_state, pause_cnt>>
callers == <<pc, calls, pause_waiters>>
target == <<ss, queue>>
rpcs == <<rpc, reply, shared>>
vars == <<pause_state, pause_cnt, pause_waiters, pc, calls, ss, queue, rpc, reply, shared>>

Rpc == "rpc"
Requests == [who : Callers \cup {Rpc}, op : {"pause", "resume", "start", "stop"}]
PauseStates == {"Unpaused", "Pausing", "Paused", "Frozen", "Unpausing"}

Init ==
    /\ pause_state = "Unpaused"
    /\ pause_cnt = 0
    /\ pause_waiters = <<>>
    /\ pc = [c \in Callers |-> "idle"]
    /\ calls = [c \in Callers |-> 0]
    /\ \/ ss = "none" /\ shared = "no"
       \/ ss = "active" /\ shared = "yes"
    /\ queue = <<>>
    /\ rpc = "idle"
    /\ reply = "ok"

-----------------------------------------------------------------------------
(* The NVMe-oF subsystem: SPDK applies state changes one at a time, in the *)
(* order they were requested.                                              *)

Request(who, op) == queue' = Append(queue, [who |-> who, op |-> op])
Answered(who) == \A i \in DOMAIN queue : queue[i].who # who

\* What a state change makes of the subsystem.  A pause of a subsystem that is
\* stopped fails; a resume restarts it.
StateChange(op, ok) ==
    IF ~ok THEN ss
    ELSE [pause |-> "paused", resume |-> "active", start |-> "active", stop |-> "inactive"][op]

\* The outcomes a state change can have.
Outcomes(op) ==
    IF ss = "none" \/ (op = "pause" /\ ss = "inactive") THEN {FALSE}
    ELSE IF op \in {"pause", "resume"} THEN {TRUE}
    ELSE BOOLEAN

SpdkStateChange ==
    /\ queue # <<>>
    /\ \E ok \in Outcomes(Head(queue).op) :
          /\ ss' = StateChange(Head(queue).op, ok)
          /\ reply' = IF Head(queue).who # Rpc THEN reply
                      ELSE IF ok THEN "ok" ELSE "err"
    /\ queue' = Tail(queue)
    /\ UNCHANGED <<counter, callers, rpc, shared>>

-----------------------------------------------------------------------------
(* suspend() and resume().                                                 *)

\* Mutant: the waiters are left alone.
ReturnSilently(c, to) ==
    /\ pause_waiters' = pause_waiters
    /\ pc' = [pc EXCEPT ![c] = to]

\* The end of both: the caller goes on at to, and the first waiter is woken.
Return(c, to) ==
    \/ /\ pause_waiters = <<>>
       /\ pc' = [pc EXCEPT ![c] = to]
       /\ UNCHANGED pause_waiters
    \/ /\ pause_waiters # <<>>
       /\ pc' = [pc EXCEPT ![c] = to, ![Head(pause_waiters)] = "suspend"]
       /\ pause_waiters' = Tail(pause_waiters)

SuspendAgain(c) ==
    /\ pause_state \in {"Paused", "Frozen"}
    /\ pause_cnt' = pause_cnt + 1
    /\ Return(c, "held")
    /\ UNCHANGED <<pause_state, target>>

\* Mutant: a pause that meets a transition goes ahead as if it were paused.
SuspendDuringTransition(c) ==
    /\ pause_state \in {"Pausing", "Unpausing"}
    /\ pause_cnt' = pause_cnt + 1
    /\ pc' = [pc EXCEPT ![c] = "held"]
    /\ UNCHANGED <<pause_state, pause_waiters, target>>

\* A transition is under way: wait in the queue for its end and try again.
SuspendWait(c) ==
    /\ pause_state \in {"Pausing", "Unpausing"}
    /\ pc' = [pc EXCEPT ![c] = "suspend_wait"]
    /\ pause_waiters' = Append(pause_waiters, c)
    /\ UNCHANGED <<counter, target>>

\* The first pause: the NVMe-oF subsystem is paused if the nexus is shared.
SuspendFirst(c) ==
    /\ pause_state = "Unpaused"
    /\ pause_cnt' = pause_cnt + 1
    /\ \/ /\ ss # "none"
          /\ pause_state' = "Pausing"
          /\ Request(c, "pause")
          /\ pc' = [pc EXCEPT ![c] = "pausing"]
          /\ UNCHANGED <<pause_waiters, ss>>
       \/ /\ ss = "none"
          /\ pause_state' = "Paused"
          /\ Return(c, "held")
          /\ UNCHANGED target

\* suspend() up to its first await.
SuspendOnce(c) == SuspendFirst(c) \/ SuspendAgain(c) \/ SuspendWait(c)

Suspend(c) ==
    /\ pc[c] = "idle"
    /\ calls[c] < MaxCalls
    /\ calls' = [calls EXCEPT ![c] = @ + 1]
    /\ SuspendOnce(c)
    /\ UNCHANGED rpcs

\* A waiter that was woken goes around the loop.
SuspendRetry(c) ==
    /\ pc[c] = "suspend"
    /\ SuspendOnce(c)
    /\ UNCHANGED <<calls, rpcs>>

\* The pause of the NVMe-oF subsystem has ended; one that failed because the
\* subsystem is stopped counts as paused too.
SuspendDone(c) ==
    /\ pc[c] = "pausing"
    /\ Answered(c)
    /\ pause_state' = "Paused"
    /\ Return(c, "held")
    /\ UNCHANGED <<pause_cnt, calls, target, rpcs>>

\* resume(freeze) up to its first await.  It is called by those who hold a
\* pause, so the states in which it waits or bails out do not occur: see
\* HeldIsPaused.
ResumeOnce(c, freeze) ==
    /\ pause_cnt' = pause_cnt - 1
    /\ \/ /\ pause_cnt # 1
          /\ Return(c, "idle")
          /\ UNCHANGED <<pause_state, target>>
       \/ /\ pause_cnt = 1
          /\ pause_state = "Frozen" \/ freeze
          /\ pause_state' = "Frozen"
          /\ Return(c, "idle")
          /\ UNCHANGED target
       \/ /\ pause_cnt = 1
          /\ pause_state # "Frozen" /\ ~freeze
          /\ ss # "none"
          /\ pause_state' = "Unpausing"
          /\ Request(c, "resume")
          /\ pc' = [pc EXCEPT ![c] = "unpausing"]
          /\ UNCHANGED <<pause_waiters, ss>>
       \/ /\ pause_cnt = 1
          /\ pause_state # "Frozen" /\ ~freeze
          /\ ss = "none"
          /\ pause_state' = "Unpaused"
          /\ Return(c, "idle")
          /\ UNCHANGED target

\* Nexus::resume: freeze says that the nexus is faulted at the moment.
Resume(c) ==
    /\ pc[c] = "held"
    /\ pause_state \in {"Paused", "Frozen"}
    /\ \E freeze \in BOOLEAN : ResumeOnce(c, freeze)
    /\ UNCHANGED <<calls, rpcs>>

ResumeDone(c) ==
    /\ pc[c] = "unpausing"
    /\ Answered(c)
    /\ pause_state' = "Unpaused"
    /\ Return(c, "idle")
    /\ UNCHANGED <<pause_cnt, calls, target, rpcs>>

-----------------------------------------------------------------------------
(* Operations that reach the NVMe-oF subsystem past the counter.           *)

\* share_ext, share_nvmf: a nexus that is shared already stays as it is.
Share ==
    /\ "share" \in RpcOps
    /\ rpc = "idle"
    /\ ss = "none"
    /\ rpc' = "share_persist"
    /\ UNCHANGED <<counter, callers, target, reply, shared>>

\* The store is told first; if that fails (executed or not) nothing is shared.
SharePersist ==
    /\ rpc = "share_persist"
    /\ \/ shared' = "yes" /\ ss' = "inactive" /\ rpc' = "listen"
       \/ shared' \in {shared, "yes"} /\ rpc' = "idle" /\ UNCHANGED ss
    /\ UNCHANGED <<counter, callers, queue, reply>>

\* The hosts and the listeners are set up, then the subsystem is started.
ShareStart ==
    /\ rpc = "listen"
    /\ Request(Rpc, "start")
    /\ rpc' = "start"
    /\ UNCHANGED <<counter, callers, ss, reply, shared>>

\* A subsystem that did not start is destroyed.
ShareDone ==
    /\ rpc = "start"
    /\ Answered(Rpc)
    /\ ss' = IF reply = "ok" THEN ss ELSE "none"
    /\ rpc' = "idle"
    /\ UNCHANGED <<counter, callers, queue, reply, shared>>

\* unshare_nexus: stop the subsystem if there is one.
Unshare ==
    /\ "unshare" \in RpcOps
    /\ rpc = "idle"
    /\ \/ ss # "none" /\ Request(Rpc, "stop") /\ rpc' = "stop"
       \/ ss = "none" /\ rpc' = "unshare_persist" /\ UNCHANGED queue
    /\ UNCHANGED <<counter, callers, ss, reply, shared>>

\* Destroying fails if a resume has restarted the subsystem; the store is only
\* updated if the subsystem is really gone.
UnshareStopped ==
    /\ rpc = "stop"
    /\ Answered(Rpc)
    /\ ss' = IF reply = "ok" /\ ss # "active" THEN "none" ELSE ss
    /\ rpc' = IF ss' = "none" THEN "unshare_persist" ELSE "idle"
    /\ UNCHANGED <<counter, callers, queue, reply, shared>>

\* Best effort: a failed update, executed or not, is only logged.
UnsharePersist ==
    /\ rpc = "unshare_persist"
    /\ shared' \in {shared, "no"}
    /\ rpc' = "idle"
    /\ UNCHANGED <<counter, callers, target, reply>>

\* set_ana_state: pause, set, resume, each with an await.
AnaPause ==
    /\ "ana" \in RpcOps
    /\ rpc = "idle"
    /\ ss # "none"
    /\ Request(Rpc, "pause")
    /\ rpc' = "ana_pause"
    /\ UNCHANGED <<counter, callers, ss, reply, shared>>

AnaSet ==
    /\ rpc = "ana_pause"
    /\ Answered(Rpc)
    /\ rpc' = IF reply = "ok" THEN "ana_set" ELSE "idle"
    /\ UNCHANGED <<counter, callers, target, reply, shared>>

AnaResume ==
    /\ rpc = "ana_set"
    /\ Request(Rpc, "resume")
    /\ rpc' = "ana_resume"
    /\ UNCHANGED <<counter, callers, ss, reply, shared>>

AnaDone ==
    /\ rpc = "ana_resume"
    /\ Answered(Rpc)
    /\ rpc' = "idle"
    /\ UNCHANGED <<counter, callers, target, reply, shared>>

-----------------------------------------------------------------------------
CallerStep(c) == Suspend(c) \/ SuspendRetry(c) \/ SuspendDone(c) \/ Resume(c) \/ ResumeDone(c)

RpcStep ==
    \/ Share \/ SharePersist \/ ShareStart \/ ShareDone
    \/ Unshare \/ UnshareStopped \/ UnsharePersist
    \/ AnaPause \/ AnaSet \/ AnaResume \/ AnaDone

Next == SpdkStateChange \/ RpcStep \/ \E c \in Callers : CallerStep(c)

Spec == Init /\ [][Next]_vars

\* Woken futures are polled, and SPDK ends every state change: the I/O it has
\* to wait for completes.  Nobody has to pause or to resume.
Fairness ==
    /\ WF_vars(SpdkStateChange)
    /\ \A c \in Callers :
          WF_vars(SuspendRetry(c)) /\ WF_vars(SuspendDone(c)) /\ WF_vars(ResumeDone(c))

FairSpec == Spec /\ Fairness

-----------------------------------------------------------------------------
(***************************************************************************)
(* The values the variables take: in particular the pause counter, an      *)
(* unsigned integer that resume() decrements unchecked, stays a natural.   *)
(***************************************************************************)
TypeOK ==
    /\ pause_state \in PauseStates
    /\ pause_cnt \in Nat
    /\ pause_waiters \in Seq(Callers)
    /\ pc \in [Callers -> {"idle", "suspend", "suspend_wait", "pausing", "held", "unpausing"}]
    /\ calls \in [Callers -> 0..MaxCalls]
    /\ ss \in {"none", "inactive", "active", "paused"}
    /\ queue \in Seq(Requests)
    /\ rpc \in {"idle", "share_persist", "listen", "start", "stop", "unshare_persist",
                "ana_pause", "ana_set", "ana_resume"}
    /\ reply \in {"ok", "err"}
    /\ shared \in {"yes", "no"}

Holders == {c \in Callers : pc[c] \in {"pausing", "held"}}

(***************************************************************************)
(* The pause counter is the number of pauses not yet undone.  This is why  *)
(* the assertion "Corrupted subsystem pause counter" in suspend() holds,   *)
(* and why the subtraction in resume() does not wrap around.               *)
(***************************************************************************)
CounterIsHolders == pause_cnt = Cardinality(Holders)

(***************************************************************************)
(* Whoever has been told that the nexus is paused finds it paused (or      *)
(* frozen) until they resume it themselves, whatever the others do.        *)
(***************************************************************************)
HeldIsPaused ==
    \A c \in Callers : pc[c] = "held" => pause_state \in {"Paused", "Frozen"}

(***************************************************************************)
(* No waiter is forgotten: while some wait, a transition is under way that *)
(* will wake the first, or one has been woken and will wake the next.      *)
(***************************************************************************)
NoWaiterForgotten ==
    pause_waiters # <<>> =>
        \/ pause_state \in {"Pausing", "Unpausing"}
        \/ \E c \in Callers : pc[c] = "suspend"

(***************************************************************************)
(* A nexus that initiators may write to is marked as shared in the store,  *)
(* whenever the node crashes (comment in share_nvmf).                      *)
(***************************************************************************)
LiveIsMarkedShared == ss = "active" => shared = "yes"

(***************************************************************************)
(* What suspend(), resume() and the requests that share a nexus promise    *)
(* each other, together.                                                   *)
(***************************************************************************)
PauseIsSound == CounterIsHolders /\ HeldIsPaused /\ NoWaiterForgotten /\ LiveIsMarkedShared

(***************************************************************************)
(* A nexus frozen because it is faulted is never resumed, even if it is    *)
(* not faulted any more when the last pause is undone.                     *)
(***************************************************************************)
FrozenForGood == [][pause_state = "Frozen" => pause_state' = "Frozen"]_vars

(***************************************************************************)
(* Every pause() returns, even if no other holder ever resumes.            *)
(***************************************************************************)
SuspendReturns ==
    \A c \in Callers : (pc[c] \in {"suspend", "suspend_wait", "pausing"}) ~> (pc[c] = "held")

(***************************************************************************)
(* Every resume() returns.                                                 *)
(***************************************************************************)
ResumeReturns == \A c \in Callers : (pc[c] = "unpausing") ~> (pc[c] = "idle")

(***************************************************************************)
(* No routine hangs in a pause or a resume.                                *)
(***************************************************************************)
PausesReturn == SuspendReturns /\ ResumeReturns
=============================================================================
