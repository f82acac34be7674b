------------------------------- MODULE Reactor -------------------------------
(***************************************************************************)
(* The reactors: one event loop per core, which runs the futures sent to   *)
(* it and polls the SPDK threads scheduled on it.  A reactor either polls, *)
(* polls with a delay, or, in interrupt mode, sleeps in the fd group into  *)
(* which the fd groups of its threads are nested, until an eventfd or a    *)
(* thread wakes it.  Other cores push futures and threads into the queues  *)
(* of a reactor, write its eventfd and set its state at any point of its   *)
(* loop.  Once per interval the monitor sends each reactor a heartbeat,    *)
(* and compares the counters that the heartbeats advance with the number   *)
(* of intervals.                                                           *)
(***************************************************************************)
EXTENDS Naturals

CONSTANTS Cores, Master, Threads, InitThread,
          Setups,       \* the pairs of mode and driver that are explored
          MaxFutures,   \* bound: futures sent
          MaxFailures   \* bound: fd groups that cannot be nested

VARIABLES
  mode,       \* "poll", "delayed" (developer_delay) or "interrupt"
  driver,     \* what drives the master: "loop" (poll_reactor) or "future" (Future::poll)
  flags,      \* ReactorState of each reactor
  pc,         \* the step of each loop
  branch,     \* the arm of the match that the loop is in
  threads, incoming,    \* the threads of a reactor, and those scheduled to it; their order in
                        \* the queues does not matter: every one is polled and every one joins
  nested,     \* the threads whose fd group is in the one of the reactor
  rx,         \* futures sent to a reactor and not received
  queue,      \* QUEUE: the tasks of a core that are ready to run
  wakeup,     \* the eventfd of a reactor is readable
  kick,       \* the reactor that a core, or the tokio runtime, is about to wake
  life,       \* of a thread: "none", "runs", "exits" (asked to), "exited", "destroyed"
  sent, failures,
  stopping,   \* reactors_stop has run
  overwritten \* ghost: reactors whose Shutdown was replaced by another state

reactorVars == <<mode, driver, flags, pc, branch, threads, incoming, nested, rx, queue,
                 wakeup, kick, life, sent, failures, stopping, overwritten>>
loopVars == <<threads, incoming, nested, rx, queue, wakeup, kick, life, sent, failures, stopping>>

None == "none"

ASSUME ReactorAssumption ==
  None \notin Cores /\ Master \in Cores /\ InitThread \in Threads /\ MaxFutures \in Nat

Senders == Cores \cup {"tokio"}
Steps == {"launch", "enter", "loop", "wait", "receive", "run", "threads", "incoming",
          "fallback", "exited", "stopped"}
States == {"Init", "Running", "Shutdown", "Delayed", "Interrupt"}

\* The master has its init thread, which block_on() polled during start-up.
ReactorInit ==
  /\ \E s \in Setups : mode = s[1] /\ driver = s[2]
  /\ flags = [c \in Cores |-> "Init"] /\ pc = [c \in Cores |-> "launch"]
  /\ branch = [c \in Cores |-> "poll"]
  /\ threads = [c \in Cores |-> IF c = Master THEN {InitThread} ELSE {}]
  /\ incoming = [c \in Cores |-> {}] /\ nested = [c \in Cores |-> {}]
  /\ rx = [c \in Cores |-> 0] /\ queue = [c \in Cores |-> 0]
  /\ wakeup = [c \in Cores |-> FALSE] /\ kick = [s \in Senders |-> None]
  /\ life = [t \in Threads |-> IF t = InitThread THEN "runs" ELSE None]
  /\ sent = 0 /\ failures = 0 /\ stopping = FALSE /\ overwritten = {}

ByFuture(c) == c = Master /\ driver = "future"

\* set_state(): a plain store, whatever the state is by now.
SetState(c, s) ==
  /\ flags' = [flags EXCEPT ![c] = s]
  /\ overwritten' = IF flags[c] = "Shutdown" THEN overwritten \cup {c} ELSE overwritten

InitRunning(c) == SetState(c, IF mode = "delayed" THEN "Delayed" ELSE "Running")

At(c, step) == pc[c] = step /\ kick[c] = None
To(c, step) == pc' = [pc EXCEPT ![c] = step]

-----------------------------------------------------------------------------
(* Sending futures and threads to a reactor.                               *)

\* send_future(): the future is queued, then the eventfd is written.
SendFuture(s, d) ==
  /\ sent < MaxFutures
  /\ sent' = sent + 1
  /\ rx' = [rx EXCEPT ![d] = @ + 1]
  /\ kick' = [kick EXCEPT ![s] = d]
  /\ UNCHANGED <<wakeup, incoming, life>>

\* Mutant: a scheduled thread does not wake the reactor.
ScheduleQuietly(s, d, t) ==
  /\ life[t] = None
  /\ life' = [life EXCEPT ![t] = "runs"]
  /\ incoming' = [incoming EXCEPT ![d] = @ \cup {t}]
  /\ UNCHANGED <<kick, rx, sent, wakeup>>

\* schedule(): a new thread goes to the first reactor of its mask; the reactor
\* of another core is woken.
Schedule(s, d, t) ==
  /\ life[t] = None
  /\ life' = [life EXCEPT ![t] = "runs"]
  /\ incoming' = [incoming EXCEPT ![d] = @ \cup {t}]
  /\ kick' = IF s = d THEN kick ELSE [kick EXCEPT ![s] = d]
  /\ UNCHANGED <<rx, sent, wakeup>>

\* wake(): there is an eventfd in interrupt mode only.
Wake(s) ==
  /\ kick[s] # None
  /\ wakeup' = IF mode = "interrupt" THEN [wakeup EXCEPT ![kick[s]] = TRUE] ELSE wakeup
  /\ kick' = [kick EXCEPT ![s] = None]
  /\ UNCHANGED <<mode, driver, flags, pc, branch, threads, incoming, nested, rx, queue, life,
                 sent, failures, stopping, overwritten>>

\* The tokio runtime sends futures as well: gRPC requests, heartbeats.
TokioSends(d) ==
  /\ kick["tokio"] = None
  /\ SendFuture("tokio", d)
  /\ UNCHANGED <<mode, driver, flags, pc, branch, threads, nested, queue, failures, stopping,
                 overwritten>>

-----------------------------------------------------------------------------
(* The loop.                                                               *)

\* poll(), or main(): the reactor runs.  The future of the master enters the
\* interrupt mode before it is polled for the first time.
Launch(c) ==
  /\ At(c, "launch")
  /\ IF ByFuture(c) /\ mode = "interrupt" THEN UNCHANGED <<flags, overwritten>> ELSE InitRunning(c)
  /\ To(c, IF mode = "interrupt" THEN "enter" ELSE "loop")
  /\ UNCHANGED <<mode, driver, branch>> /\ UNCHANGED loopVars

\* enter_interrupt_mode(): every thread is nested, or none is and the reactor
\* stays in poll mode.
EnterInterruptMode(c) ==
  /\ At(c, "enter")
  /\ \/ /\ nested' = [nested EXCEPT ![c] = threads[c]]
        /\ SetState(c, "Interrupt")
        /\ UNCHANGED failures
     \/ /\ failures < MaxFailures /\ threads[c] # {}
        /\ failures' = failures + 1
        /\ IF ByFuture(c) THEN InitRunning(c) ELSE UNCHANGED <<flags, overwritten>>
        /\ UNCHANGED nested
  /\ To(c, "loop")
  /\ UNCHANGED <<mode, driver, branch, threads, incoming, rx, queue, wakeup, kick, life, sent,
                 stopping>>

\* poll_reactor(), Future::poll(): the match on the state.  The future of the
\* master never blocks, and polls its threads before the futures.
LoopPolls(c) ==
  /\ At(c, "loop")
  /\ \/ flags[c] \in {"Running", "Delayed"}
     \/ ByFuture(c) /\ flags[c] = "Interrupt"
  /\ branch' = [branch EXCEPT ![c] = IF ByFuture(c) /\ flags[c] # "Delayed" THEN "times" ELSE "poll"]
  /\ To(c, IF ByFuture(c) /\ flags[c] # "Delayed" THEN "threads" ELSE "receive")
  /\ UNCHANGED <<mode, driver, flags, overwritten>> /\ UNCHANGED loopVars

LoopWaits(c) ==
  /\ At(c, "loop") /\ ~ByFuture(c) /\ flags[c] = "Interrupt"
  /\ branch' = [branch EXCEPT ![c] = "interrupt"]
  /\ To(c, "wait")
  /\ UNCHANGED <<mode, driver, flags, overwritten>> /\ UNCHANGED loopVars

\* The threads of a set that were asked to exit do so when they are polled.
LoopPolled(ts) == [t \in Threads |-> IF t \in ts /\ life[t] = "exits" THEN "exited" ELSE life[t]]

\* wait_for_events(): sleeps until the eventfd or a nested thread has events.
WaitForEvents(c) ==
  /\ At(c, "wait")
  /\ wakeup[c] \/ \E t \in nested[c] : life[t] = "exits"
  /\ wakeup' = [wakeup EXCEPT ![c] = FALSE]
  /\ life' = LoopPolled(nested[c])
  /\ To(c, "receive")
  /\ UNCHANGED <<mode, driver, flags, branch, threads, incoming, nested, rx, queue, kick, sent,
                 failures, stopping, overwritten>>

\* receive_futures()
ReceiveFutures(c) ==
  /\ At(c, "receive")
  /\ queue' = [queue EXCEPT ![c] = @ + rx[c]]
  /\ rx' = [rx EXCEPT ![c] = 0]
  /\ To(c, "run")
  /\ UNCHANGED <<mode, driver, flags, branch, threads, incoming, nested, wakeup, kick, life, sent,
                 failures, stopping, overwritten>>

\* run_futures(): a future that runs may send another, start a thread, or end.
RunFuture(c) ==
  /\ At(c, "run") /\ queue[c] > 0
  /\ queue' = [queue EXCEPT ![c] = @ - 1]
  /\ \/ \E d \in Cores : SendFuture(c, d)
     \/ \E d \in Cores, t \in Threads : Schedule(c, d, t)
     \/ UNCHANGED <<incoming, rx, wakeup, kick, life, sent>>
  /\ UNCHANGED <<mode, driver, flags, pc, branch, threads, nested, failures, stopping, overwritten>>

\* reactors_stop(), the callback of the end of the subsystems on the master:
\* every reactor is told to shut down.
ReactorsShutdown(c) ==
  /\ At(c, "run") /\ c = Master /\ ~stopping
  /\ stopping' = TRUE
  /\ flags' = [d \in Cores |-> "Shutdown"]
  /\ UNCHANGED <<mode, driver, pc, branch, threads, incoming, nested, rx, queue, wakeup, kick, life,
                 sent, failures, overwritten>>

\* poll_once(), poll_times(): every thread of the reactor is polled, after the
\* futures or before them.
PollThreads(c) ==
  /\ At(c, "threads") \/ (At(c, "run") /\ queue[c] = 0 /\ branch[c] = "poll")
  /\ life' = LoopPolled(threads[c])
  /\ To(c, IF branch[c] = "poll" THEN "incoming" ELSE "receive")
  /\ UNCHANGED <<mode, driver, flags, branch, threads, incoming, nested, rx, queue, wakeup, kick,
                 sent, failures, stopping, overwritten>>

Ready(c) == At(c, "incoming") \/ (At(c, "run") /\ queue[c] = 0 /\ branch[c] # "poll")

\* add_incoming(): the threads scheduled to this core join it.  In the
\* interrupt state they are nested, up to the first that cannot be.
AddIncoming(c) ==
  /\ Ready(c)
  /\ threads' = [threads EXCEPT ![c] = @ \cup incoming[c]]
  /\ incoming' = [incoming EXCEPT ![c] = {}]
  /\ \/ /\ nested' = IF flags[c] = "Interrupt" THEN [nested EXCEPT ![c] = @ \cup incoming[c]] ELSE nested
        /\ To(c, IF ByFuture(c) THEN "loop" ELSE "exited")
        /\ UNCHANGED failures
     \/ /\ flags[c] = "Interrupt" /\ failures < MaxFailures
        /\ \E before \in SUBSET incoming[c] :
             before # incoming[c] /\ nested' = [nested EXCEPT ![c] = @ \cup before]
        /\ failures' = failures + 1
        /\ To(c, "fallback")
  /\ UNCHANGED <<mode, driver, flags, branch, rx, queue, wakeup, kick, life, sent, stopping,
                 overwritten>>

\* leave_interrupt_mode(), after a thread that could not be nested.
LeaveInterruptMode(c) ==
  /\ At(c, "fallback")
  /\ nested' = [nested EXCEPT ![c] = {}]
  /\ SetState(c, "Running")
  /\ To(c, IF ByFuture(c) THEN "loop" ELSE "exited")
  /\ UNCHANGED <<mode, driver, branch, threads, incoming, rx, queue, wakeup, kick, life, sent,
                 failures, stopping>>

\* destroy_exited(): threads that have exited are unnested and destroyed.
DestroyExited(c) ==
  /\ At(c, "exited")
  /\ LET removed == {t \in threads[c] : life[t] = "exited"} IN
       /\ threads' = [threads EXCEPT ![c] = @ \ removed]
       /\ nested' = [nested EXCEPT ![c] = @ \ removed]
       /\ life' = [t \in Threads |-> IF t \in removed THEN "destroyed" ELSE life[t]]
  /\ To(c, "loop")
  /\ UNCHANGED <<mode, driver, flags, branch, incoming, rx, queue, wakeup, kick, sent, failures,
                 stopping, overwritten>>

\* The Shutdown arm of poll_reactor(): exit_interrupt_mode(), then the loop ends.
LoopStops(c) ==
  /\ At(c, "loop") /\ ~ByFuture(c) /\ flags[c] = "Shutdown"
  /\ IF mode = "interrupt"
     THEN nested' = [nested EXCEPT ![c] = {}] /\ flags' = [flags EXCEPT ![c] = "Running"]
     ELSE UNCHANGED <<nested, flags>>
  /\ To(c, "stopped")
  /\ UNCHANGED <<mode, driver, branch, threads, incoming, rx, queue, wakeup, kick, life, sent,
                 failures, stopping, overwritten>>

\* The Shutdown arm of Future::poll(): the threads exit and are destroyed, one
\* after the other, and the other cores are waited for.
FutureDrains(c) ==
  /\ At(c, "loop") /\ ByFuture(c) /\ flags[c] = "Shutdown" /\ threads[c] # {}
  /\ \E t \in threads[c] : /\ life' = [life EXCEPT ![t] = "destroyed"]
                          /\ threads' = [threads EXCEPT ![c] = @ \ {t}]
  /\ UNCHANGED <<mode, driver, flags, pc, branch, incoming, nested, rx, queue, wakeup, kick, sent,
                 failures, stopping, overwritten>>

FutureStops(c) ==
  /\ At(c, "loop") /\ ByFuture(c) /\ flags[c] = "Shutdown" /\ threads[c] = {}
  /\ \A d \in Cores \ {c} : pc[d] = "stopped"
  /\ To(c, "stopped")
  /\ UNCHANGED <<mode, driver, flags, branch, overwritten>> /\ UNCHANGED loopVars

-----------------------------------------------------------------------------

\* The owner of a thread asks it to exit.
ThreadExit(t) ==
  /\ life[t] = "runs" /\ t # InitThread
  /\ life' = [life EXCEPT ![t] = "exits"]
  /\ UNCHANGED <<mode, driver, flags, pc, branch, threads, incoming, nested, rx, queue, wakeup,
                 kick, sent, failures, stopping, overwritten>>

Step(c) ==
  \/ Launch(c) \/ EnterInterruptMode(c) \/ LoopPolls(c) \/ LoopWaits(c) \/ WaitForEvents(c)
  \/ ReceiveFutures(c) \/ RunFuture(c) \/ PollThreads(c) \/ AddIncoming(c)
  \/ LeaveInterruptMode(c) \/ DestroyExited(c) \/ LoopStops(c) \/ FutureDrains(c) \/ FutureStops(c)

\* The master starts its own loop once the other cores run.
ReactorNext ==
  \/ \E c \in Cores : \/ (c = Master /\ pc[c] = "launch" => \A d \in Cores \ {c} : pc[d] # "launch") /\ Step(c)
                      \/ ReactorsShutdown(c) \/ TokioSends(c)
  \/ \E s \in Senders : Wake(s)
  \/ \E t \in Threads : ThreadExit(t)

\* Every core is a thread of its own that the operating system runs.
ReactorFairness ==
  /\ \A c \in Cores : WF_reactorVars(Step(c))
  /\ \A s \in Senders : WF_reactorVars(Wake(s))

ReactorSpec == ReactorInit /\ [][ReactorNext]_reactorVars /\ ReactorFairness

-----------------------------------------------------------------------------

\* A reactor that sleeps has nothing to do: a future or a thread in its queues
\* has its eventfd set, or the write is on its way.
NoLostWakeup ==
  \A c \in Cores : (/\ pc[c] = "wait" /\ ~wakeup[c]
                    /\ rx[c] > 0 \/ incoming[c] # {}) => \E s \in Senders : kick[s] = c

\* "A partially-nested reactor would leave silent pollers": a reactor that
\* sleeps is woken by each of its threads.
NoSilentThread == \A c \in Cores : pc[c] = "wait" => threads[c] \subseteq nested[c]

\* "spdk_thread_destroy calls spdk_fd_group_destroy which asserts fgrp->parent
\* == NULL": a thread that a loop destroyed is not nested.
DestroyedIsUnnested ==
  \A c \in Cores : ByFuture(c) \/ \A t \in nested[c] : life[t] # "destroyed"

\* A reactor in interrupt mode sleeps only when nobody needs it, and whoever
\* comes to need it can wake it.
SleepIsSafe == NoLostWakeup /\ NoSilentThread /\ DestroyedIsUnnested

-----------------------------------------------------------------------------
(* reactor_monitor_loop().  A reactor that does not answer for Timeout     *)
(* intervals is frozen: it is sent no more heartbeats, its counter is      *)
(* advanced in their place, and it is healthy again once the ones it still *)
(* holds are all answered.  The reactors answer at any time, between any   *)
(* two steps of the loop.                                                  *)

CONSTANTS Reactors, Timeout, MaxIntervals

ASSUME TimeoutIsNat == Timeout \in Nat

VARIABLES
  tick,    \* the intervals so far
  ticks,   \* heartbeat_ticks: the counter of each reactor
  frozen,  \* ReactorRecord::frozen
  beats,   \* heartbeats that a reactor holds and has not answered
  phase,   \* "send" or "check"
  todo     \* the reactors the loop has still to visit in this phase

monitorVars == <<tick, ticks, frozen, beats, phase, todo>>

MonitorInit ==
  /\ tick = 0 /\ ticks = [r \in Reactors |-> 0]
  /\ frozen = [r \in Reactors |-> FALSE] /\ beats = [r \in Reactors |-> 0]
  /\ phase = "send" /\ todo = Reactors

\* "For frozen reactors there are already N scheduled heartbeat futures that
\* haven't resolved yet, so maintain exactly this delta".
SendHeartbeat(r) ==
  /\ phase = "send" /\ r \in todo
  /\ todo' = todo \ {r}
  /\ IF frozen[r]
     THEN ticks' = [ticks EXCEPT ![r] = @ + 1] /\ UNCHANGED beats
     ELSE beats' = [beats EXCEPT ![r] = @ + 1] /\ UNCHANGED ticks
  /\ UNCHANGED <<tick, frozen, phase>>

\* The interval elapses.
IntervalTick ==
  /\ phase = "send" /\ todo = {} /\ tick < MaxIntervals
  /\ tick' = tick + 1
  /\ phase' = "check" /\ todo' = Reactors
  /\ UNCHANGED <<ticks, frozen, beats>>

\* The verdict on a reactor, from one load of its counter.
CheckReactor(r) ==
  /\ phase = "check" /\ r \in todo
  /\ todo' = todo \ {r}
  /\ frozen' = [frozen EXCEPT ![r] = IF @ THEN tick # ticks[r] ELSE tick - ticks[r] >= Timeout]
  /\ UNCHANGED <<tick, ticks, beats, phase>>

CheckDone ==
  /\ phase = "check" /\ todo = {}
  /\ phase' = "send" /\ todo' = Reactors
  /\ UNCHANGED <<tick, ticks, frozen, beats>>

\* A reactor runs a heartbeat future.
Heartbeat(r) ==
  /\ beats[r] > 0
  /\ beats' = [beats EXCEPT ![r] = @ - 1]
  /\ ticks' = [ticks EXCEPT ![r] = @ + 1]
  /\ UNCHANGED <<tick, frozen, phase, todo>>

MonitorNext ==
  \/ IntervalTick \/ CheckDone
  \/ \E r \in Reactors : SendHeartbeat(r) \/ CheckReactor(r) \/ Heartbeat(r)

MonitorSpec == MonitorInit /\ [][MonitorNext]_monitorVars

-----------------------------------------------------------------------------

\* "tick - r.reactor_tick.load()" is a subtraction of unsigned numbers: no
\* counter is ahead of the intervals when it is compared.
TickNeverAhead == phase = "check" => \A r \in Reactors : ticks[r] <= tick

\* A reactor that does not run holds a bounded number of heartbeats, however
\* long it stays frozen.
HeartbeatsBounded == \A r \in Reactors : beats[r] <= (IF Timeout = 0 THEN 1 ELSE Timeout)

\* A reactor is declared frozen only with Timeout heartbeats unanswered, and
\* healthy only once it has answered them all.
Verdicts ==
  \A r \in Reactors : /\ ~frozen[r] /\ frozen'[r] => beats[r] >= Timeout
                      /\ frozen[r] /\ ~frozen'[r] => beats[r] = 0
VerdictsAreEarned == [][Verdicts]_monitorVars
=============================================================================
