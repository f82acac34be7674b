----------------------------- MODULE NodeProofs -----------------------------
(***************************************************************************)
(* Proofs about the parts that a node is started with: the reactors sleep  *)
(* only when nobody needs them, their monitor is right about them, the     *)
(* stages of the process follow one another, and what the persistent store *)
(* has confirmed is stored.  Each part has an inductive invariant of its   *)
(* own and shares nothing with the others.                                 *)
(***************************************************************************)
EXTENDS Reactor, Engine, PersistentStore, Integers, TLAPS

(* What the provers may take on a leaf: thirty seconds each.              *)
USE SMTT(30), ZenonT(30)

-----------------------------------------------------------------------------
(* The reactors.  A loop may sleep because of what holds at every other    *)
(* point of it as well: work that reaches a queue after the loop has       *)
(* looked is announced, and the threads of a reactor are under its fd      *)
(* group whenever its state says so.                                       *)

ReactorTypes ==
  /\ flags \in [Cores -> States] /\ pc \in [Cores -> Steps]
  /\ branch \in [Cores -> {"poll", "interrupt", "times"}]
  /\ threads \in [Cores -> SUBSET Threads] /\ incoming \in [Cores -> SUBSET Threads]
  /\ nested \in [Cores -> SUBSET Threads]
  /\ rx \in [Cores -> Nat] /\ queue \in [Cores -> Nat] /\ sent \in Nat /\ failures \in Nat
  /\ wakeup \in [Cores -> BOOLEAN] /\ kick \in [Senders -> Cores \cup {None}]
  /\ life \in [Threads -> {None, "runs", "exits", "exited", "destroyed"}]

Kicked(c) == \E s \in Senders : kick[s] = c

\* Futures and threads that wait in the queues of a reactor are announced, by
\* the eventfd or by a sender that is about to write it, until the step that
\* will take them is ahead of the loop.
Announced ==
  mode = "interrupt" =>
    \A c \in Cores :
      /\ rx[c] > 0 => wakeup[c] \/ Kicked(c) \/ pc[c] = "receive"
      /\ incoming[c] # {} => wakeup[c] \/ Kicked(c) \/ pc[c] \in {"receive", "run", "incoming"}

\* Only a reactor of the interrupt mode has the interrupt state, and only after
\* it has nested its threads.
Interruptible ==
  \A c \in Cores :
    /\ flags[c] = "Interrupt" \/ pc[c] \in {"enter", "wait"} => mode = "interrupt"
    /\ pc[c] \in {"launch", "enter"} => flags[c] # "Interrupt"

Nested ==
  \A c \in Cores :
    /\ (flags[c] = "Interrupt" \/ pc[c] = "wait") /\ pc[c] # "fallback" => threads[c] \subseteq nested[c]
    /\ ByFuture(c) \/ nested[c] \subseteq threads[c]

\* A thread is in one place, and in none before it runs and after it is
\* destroyed.
Owned ==
  /\ \A c, d \in Cores : threads[c] \cap incoming[d] = {}
  /\ \A c, d \in Cores : c # d => threads[c] \cap threads[d] = {} /\ incoming[c] \cap incoming[d] = {}
  /\ \A c \in Cores : \A t \in threads[c] \cup incoming[c] : life[t] \notin {None, "destroyed"}

ReactorInv == ReactorTypes /\ Announced /\ Interruptible /\ Nested /\ Owned

\* A reactor that starts to run has queues as they were, and is not yet in the
\* interrupt state.
LEMMA LaunchKept ==
  ASSUME ReactorInv, NEW c \in Cores, Launch(c)
  PROVE  ReactorInv'
PROOF
<1> USE ReactorAssumption DEF ReactorInv, None
<1>1. ReactorTypes'
  BY DEF ReactorTypes, States, Steps, Senders, Launch, SetState, InitRunning, At, To, loopVars
<1>2. Announced'
  BY DEF ReactorTypes, Announced, Kicked, Launch, SetState, InitRunning, At, To, loopVars
<1>3. Interruptible'
  BY DEF ReactorTypes, Interruptible, Launch, SetState, InitRunning, At, To, loopVars
<1>4. Nested'
  BY DEF ReactorTypes, Nested, Interruptible, ByFuture, Launch, SetState, InitRunning, At, To, loopVars
<1>5. Owned'
  BY DEF ReactorTypes, Owned, Launch, SetState, InitRunning, At, To, loopVars
<1> QED BY <1>1, <1>2, <1>3, <1>4, <1>5

\* The switch to the interrupt mode nests the threads of the reactor first.
LEMMA EnterKept ==
  ASSUME ReactorInv, NEW c \in Cores, EnterInterruptMode(c)
  PROVE  ReactorInv'
PROOF
<1> USE ReactorAssumption DEF ReactorInv, None
<1>1. ReactorTypes'
  BY DEF ReactorTypes, States, Steps, Senders, EnterInterruptMode, SetState, InitRunning, At, To
<1>2. Announced'
  BY DEF ReactorTypes, Announced, Kicked, EnterInterruptMode, SetState, InitRunning, At, To
<1>3. Interruptible'
  BY DEF ReactorTypes, Interruptible, EnterInterruptMode, SetState, InitRunning, At, To
<1>4. Nested'
  BY DEF ReactorTypes, Nested, Interruptible, ByFuture, EnterInterruptMode, SetState, InitRunning, At, To
<1>5. Owned'
  BY DEF ReactorTypes, Owned, EnterInterruptMode, SetState, InitRunning, At, To
<1> QED BY <1>1, <1>2, <1>3, <1>4, <1>5

\* A loop that goes on polling changes no queue.
LEMMA PollsKept ==
  ASSUME ReactorInv, NEW c \in Cores, LoopPolls(c)
  PROVE  ReactorInv'
PROOF
<1> USE ReactorAssumption DEF ReactorInv, None
<1>1. ReactorTypes'
  BY DEF ReactorTypes, States, Steps, Senders, LoopPolls, At, To, loopVars
<1>2. Announced'
  BY DEF ReactorTypes, Announced, Kicked, LoopPolls, At, To, loopVars
<1>3. Interruptible'
  BY DEF ReactorTypes, Interruptible, LoopPolls, At, To, loopVars
<1>4. Nested'
  BY DEF ReactorTypes, Nested, Interruptible, ByFuture, LoopPolls, At, To, loopVars
<1>5. Owned'
  BY DEF ReactorTypes, Owned, LoopPolls, At, To, loopVars
<1> QED BY <1>1, <1>2, <1>3, <1>4, <1>5

\* A loop that is about to wait for events changes no queue.
LEMMA WaitsKept ==
  ASSUME ReactorInv, NEW c \in Cores, LoopWaits(c)
  PROVE  ReactorInv'
PROOF
<1> USE ReactorAssumption DEF ReactorInv, None
<1>1. ReactorTypes'
  BY DEF ReactorTypes, States, Steps, Senders, LoopWaits, At, To, loopVars
<1>2. Announced'
  BY DEF ReactorTypes, Announced, Kicked, LoopWaits, At, To, loopVars
<1>3. Interruptible'
  BY DEF ReactorTypes, Interruptible, LoopWaits, At, To, loopVars
<1>4. Nested'
  BY DEF ReactorTypes, Nested, Interruptible, ByFuture, LoopWaits, At, To, loopVars
<1>5. Owned'
  BY DEF ReactorTypes, Owned, LoopWaits, At, To, loopVars
<1> QED BY <1>1, <1>2, <1>3, <1>4, <1>5

\* The eventfd is drained before the queues are looked at, not after.
LEMMA EventsKept ==
  ASSUME ReactorInv, NEW c \in Cores, WaitForEvents(c)
  PROVE  ReactorInv'
PROOF
<1> USE ReactorAssumption DEF ReactorInv, None
<1>1. ReactorTypes'
  BY DEF ReactorTypes, States, Steps, Senders, WaitForEvents, LoopPolled, At, To
<1>2. Announced'
  BY DEF ReactorTypes, Announced, Kicked, WaitForEvents, LoopPolled, At, To
<1>3. Interruptible'
  BY DEF ReactorTypes, Interruptible, WaitForEvents, LoopPolled, At, To
<1>4. Nested'
  BY DEF ReactorTypes, Nested, Interruptible, ByFuture, WaitForEvents, LoopPolled, At, To
<1>5. Owned'
  BY DEF ReactorTypes, Owned, WaitForEvents, LoopPolled, At, To
<1> QED BY <1>1, <1>2, <1>3, <1>4, <1>5

\* Futures that are received leave the queue that was announced.
LEMMA ReceiveKept ==
  ASSUME ReactorInv, NEW c \in Cores, ReceiveFutures(c)
  PROVE  ReactorInv'
PROOF
<1> USE ReactorAssumption DEF ReactorInv, None
<1>1. ReactorTypes'
  BY DEF ReactorTypes, States, Steps, Senders, ReceiveFutures, At, To
<1>2. Announced'
  BY DEF ReactorTypes, Announced, Kicked, ReceiveFutures, At, To
<1>3. Interruptible'
  BY DEF ReactorTypes, Interruptible, ReceiveFutures, At, To
<1>4. Nested'
  BY DEF ReactorTypes, Nested, Interruptible, ByFuture, ReceiveFutures, At, To
<1>5. Owned'
  BY DEF ReactorTypes, Owned, ReceiveFutures, At, To
<1> QED BY <1>1, <1>2, <1>3, <1>4, <1>5

\* A sender that has nothing to wake yet takes no announcement from anyone when
\* it gets a reactor to wake.
LEMMA KickAnnounces ==
  ASSUME ReactorTypes, NEW s \in Senders, NEW d \in Cores, kick[s] = None,
         kick' = [kick EXCEPT ![s] = d]
  PROVE  Kicked(d)' /\ \A c \in Cores : Kicked(c) => Kicked(c)'
PROOF
<1>1. \A x \in Senders : kick'[x] = IF x = s THEN d ELSE kick[x]
  BY DEF ReactorTypes
<1> QED BY <1>1, ReactorAssumption DEF Kicked

\* What a future does: it sends futures, creates threads or lets them exit.  A
\* sender owes the eventfd a write from the moment the queue has grown.
LEMMA RunKept ==
  ASSUME ReactorInv, NEW c \in Cores, RunFuture(c)
  PROVE  ReactorInv'
PROOF
<1> USE ReactorAssumption DEF ReactorInv, None
<1>1. ReactorTypes'
  BY DEF ReactorTypes, States, Steps, Senders, RunFuture, SendFuture, Schedule, At
<1>2. Announced'
  <2>1. pc' = pc /\ wakeup' = wakeup /\ mode' = mode /\ pc[c] = "run" /\ kick[c] = None /\ c \in Senders
    BY DEF RunFuture, SendFuture, Schedule, At, Senders
  <2>2. ASSUME NEW d \in Cores, SendFuture(c, d)
        PROVE  Announced'
    <3>1. Kicked(d)' /\ \A e \in Cores : Kicked(e) => Kicked(e)'
      BY <2>1, <2>2, KickAnnounces, Zenon DEF SendFuture
    <3>2. incoming' = incoming /\ \A e \in Cores : e # d => rx'[e] = rx[e]
      BY <2>2 DEF SendFuture, ReactorTypes
    <3> QED BY <2>1, <3>1, <3>2 DEF Announced
  <2>3. ASSUME NEW d \in Cores, NEW t \in Threads, Schedule(c, d, t)
        PROVE  Announced'
    <3>1. \A e \in Cores : Kicked(e) => Kicked(e)'
      BY <2>1, <2>3, KickAnnounces DEF Schedule, Kicked
    <3>2. c # d => Kicked(d)'
      BY <2>1, <2>3, KickAnnounces, Zenon DEF Schedule
    <3>3. rx' = rx /\ \A e \in Cores : e # d => incoming'[e] = incoming[e]
      BY <2>3 DEF Schedule, ReactorTypes
    <3> QED BY <2>1, <3>1, <3>2, <3>3 DEF Announced
  <2>4. CASE UNCHANGED <<incoming, rx, wakeup, kick, life, sent>>
    BY <2>1, <2>4 DEF Announced, Kicked
  <2> QED BY <2>2, <2>3, <2>4 DEF RunFuture
<1>3. Interruptible'
  BY DEF ReactorTypes, Interruptible, RunFuture, SendFuture, Schedule, At
<1>4. Nested'
  BY DEF ReactorTypes, Nested, Interruptible, ByFuture, RunFuture, SendFuture, Schedule, At
<1>5. Owned'
  <2>1. threads' = threads
    BY DEF RunFuture
  <2>2. ASSUME NEW d \in Cores, SendFuture(c, d)
        PROVE  Owned'
    BY <2>1, <2>2 DEF SendFuture, Owned
  <2>3. ASSUME NEW d \in Cores, NEW t \in Threads, Schedule(c, d, t)
        PROVE  Owned'
    <3>1. \A e \in Cores : t \notin threads[e] /\ t \notin incoming[e]
      BY <2>3 DEF Schedule, Owned
    <3>2. \A e \in Cores : incoming'[e] = IF e = d THEN incoming[e] \cup {t} ELSE incoming[e]
      BY <2>3, Zenon DEF Schedule, ReactorTypes
    <3>3. \A x \in Threads : life'[x] = IF x = t THEN "runs" ELSE life[x]
      BY <2>3 DEF Schedule, ReactorTypes
    <3>4. \A e \in Cores : \A x \in threads'[e] \cup incoming'[e] : life'[x] \notin {None, "destroyed"}
      <4> SUFFICES ASSUME NEW e \in Cores, NEW x \in threads[e] \cup incoming'[e]
                   PROVE  x \in Threads /\ life'[x] \notin {None, "destroyed"}
        BY <2>1
      <4>1. x = t \/ x \in threads[e] \cup incoming[e]
        BY <3>2, Zenon
      <4>2. x \in Threads
        BY <4>1 DEF ReactorTypes
      <4> QED BY <3>3, <4>1, <4>2 DEF Owned
    <3>5. /\ \A e, f \in Cores : threads'[e] \cap incoming'[f] = {}
          /\ \A e, f \in Cores : e # f => threads'[e] \cap threads'[f] = {} /\ incoming'[e] \cap incoming'[f] = {}
      <4>1. \A e, f \in Cores : threads'[e] \cap incoming'[f] = {}
        BY <2>1, <3>1, <3>2, ZenonT(30) DEF Owned
      <4>2. \A e, f \in Cores : e # f => threads'[e] \cap threads'[f] = {}
        BY <2>1 DEF Owned
      <4>3. ASSUME NEW e \in Cores, NEW f \in Cores, e # f PROVE incoming'[e] \cap incoming'[f] = {}
        <5>1. incoming[e] \cap incoming[f] = {}
          BY <4>3 DEF Owned
        <5> HIDE DEF ReactorInv
        <5> QED BY <3>1, <3>2, <4>3, <5>1, Zenon
      <4> QED BY <4>1, <4>2, <4>3
    <3> QED BY <3>4, <3>5 DEF Owned
  <2>4. CASE UNCHANGED <<incoming, rx, wakeup, kick, life, sent>>
    BY <2>1, <2>4 DEF Owned
  <2> QED BY <2>2, <2>3, <2>4 DEF RunFuture
<1> QED BY <1>1, <1>2, <1>3, <1>4, <1>5

\* The shutdown changes the state of the reactors only; one that sleeps goes on
\* sleeping.
LEMMA ShutKept ==
  ASSUME ReactorInv, NEW c \in Cores, ReactorsShutdown(c)
  PROVE  ReactorInv'
PROOF
<1> USE ReactorAssumption DEF ReactorInv, None
<1>1. ReactorTypes'
  BY DEF ReactorTypes, States, Steps, Senders, ReactorsShutdown, At
<1>2. Announced'
  BY DEF ReactorTypes, Announced, Kicked, ReactorsShutdown, At
<1>3. Interruptible'
  BY DEF ReactorTypes, Interruptible, ReactorsShutdown, At
<1>4. Nested'
  BY DEF ReactorTypes, Nested, Interruptible, ByFuture, ReactorsShutdown, At
<1>5. Owned'
  BY DEF ReactorTypes, Owned, ReactorsShutdown, At
<1> QED BY <1>1, <1>2, <1>3, <1>4, <1>5

\* Polling the threads leaves the queues alone.
LEMMA PollKept ==
  ASSUME ReactorInv, NEW c \in Cores, PollThreads(c)
  PROVE  ReactorInv'
PROOF
<1> USE ReactorAssumption DEF ReactorInv, None
<1>1. ReactorTypes'
  BY DEF ReactorTypes, States, Steps, Senders, PollThreads, LoopPolled, At, To
<1>2. Announced'
  BY DEF ReactorTypes, Announced, Kicked, PollThreads, LoopPolled, At, To
<1>3. Interruptible'
  BY DEF ReactorTypes, Interruptible, PollThreads, LoopPolled, At, To
<1>4. Nested'
  BY DEF ReactorTypes, Nested, Interruptible, ByFuture, PollThreads, LoopPolled, At, To
<1>5. Owned'
  BY DEF ReactorTypes, Owned, PollThreads, LoopPolled, At, To
<1> QED BY <1>1, <1>2, <1>3, <1>4, <1>5

\* Threads that arrive are nested if the reactor is in the interrupt state.
LEMMA AddKept ==
  ASSUME ReactorInv, NEW c \in Cores, AddIncoming(c)
  PROVE  ReactorInv'
PROOF
<1> USE ReactorAssumption DEF ReactorInv, None
<1>1. ReactorTypes'
  BY DEF ReactorTypes, States, Steps, Senders, AddIncoming, Ready, At, To
<1>2. Announced'
  BY DEF ReactorTypes, Announced, Kicked, AddIncoming, Ready, At, To
<1>3. Interruptible'
  BY DEF ReactorTypes, Interruptible, AddIncoming, Ready, At, To
<1>4. Nested'
  BY DEF ReactorTypes, Nested, Interruptible, ByFuture, AddIncoming, Ready, At, To
<1>5. Owned'
  BY DEF ReactorTypes, Owned, AddIncoming, Ready, At, To
<1> QED BY <1>1, <1>2, <1>3, <1>4, <1>5

\* The switch back to polling ends the nesting.
LEMMA LeaveKept ==
  ASSUME ReactorInv, NEW c \in Cores, LeaveInterruptMode(c)
  PROVE  ReactorInv'
PROOF
<1> USE ReactorAssumption DEF ReactorInv, None
<1>1. ReactorTypes'
  BY DEF ReactorTypes, States, Steps, Senders, LeaveInterruptMode, SetState, At, To
<1>2. Announced'
  BY DEF ReactorTypes, Announced, Kicked, LeaveInterruptMode, SetState, At, To
<1>3. Interruptible'
  BY DEF ReactorTypes, Interruptible, LeaveInterruptMode, SetState, At, To
<1>4. Nested'
  BY DEF ReactorTypes, Nested, Interruptible, ByFuture, LeaveInterruptMode, SetState, At, To
<1>5. Owned'
  BY DEF ReactorTypes, Owned, LeaveInterruptMode, SetState, At, To
<1> QED BY <1>1, <1>2, <1>3, <1>4, <1>5

\* A thread that has exited leaves the reactor and its fd group together.
LEMMA DestroyKept ==
  ASSUME ReactorInv, NEW c \in Cores, DestroyExited(c)
  PROVE  ReactorInv'
PROOF
<1> USE ReactorAssumption DEF ReactorInv, None
<1>1. ReactorTypes'
  BY DEF ReactorTypes, States, Steps, Senders, DestroyExited, At, To
<1>2. Announced'
  BY DEF ReactorTypes, Announced, Kicked, DestroyExited, At, To
<1>3. Interruptible'
  BY DEF ReactorTypes, Interruptible, DestroyExited, At, To
<1>4. Nested'
  BY DEF ReactorTypes, Nested, Interruptible, ByFuture, DestroyExited, At, To
<1>5. Owned'
  BY DEF ReactorTypes, Owned, DestroyExited, At, To
<1> QED BY <1>1, <1>2, <1>3, <1>4, <1>5

\* A loop that was told to stop runs no more.
LEMMA StopsKept ==
  ASSUME ReactorInv, NEW c \in Cores, LoopStops(c)
  PROVE  ReactorInv'
PROOF
<1> USE ReactorAssumption DEF ReactorInv, None
<1>1. ReactorTypes'
  BY DEF ReactorTypes, States, Steps, Senders, LoopStops, At, To
<1>2. Announced'
  BY DEF ReactorTypes, Announced, Kicked, LoopStops, At, To
<1>3. Interruptible'
  BY DEF ReactorTypes, Interruptible, LoopStops, At, To
<1>4. Nested'
  BY DEF ReactorTypes, Nested, Interruptible, ByFuture, LoopStops, At, To
<1>5. Owned'
  BY DEF ReactorTypes, Owned, LoopStops, At, To
<1> QED BY <1>1, <1>2, <1>3, <1>4, <1>5

\* The last futures of a reactor that stops.
LEMMA DrainsKept ==
  ASSUME ReactorInv, NEW c \in Cores, FutureDrains(c)
  PROVE  ReactorInv'
PROOF
<1> USE ReactorAssumption DEF ReactorInv, None
<1>1. ReactorTypes'
  BY DEF ReactorTypes, States, Steps, Senders, FutureDrains, At, To
<1>2. Announced'
  BY DEF ReactorTypes, Announced, Kicked, FutureDrains, At, To
<1>3. Interruptible'
  BY DEF ReactorTypes, Interruptible, FutureDrains, At, To
<1>4. Nested'
  BY DEF ReactorTypes, Nested, Interruptible, ByFuture, FutureDrains, At, To
<1>5. Owned'
  BY DEF ReactorTypes, Owned, FutureDrains, At, To
<1> QED BY <1>1, <1>2, <1>3, <1>4, <1>5

\* A reactor whose futures are all gone ends.
LEMMA EndsKept ==
  ASSUME ReactorInv, NEW c \in Cores, FutureStops(c)
  PROVE  ReactorInv'
PROOF
<1> USE ReactorAssumption DEF ReactorInv, None
<1>1. ReactorTypes'
  BY DEF ReactorTypes, States, Steps, Senders, FutureStops, At, To, loopVars
<1>2. Announced'
  BY DEF ReactorTypes, Announced, Kicked, FutureStops, At, To, loopVars
<1>3. Interruptible'
  BY DEF ReactorTypes, Interruptible, FutureStops, At, To, loopVars
<1>4. Nested'
  BY DEF ReactorTypes, Nested, Interruptible, ByFuture, FutureStops, At, To, loopVars
<1>5. Owned'
  BY DEF ReactorTypes, Owned, FutureStops, At, To, loopVars
<1> QED BY <1>1, <1>2, <1>3, <1>4, <1>5

\* A thread of Tokio sends a future, and owes the eventfd a write.
LEMMA TokioKept ==
  ASSUME ReactorInv, NEW c \in Cores, TokioSends(c)
  PROVE  ReactorInv'
PROOF
<1> USE ReactorAssumption DEF ReactorInv, None
<1>1. ReactorTypes'
  BY DEF ReactorTypes, States, Steps, Senders, TokioSends, SendFuture
<1>2. Announced'
  <2>1. Kicked(c)' /\ \A e \in Cores : Kicked(e) => Kicked(e)'
    BY KickAnnounces, Zenon DEF TokioSends, SendFuture, Senders
  <2>2. incoming' = incoming /\ wakeup' = wakeup /\ pc' = pc /\ mode' = mode
        /\ \A e \in Cores : e # c => rx'[e] = rx[e]
    BY DEF TokioSends, SendFuture, ReactorTypes
  <2> QED BY <2>1, <2>2, Zenon DEF Announced
<1>3. Interruptible'
  BY DEF ReactorTypes, Interruptible, TokioSends, SendFuture
<1>4. Nested'
  BY DEF ReactorTypes, Nested, Interruptible, ByFuture, TokioSends, SendFuture
<1>5. Owned'
  BY DEF ReactorTypes, Owned, TokioSends, SendFuture
<1> QED BY <1>1, <1>2, <1>3, <1>4, <1>5

\* The write that a sender owed.
LEMMA WakeKept ==
  ASSUME ReactorInv, NEW s \in Senders, Wake(s)
  PROVE  ReactorInv'
PROOF
<1> USE ReactorAssumption DEF ReactorInv, None
<1>1. ReactorTypes'
  BY DEF ReactorTypes, States, Steps, Senders, Wake
<1>2. Announced'
  BY DEF ReactorTypes, Announced, Kicked, Wake
<1>3. Interruptible' /\ Nested' /\ Owned'
  BY DEF Interruptible, Nested, Owned, ByFuture, Wake
<1> QED BY <1>1, <1>2, <1>3

\* A thread that is told to exit stays with its reactor.
LEMMA ExitKept ==
  ASSUME ReactorInv, NEW t \in Threads, ThreadExit(t)
  PROVE  ReactorInv'
PROOF
<1> USE ReactorAssumption DEF ReactorInv, None
<1>1. ReactorTypes'
  BY DEF ReactorTypes, States, Steps, Senders, ThreadExit
<1>2. Announced' /\ Interruptible' /\ Nested'
  BY DEF Announced, Kicked, Interruptible, Nested, ByFuture, ThreadExit
<1>3. Owned'
  BY DEF ReactorTypes, Owned, ThreadExit
<1> QED BY <1>1, <1>2, <1>3

\* The reactors start with the invariant.
LEMMA ReactorInitInv == ReactorInit => ReactorInv
PROOF
<1> USE ReactorAssumption DEF None
<1>1. ReactorInit => ReactorTypes
  BY DEF ReactorInit, ReactorTypes, States, Steps, Senders
<1>2. ReactorInit => Announced /\ Interruptible /\ Nested /\ Owned
  BY DEF ReactorInit, Announced, Interruptible, Nested, Owned
<1> QED BY <1>1, <1>2 DEF ReactorInv

\* Every step of every reactor, of its threads and of the senders keeps the
\* invariant of the reactors (the loop of Reactor::poll_reactor, send_future).
THEOREM ReactorInvariance == ReactorSpec => []ReactorInv
PROOF
<1>1. ReactorInv /\ [ReactorNext]_reactorVars => ReactorInv'
  <2> SUFFICES ASSUME ReactorInv, [ReactorNext]_reactorVars PROVE ReactorInv'
    OBVIOUS
  <2>1. ASSUME NEW c \in Cores, Step(c) PROVE ReactorInv'
    BY <2>1, LaunchKept, EnterKept, PollsKept, WaitsKept, EventsKept, ReceiveKept, RunKept, PollKept,
       AddKept, LeaveKept, DestroyKept, StopsKept, DrainsKept, EndsKept DEF Step
  <2>2. ASSUME NEW c \in Cores, ReactorsShutdown(c) \/ TokioSends(c) PROVE ReactorInv'
    BY <2>2, ShutKept, TokioKept
  <2>3. CASE \E s \in Senders : Wake(s)
    BY <2>3, WakeKept
  <2>4. CASE \E t \in Threads : ThreadExit(t)
    BY <2>4, ExitKept
  <2>5. CASE UNCHANGED reactorVars
    BY <2>5, Zenon DEF reactorVars, ReactorInv, ReactorTypes, Announced, Kicked, Interruptible, Nested, Owned, ByFuture
  <2> QED BY <2>1, <2>2, <2>3, <2>4, <2>5 DEF ReactorNext
<1> QED BY <1>1, ReactorInitInv, PTL DEF ReactorSpec

\* A reactor that sleeps in epoll has nothing in its queues that no one will
\* announce, for any number of cores, threads and senders (SleepIsSafe).
THEOREM SleepIsSafeHolds == ReactorSpec => []SleepIsSafe
PROOF
<1>1. ReactorInv => SleepIsSafe
  <2> SUFFICES ASSUME ReactorInv PROVE SleepIsSafe
    OBVIOUS
  <2>1. NoLostWakeup
    BY Zenon DEF ReactorInv, NoLostWakeup, Announced, Interruptible, Kicked
  <2>2. NoSilentThread
    BY DEF ReactorInv, NoSilentThread, Nested
  <2>3. DestroyedIsUnnested
    BY Zenon DEF ReactorInv, DestroyedIsUnnested, Nested, Owned
  <2> QED BY <2>1, <2>2, <2>3 DEF SleepIsSafe
<1> QED BY <1>1, ReactorInvariance, PTL

-----------------------------------------------------------------------------
(* The monitor of the reactors.  What its loop relies on is a balance: the *)
(* counter of a reactor and the heartbeats it holds add up to the          *)
(* intervals, plus one once this interval's heartbeat is sent.             *)

Sent(r) == phase = "send" /\ r \notin todo

Limit == IF Timeout = 0 THEN 1 ELSE Timeout

MonitorTypes ==
  /\ tick \in Nat /\ ticks \in [Reactors -> Nat] /\ beats \in [Reactors -> Nat]
  /\ frozen \in [Reactors -> BOOLEAN] /\ phase \in {"send", "check"} /\ todo \subseteq Reactors

Balance == \A r \in Reactors : ticks[r] + beats[r] = IF Sent(r) THEN tick + 1 ELSE tick

\* A reactor that was found healthy and not sent to since holds fewer
\* heartbeats than the limit.
Room ==
  \A r \in Reactors : /\ beats[r] <= Limit
                      /\ ~frozen[r] /\ ~Sent(r) /\ ~(phase = "check" /\ r \in todo) => beats[r] < Limit

MonitorInv == MonitorTypes /\ Balance /\ Room

\* The limit is at least one heartbeat.
LEMMA LimitPositive == Limit \in Nat /\ Limit >= 1 /\ Limit >= Timeout
BY TimeoutIsNat DEF Limit

\* The invariant holds when the loop starts.
LEMMA MonitorInitInv == MonitorInit => MonitorInv
BY LimitPositive DEF MonitorInit, MonitorInv, MonitorTypes, Balance, Room, Sent

\* Sending keeps the balance: the counter or the heartbeats grow, by one.
LEMMA SendKeepsInv ==
  ASSUME MonitorInv, NEW r \in Reactors, SendHeartbeat(r)
  PROVE  MonitorInv'
<1>1. MonitorTypes' BY DEF SendHeartbeat, MonitorInv, MonitorTypes
<1>2. \A s \in Reactors : Sent(s)' = (Sent(s) \/ s = r)
  BY DEF SendHeartbeat, Sent, MonitorInv, MonitorTypes
<1>3. ~Sent(r) BY DEF SendHeartbeat, Sent
<1>4. \A s \in Reactors : s # r => ticks'[s] = ticks[s] /\ beats'[s] = beats[s]
  BY DEF SendHeartbeat, MonitorInv, MonitorTypes
<1>5. ticks'[r] + beats'[r] = ticks[r] + beats[r] + 1
  BY DEF SendHeartbeat, MonitorInv, MonitorTypes
<1>6. Balance'
  BY <1>2, <1>3, <1>4, <1>5, Zenon DEF SendHeartbeat, MonitorInv, Balance
<1>7. beats'[r] <= Limit
  <2>1. CASE frozen[r] BY <2>1 DEF SendHeartbeat, MonitorInv, Room
  <2>2. CASE ~frozen[r]
    <3>1. beats[r] < Limit BY <2>2, <1>3 DEF SendHeartbeat, MonitorInv, Room
    <3>2. beats'[r] = beats[r] + 1 BY <2>2 DEF SendHeartbeat, MonitorInv, MonitorTypes
    <3> QED BY <3>1, <3>2, LimitPositive DEF MonitorInv, MonitorTypes
  <2> QED BY <2>1, <2>2
<1>8. Room'
  BY <1>2, <1>4, <1>7, Zenon DEF SendHeartbeat, MonitorInv, Room, Limit
<1> QED BY <1>1, <1>6, <1>8 DEF MonitorInv

\* The interval that elapses is the one that every reactor was sent to for.
LEMMA TickKeepsInv ==
  ASSUME MonitorInv, IntervalTick
  PROVE  MonitorInv'
<1>1. \A s \in Reactors : Sent(s) /\ ~Sent(s)' BY DEF IntervalTick, Sent
<1>2. Balance' BY <1>1 DEF IntervalTick, MonitorInv, Balance
<1>3. Room' BY <1>1 DEF IntervalTick, MonitorInv, Room, Limit
<1>4. MonitorTypes' BY DEF IntervalTick, MonitorInv, MonitorTypes
<1> QED BY <1>2, <1>3, <1>4 DEF MonitorInv

\* What the verdict on a reactor says of its counter.
LEMMA VerdictSays ==
  ASSUME MonitorTypes, NEW r \in Reactors, CheckReactor(r)
  PROVE  /\ frozen[r] => (frozen'[r] <=> tick # ticks[r])
         /\ ~frozen[r] => (frozen'[r] <=> tick - ticks[r] >= Timeout)
<1>1. frozen'[r] = IF frozen[r] THEN tick # ticks[r] ELSE tick - ticks[r] >= Timeout
  BY Zenon DEF CheckReactor, MonitorTypes
<1>2. CASE frozen[r] BY <1>1, <1>2, Zenon
<1>3. CASE ~frozen[r] BY <1>1, <1>3, Zenon
<1> QED BY <1>2, <1>3, Zenon

\* The heartbeats a reactor holds, from its counter.
LEMMA BalanceSays ==
  ASSUME MonitorTypes, NEW r \in Reactors, ticks[r] + beats[r] = tick
  PROVE  /\ tick - ticks[r] >= Timeout => beats[r] >= Timeout
         /\ tick = ticks[r] => beats[r] = 0
<1>1. tick \in Nat /\ ticks[r] \in Nat /\ beats[r] \in Nat BY Zenon DEF MonitorTypes
<1> QED BY <1>1, TimeoutIsNat

\* A verdict of healthy leaves room for a heartbeat.
LEMMA CheckKeepsInv ==
  ASSUME MonitorInv, NEW r \in Reactors, CheckReactor(r)
  PROVE  MonitorInv'
<1>1. MonitorTypes'
  <2> DEFINE verdict == IF frozen[r] THEN tick # ticks[r] ELSE tick - ticks[r] >= Timeout
  <2>1. verdict \in BOOLEAN
    <3>1. (tick # ticks[r]) \in BOOLEAN BY Zenon
    <3>2. (tick - ticks[r] >= Timeout) \in BOOLEAN
      BY TimeoutIsNat DEF MonitorInv, MonitorTypes
    <3> QED BY <3>1, <3>2, Zenon
  <2>2. frozen' = [frozen EXCEPT ![r] = verdict] BY DEF CheckReactor
  <2> HIDE DEF verdict
  <2>3. frozen' \in [Reactors -> BOOLEAN] BY <2>1, <2>2, Zenon DEF MonitorInv, MonitorTypes
  <2>4. tick' = tick /\ ticks' = ticks /\ beats' = beats /\ phase' = phase /\ todo' \subseteq Reactors
    BY Zenon DEF CheckReactor, MonitorInv, MonitorTypes
  <2> QED BY <2>3, <2>4, Zenon DEF MonitorInv, MonitorTypes
<1>2. \A s \in Reactors : ~Sent(s) /\ ~Sent(s)' BY DEF CheckReactor, Sent
<1>3. Balance' BY <1>2 DEF CheckReactor, MonitorInv, Balance
<1>4. beats[r] = tick - ticks[r] /\ ticks[r] <= tick
  BY <1>2 DEF MonitorInv, Balance, MonitorTypes
<1>5. ~frozen'[r] => beats[r] < Limit
  <2>1. ~frozen'[r] => tick = ticks[r] \/ ~(tick - ticks[r] >= Timeout)
    BY VerdictSays, Zenon DEF MonitorInv
  <2>2. (tick = ticks[r] \/ ~(tick - ticks[r] >= Timeout)) => beats[r] < Limit
    BY <1>4, LimitPositive, TimeoutIsNat DEF MonitorInv, MonitorTypes
  <2> QED BY <2>1, <2>2, Zenon
<1>6. \A s \in Reactors : s # r => frozen'[s] = frozen[s]
  BY DEF CheckReactor, MonitorInv, MonitorTypes
<1>7. Room'
  BY <1>2, <1>5, <1>6, Zenon DEF CheckReactor, MonitorInv, Room, Limit
<1> QED BY <1>1, <1>3, <1>7 DEF MonitorInv

\* Nothing but the phase changes when the last reactor was checked.
LEMMA DoneKeepsInv ==
  ASSUME MonitorInv, CheckDone
  PROVE  MonitorInv'
<1>1. \A s \in Reactors : ~Sent(s) /\ ~Sent(s)' BY DEF CheckDone, Sent
<1>2. Balance' BY <1>1 DEF CheckDone, MonitorInv, Balance
<1>3. Room' BY <1>1 DEF CheckDone, MonitorInv, Room, Limit
<1>4. MonitorTypes' BY DEF CheckDone, MonitorInv, MonitorTypes
<1> QED BY <1>2, <1>3, <1>4 DEF MonitorInv

\* An answer moves one from the heartbeats to the counter.
LEMMA HeartbeatKeepsInv ==
  ASSUME MonitorInv, NEW r \in Reactors, Heartbeat(r)
  PROVE  MonitorInv'
<1>1. MonitorTypes' BY DEF Heartbeat, MonitorInv, MonitorTypes
<1>2. \A s \in Reactors : Sent(s)' = Sent(s) BY DEF Heartbeat, Sent
<1>3. \A s \in Reactors : s # r => ticks'[s] = ticks[s] /\ beats'[s] = beats[s]
  BY DEF Heartbeat, MonitorInv, MonitorTypes
<1>4. ticks'[r] = ticks[r] + 1 /\ beats'[r] = beats[r] - 1 /\ beats'[r] < beats[r]
  BY DEF Heartbeat, MonitorInv, MonitorTypes
<1>5. ticks'[r] + beats'[r] = ticks[r] + beats[r]
  BY <1>4 DEF Heartbeat, MonitorInv, MonitorTypes
<1>6. Balance' BY <1>2, <1>3, <1>5 DEF Heartbeat, MonitorInv, Balance
<1>7. beats'[r] \in Nat /\ beats[r] \in Nat BY <1>1 DEF MonitorInv, MonitorTypes
<1>8. Room'
  <2>1. \A s \in Reactors : beats'[s] <= beats[s]
    BY <1>3, <1>4, <1>7 DEF MonitorInv, MonitorTypes
  <2>2. \A s \in Reactors : beats[s] \in Nat /\ beats'[s] \in Nat
    BY <1>1 DEF MonitorInv, MonitorTypes
  <2>3. \A s \in Reactors : frozen'[s] = frozen[s] /\ (s \in todo' <=> s \in todo) /\ phase' = phase
    BY DEF Heartbeat
  <2>4. \A s \in Reactors : beats[s] <= Limit => beats'[s] <= Limit
    BY <2>1, <2>2, LimitPositive
  <2>5. \A s \in Reactors : beats[s] < Limit => beats'[s] < Limit
    BY <2>1, <2>2, LimitPositive
  <2>6. Limit' = Limit
    BY DEF Limit
  <2> QED BY <1>2, <2>3, <2>4, <2>5, <2>6, Zenon DEF MonitorInv, Room
<1> QED BY <1>1, <1>6, <1>8 DEF MonitorInv

\* The invariant is inductive.
LEMMA MonitorStep == MonitorInv /\ [MonitorNext]_monitorVars => MonitorInv'
<1> SUFFICES ASSUME MonitorInv, [MonitorNext]_monitorVars PROVE MonitorInv'
  OBVIOUS
<1>1. CASE IntervalTick BY <1>1, TickKeepsInv
<1>2. CASE CheckDone BY <1>2, DoneKeepsInv
<1>3. CASE \E r \in Reactors : SendHeartbeat(r) \/ CheckReactor(r) \/ Heartbeat(r)
  BY <1>3, SendKeepsInv, CheckKeepsInv, HeartbeatKeepsInv
<1>4. CASE UNCHANGED monitorVars
  BY <1>4 DEF monitorVars, MonitorInv, MonitorTypes, Balance, Room, Sent, Limit
<1> QED BY <1>1, <1>2, <1>3, <1>4 DEF MonitorNext

\* The invariant holds throughout.
LEMMA MonitorAlways == MonitorSpec => []MonitorInv
<1> QED BY MonitorInitInv, MonitorStep, PTL DEF MonitorSpec

\* The comparison of a counter with the intervals never wraps around.
THEOREM TickNeverAheadHolds == MonitorSpec => []TickNeverAhead
<1>1. MonitorInv => TickNeverAhead
  <2> SUFFICES ASSUME MonitorInv, phase = "check", NEW r \in Reactors PROVE ticks[r] <= tick
    BY DEF TickNeverAhead
  <2>1. ticks[r] + beats[r] = tick BY DEF MonitorInv, Balance, Sent
  <2> QED BY <2>1 DEF MonitorInv, MonitorTypes
<1> QED BY <1>1, MonitorAlways, PTL

\* No reactor ever holds more heartbeats than the timeout.
THEOREM HeartbeatsBoundedHolds == MonitorSpec => []HeartbeatsBounded
<1>1. MonitorInv => HeartbeatsBounded BY DEF MonitorInv, Room, Limit, HeartbeatsBounded
<1> QED BY <1>1, MonitorAlways, PTL

\* Frozen and healthy are declared on what the heartbeats say.
THEOREM VerdictsHold == MonitorSpec => VerdictsAreEarned
<1>1. MonitorInv /\ [MonitorNext]_monitorVars => [Verdicts]_monitorVars
  <2> SUFFICES ASSUME MonitorInv, MonitorNext, NEW r \in Reactors, frozen'[r] # frozen[r]
               PROVE  /\ ~frozen[r] /\ frozen'[r] => beats[r] >= Timeout
                      /\ frozen[r] /\ ~frozen'[r] => beats[r] = 0
    BY DEF Verdicts
  <2>1. CheckReactor(r)
    BY DEF MonitorNext, IntervalTick, CheckDone, SendHeartbeat, Heartbeat, CheckReactor, MonitorInv, MonitorTypes
  <2>2. ~Sent(r) BY <2>1, Zenon DEF CheckReactor, Sent
  <2>3. ticks[r] + beats[r] = tick BY <2>2, Zenon DEF MonitorInv, Balance
  <2>4. /\ tick - ticks[r] >= Timeout => beats[r] >= Timeout
        /\ tick = ticks[r] => beats[r] = 0
    BY <2>3, BalanceSays, Zenon DEF MonitorInv
  <2> QED BY <2>1, <2>4, VerdictSays, Zenon DEF MonitorInv
<1> QED BY <1>1, MonitorAlways, PTL DEF MonitorSpec, VerdictsAreEarned

-----------------------------------------------------------------------------
(* The life of the process.  A signal begins one shutdown, and the master  *)
(* leaves its loop only at the end of it.                                  *)

EngineTypes ==
  /\ main \in MainStages /\ master \in {"Init", "Running", "Shutdown"} /\ shut \in ShutStages
  /\ signal \in {"none", "SIGTERM", "SIGUSR1"} /\ critical \in BOOLEAN
  /\ known \in BOOLEAN /\ stray \in BOOLEAN
  /\ nexus \in [Nexuses -> {"none", "asked", "open", "clean", "dirty"}]

\* The shutdown begins once: its signal is the first, and is not posted again.
OneShutdown ==
  /\ critical \/ shut # "none" => signal # "none"
  /\ shut # "none" => ~critical
  /\ master = "Shutdown" \/ main \in {"fini", "done"} => shut = "stopped"

\* From the moment it has its list, an open nexus is still on it or was created
\* since.
AllCollected ==
  /\ shut \notin {"none", "queued"} => \A n \in Nexuses : nexus[n] = "open" => n \in collected \cup late
  /\ shut \in {"pools", "subsystems", "stopped"} => collected = {}

\* Failed servers leave a signal, which the exit code reports.
Aborted ==
  /\ tokio = "failed" => signal # "none"
  /\ main = "done" /\ signal = "SIGUSR1" => code = 1

\* The registration starts after the gRPC server has its socket.
Registered ==
  /\ reg # "none" => grpc # "none"
  /\ known \/ stray => grpc # "none"

EngineInv == EngineTypes /\ OneShutdown /\ AllCollected /\ Aborted /\ Registered

\* A process that has not started has nothing open and nothing to report.
LEMMA EngineInitInv == EngineInit => EngineInv
PROOF
BY Zenon DEF EngineInit, EngineInv, EngineTypes, MainStages, ShutStages, OneShutdown, AllCollected, Aborted, Registered

\* The start-up, the loop and the exit of main().
LEMMA MainKept ==
  ASSUME EngineInv, MainNext
  PROVE  EngineInv'
PROOF
<1> USE DEF MainNext, InstallSignalHandlers, ReactorsInit, StartRpc, PoolsImported, StartTokioRuntime,
            PollReactor, LoopEnds, MainReturns, EngineInv, signalVars, shutVars, tokioVars
<1>1. EngineTypes'
  BY ZenonT(30) DEF EngineTypes, MainStages
<1>2. OneShutdown'
  <2>1. UNCHANGED <<signal, critical, shut>>
    BY Zenon
  <2>2. master' = master \/ master' = "Running"
    BY Zenon
  <2>3. main' \in {"fini", "done"} => main \in {"fini", "done"} \/ master = "Shutdown"
    BY Zenon
  <2> QED BY ONLY EngineInv, <2>1, <2>2, <2>3, Zenon DEF EngineInv, OneShutdown
<1>3. AllCollected' /\ Registered'
  <2>1. UNCHANGED <<shut, nexus, collected, late>>
    BY Zenon
  <2>2. UNCHANGED <<grpc, reg, known, stray>>
    BY Zenon
  <2> QED BY ONLY EngineInv, <2>1, <2>2, Zenon DEF EngineInv, AllCollected, Registered
<1>4. Aborted'
  BY Zenon DEF Aborted
<1> QED BY <1>1, <1>2, <1>3, <1>4, Zenon

\* The stages of the shutdown, and requests that the master runs meanwhile.
LEMMA ShutdownStepKept ==
  ASSUME EngineInv, ShutdownNext
  PROVE  EngineInv'
PROOF
<1> USE DEF EngineInv, mainVars, signalVars, tokioVars
<1>1. CASE EnvStop
  BY <1>1, Zenon DEF EnvStop, EngineTypes, ShutStages, OneShutdown, AllCollected, Aborted, Registered, Polled
<1>2. CASE ShutdownServers
  <2> USE <1>2 DEF ShutdownServers
  <2>1. EngineTypes'
    BY Zenon DEF EngineTypes, ShutStages
  <2>2. OneShutdown'
    <3>1. UNCHANGED <<signal, critical, main, master>> /\ shut = "queued" /\ shut' = "nexuses"
      BY Zenon
    <3> QED BY ONLY EngineInv, <3>1, Zenon DEF EngineInv, OneShutdown
  <2>3. AllCollected'
    BY Zenon DEF AllCollected
  <2>4. UNCHANGED <<tokio, signal, main, code, grpc, reg, known, stray>>
    BY Zenon
  <2>5. Aborted' /\ Registered'
    BY ONLY EngineInv, <2>4, ZenonT(30) DEF EngineInv, Aborted, Registered
  <2> QED BY <2>1, <2>2, <2>3, <2>5
<1>3. ASSUME NEW n \in Nexuses, ShutdownNexus(n)
      PROVE  EngineInv'
  BY <1>3 DEF ShutdownNexus, EngineTypes, OneShutdown, AllCollected, Aborted, Registered
<1>4. CASE ShutdownPools \/ SubsystemFini \/ ReactorsStop
  <2> USE <1>4 DEF ShutdownPools, SubsystemFini, ReactorsStop
  <2>1. EngineTypes'
    BY Zenon DEF EngineTypes, ShutStages
  <2>2. OneShutdown'
    <3>1. UNCHANGED <<signal, critical, main>>
      BY Zenon
    <3>2. shut \notin {"none", "stopped"} /\ shut' # "none" /\ (master' = master \/ shut' = "stopped")
      BY Zenon
    <3> QED BY ONLY EngineInv, <3>1, <3>2, Zenon DEF EngineInv, OneShutdown
  <2>3. AllCollected'
    BY Zenon DEF AllCollected
  <2>4. UNCHANGED <<tokio, signal, main, code, grpc, reg, known, stray>>
    BY Zenon
  <2>5. Aborted' /\ Registered'
    BY ONLY EngineInv, <2>4, ZenonT(30) DEF EngineInv, Aborted, Registered
  <2> QED BY <2>1, <2>2, <2>3, <2>5
<1>5. ASSUME NEW n \in Nexuses, CreateNexus(n)
      PROVE  EngineInv'
  BY <1>5 DEF CreateNexus, EngineTypes, OneShutdown, AllCollected, Aborted, Registered
<1> QED BY <1>1, <1>2, <1>3, <1>4, <1>5 DEF ShutdownNext, ShutdownStep

\* The servers, a signal, and the answers of the control plane.
LEMMA ServersKept ==
  ASSUME EngineInv, TokioNext \/ RemoteStops \/ Terminate \/ StrayArrives \/ \E n \in Nexuses : Accept(n)
  PROVE  EngineInv'
PROOF
<1> USE DEF EngineInv, mainVars, signalVars, shutVars, tokioVars
<1>1. CASE TokioNext
  <2> USE <1>1 DEF TokioNext, Serve, BindFails, GrpcStops, Register, RegistrationSleeps, RegistrationClosed,
                   Deregister, TokioEnds, SignalHandler, Alive
  <2>1. EngineTypes'
    BY Zenon DEF EngineTypes, MainStages
  <2>2. OneShutdown'
    <3>1. \/ UNCHANGED signalVars
          \/ signal = "none" /\ signal' = "SIGUSR1" /\ signalled' = main
      BY Zenon
    <3>2. UNCHANGED mainVars /\ UNCHANGED shutVars
      BY Zenon
    <3> QED BY ONLY EngineInv, <3>1, <3>2 DEF OneShutdown, EngineTypes, EngineInv, signalVars, mainVars, shutVars
  <2>3. AllCollected'
    BY Zenon DEF AllCollected
  <2>4. Aborted'
    BY Zenon DEF Aborted, EngineTypes
  <2>5. Registered'
    <3>1. grpc' # "none" \/ grpc' = grpc
      BY Zenon
    <3>2. reg' # "none" /\ reg = "none" => grpc' # "none"
      BY Zenon
    <3>3. (known' \/ stray') /\ ~(known \/ stray) => reg # "none"
      BY Zenon
    <3> QED BY <3>1, <3>2, <3>3, Zenon DEF Registered
  <2> QED BY <2>1, <2>2, <2>3, <2>4, <2>5, Zenon
<1>2. CASE RemoteStops \/ StrayArrives
  <2>1. CASE RemoteStops
    BY <2>1 DEF RemoteStops, EngineTypes, OneShutdown, AllCollected, Aborted, Registered
  <2>2. CASE StrayArrives
    <3>1. known' = TRUE /\ stray' = FALSE /\ grpc' = grpc /\ reg' = reg /\ stray
      BY <2>2 DEF StrayArrives
    <3>2. UNCHANGED <<main, master, signal, critical, shut, collected, nexus, late, tokio, code>>
      BY <2>2 DEF StrayArrives
    <3> QED BY <3>1, <3>2, Zenon DEF EngineTypes, OneShutdown, AllCollected, Aborted, Registered
  <2> QED BY <1>2, <2>1, <2>2
<1>3. CASE Terminate
  BY <1>3, ZenonT(30) DEF Terminate, SignalHandler, EngineTypes, OneShutdown, AllCollected, Aborted, Registered
<1>4. ASSUME NEW n \in Nexuses, Accept(n)
      PROVE  EngineInv'
  BY <1>4 DEF Accept, EngineTypes, OneShutdown, AllCollected, Aborted, Registered
<1> QED BY <1>1, <1>2, <1>3, <1>4

\* What the process keeps from its start to its exit, whenever signals and
\* requests come.
THEOREM EngineInvariance == EngineSpec => []EngineInv
PROOF
<1>1. EngineInv /\ [EngineNext]_engineVars => EngineInv'
  <2> SUFFICES ASSUME EngineInv, [EngineNext]_engineVars PROVE EngineInv'
    OBVIOUS
  <2>1. CASE EngineNext
    BY <2>1, MainKept, ShutdownStepKept, ServersKept DEF EngineNext
  <2>2. CASE UNCHANGED engineVars
    BY <2>2 DEF engineVars, EngineInv, EngineTypes, OneShutdown, AllCollected, Aborted, Registered
  <2> QED BY <2>1, <2>2
<1> QED BY <1>1, EngineInitInv, PTL DEF EngineSpec

\* LifeIsOrdered for every set of nexuses: whatever is left open at the exit of
\* main() came after do_shutdown() had collected its list, an abort is reported
\* by the exit code, and the control plane knows only of nodes that serve.
THEOREM LifeIsOrderedHolds == EngineSpec => []LifeIsOrdered
PROOF
<1>1. EngineInv => LifeIsOrdered
  BY DEF EngineInv, EngineTypes, OneShutdown, AllCollected, Aborted, Registered, LifeIsOrdered,
         OpenAtExitIsLate, AbortIsReported, KnownIsServed
<1> QED BY <1>1, EngineInvariance, PTL

-----------------------------------------------------------------------------
(* The persistent store.  A transaction writes the mark of the core agent  *)
(* back as it expects to find it, so it can only land where it does no     *)
(* harm; this is what makes save_txn() safe to retry and to leave behind.  *)

Puts == [kind : {"put"}, value : NexusInfo, tries : Int, step : {"send", "reconnect"}]
Txns == [kind : {"txn"}, value : NexusInfo, expected : NexusInfo, tries : Int, step : {"send", "reconnect"}]

\* Both values of a transaction carry the same mark.
Operation(s) == s \in Puts \/ (s \in Txns /\ s.value.do_self_shutdown = s.expected.do_self_shutdown)

StoreTypes ==
  /\ stored \in NexusInfo /\ inner \in NexusInfo /\ saved \in NexusInfo
  /\ save = NoSave \/ Operation(save)
  /\ \A s \in strays : Operation(s)
  /\ shutdown \in BOOLEAN /\ disturbed \in BOOLEAN

StoreInv == StoreTypes /\ SavedIsStored

\* A save under way is told apart from none, and a put from a transaction.
LEMMA SavesDiffer ==
  /\ \A s \in Puts : s.kind = "put" /\ s.value \in NexusInfo /\ s # NoSave
  /\ \A s \in Txns : s.kind = "txn" /\ s.value \in NexusInfo /\ s # NoSave
  /\ NoSave.kind = "none"
PROOF
BY DEF Puts, Txns, NoSave

\* An operation that timed out keeps its value, in the save and as a stray.
LEMMA StillUnderWay ==
  ASSUME NEW s, Operation(s)
  PROVE  Operation([s EXCEPT !.step = "reconnect"]) /\ Operation([s EXCEPT !.tries = 0]) /\ s.tries \in Int
PROOF
<1>1. CASE s \in Puts
  <2>1. [s EXCEPT !.step = "reconnect"] \in Puts /\ [s EXCEPT !.tries = 0] \in Puts /\ s.tries \in Int
    BY <1>1 DEF Puts
  <2> QED BY <2>1 DEF Operation
<1>2. CASE s \in Txns
  <2>1. [s EXCEPT !.step = "reconnect"] \in Txns /\ [s EXCEPT !.tries = 0] \in Txns /\ s.tries \in Int
    BY <1>2 DEF Txns
  <2>2. \A t \in {[s EXCEPT !.step = "reconnect"], [s EXCEPT !.tries = 0]} : t.value = s.value /\ t.expected = s.expected
    BY <1>2 DEF Txns
  <2>3. s.value.do_self_shutdown = s.expected.do_self_shutdown
    BY <1>2, SavesDiffer DEF Operation
  <2> QED BY <2>1, <2>2, <2>3 DEF Operation
<1> QED BY <1>1, <1>2 DEF Operation

\* So does the next attempt.
LEMMA NextTry ==
  ASSUME NEW s, Operation(s), NEW n \in Int
  PROVE  Operation([s EXCEPT !.tries = n, !.step = "send"]) /\ s.tries \in Int
PROOF
<1>1. CASE s \in Puts
  <2>1. [s EXCEPT !.tries = n, !.step = "send"] \in Puts /\ s.tries \in Int
    BY <1>1, Zenon DEF Puts
  <2> QED BY <2>1 DEF Operation
<1>2. CASE s \in Txns
  <2>1. [s EXCEPT !.tries = n, !.step = "send"] \in Txns /\ s.tries \in Int
    BY <1>2, Zenon DEF Txns
  <2>2. \A t \in {[s EXCEPT !.tries = n, !.step = "send"]} : t.value = s.value /\ t.expected = s.expected
    BY <1>2, Zenon DEF Txns
  <2>3. s.value.do_self_shutdown = s.expected.do_self_shutdown
    BY <1>2, SavesDiffer DEF Operation
  <2> QED BY <2>1, <2>2, <2>3 DEF Operation
<1> QED BY <1>1, <1>2 DEF Operation

\* What etcd holds after a transaction has come to it.
LEMMA CasTypes ==
  ASSUME StoreTypes, NEW s, Operation(s), s.kind # "put"
  PROVE  /\ Cas(s.value, s.expected) \in NexusInfo
         /\ Cas(s.value, s.expected).do_self_shutdown = stored.do_self_shutdown
PROOF
<1>1. s \in Txns /\ s.value.do_self_shutdown = s.expected.do_self_shutdown
  BY SavesDiffer DEF Operation
<1> QED BY <1>1, SavesDiffer, Zenon DEF StoreTypes, Cas

\* The store starts with what the nexus has.
LEMMA StoreInitInv == StoreInit => StoreInv
PROOF
<1> SUFFICES ASSUME StoreInit PROVE StoreInv
  OBVIOUS
<1>1. stored \in NexusInfo
  BY DEF StoreInit, NexusInfo
<1> QED BY <1>1, Zenon DEF StoreInit, StoreInv, StoreTypes, SavedIsStored

\* persist() puts its value together from what the nexus knows.
LEMMA PersistBegins ==
  ASSUME StoreInv, PersistUpdate \/ PersistUpdateCond
  PROVE  StoreInv'
PROOF
<1>1. inner' \in NexusInfo /\ inner'.do_self_shutdown = inner.do_self_shutdown
  BY Zenon DEF PersistUpdate, PersistUpdateCond, StoreInv, StoreTypes, NexusInfo
<1>2. Operation(save')
  BY <1>1, RetriesAssumption
     DEF PersistUpdate, PersistUpdateCond, Put, Txn, Puts, Txns, Operation, StoreInv, StoreTypes
<1>3. UNCHANGED <<stored, strays, shutdown, saved, disturbed>>
  BY DEF PersistUpdate, PersistUpdateCond
<1> QED BY <1>1, <1>2, <1>3, SavesDiffer DEF StoreInv, StoreTypes, SavedIsStored, Operation

\* An attempt that failed is repeated, or ends the nexus.
LEMMA RetryKept ==
  ASSUME StoreInv, save # NoSave, Retry, UNCHANGED <<stored, strays>>
  PROVE  StoreInv'
PROOF
<1>1. CASE save.tries = 1
  BY <1>1 DEF Retry, SaveFailed, StoreInv, StoreTypes, SavedIsStored
<1>2. CASE save.tries # 1
  <2>1. Operation(save')
    <3>0. Operation(save)
      BY DEF StoreInv, StoreTypes
    <3>1. save.tries \in Int
      BY <3>0, StillUnderWay, Zenon
    <3>2. save' = [save EXCEPT !.tries = save.tries - 1, !.step = "send"]
      BY <1>2 DEF Retry
    <3>3. PICK n \in Int : n = save.tries - 1
      BY <3>1
    <3>4. Operation([save EXCEPT !.tries = n, !.step = "send"])
      BY <3>0, NextTry, Zenon
    <3> QED BY <3>2, <3>3, <3>4
  <2>2. UNCHANGED <<inner, shutdown, saved, disturbed>>
    BY <1>2 DEF Retry
  <2> QED BY <2>1, <2>2, SavesDiffer DEF StoreInv, StoreTypes, SavedIsStored, Operation
<1> QED BY <1>1, <1>2

\* An operation that is answered, fails, times out, or reconnects.
LEMMA StoreOpKept ==
  ASSUME StoreInv, StoreOp
  PROVE  StoreInv'
PROOF
<1>0. save # NoSave /\ Operation(save) /\ save.value \in NexusInfo
  BY SavesDiffer DEF StoreOp, PutKv, PutKvCas, StoreErrs, OpTimeout, Reconnect, StoreInv, StoreTypes, Operation
<1>1. CASE PutKv
  BY <1>0, <1>1, Zenon DEF PutKv, SaveOk, StoreInv, StoreTypes, SavedIsStored
<1>2. CASE PutKvCas
  <2>1. stored' \in NexusInfo
    BY <1>0, <1>2, CasTypes DEF PutKvCas, StoreInv
  <2>2. [inner EXCEPT !.do_self_shutdown = stored.do_self_shutdown] \in NexusInfo
    BY DEF StoreInv, StoreTypes, NexusInfo
  <2>3. save' = NoSave /\ strays' = strays
    BY <1>2 DEF PutKvCas, SaveOk
  <2>4. CASE stored' = save.value
    BY <1>0, <1>2, <2>3, <2>4, Zenon DEF PutKvCas, SaveOk, StoreInv, StoreTypes, SavedIsStored
  <2>5. CASE stored' # save.value
    BY <1>2, <2>1, <2>2, <2>3, <2>5 DEF PutKvCas, StoreInv, StoreTypes, SavedIsStored
  <2> QED BY <2>4, <2>5
<1>3. CASE StoreErrs \/ Reconnect
  BY <1>0, <1>3, RetryKept DEF StoreErrs, Reconnect
<1>4. CASE OpTimeout
  <2>1. Operation(save') /\ save' # NoSave
    <3>1. save' = [save EXCEPT !.step = "reconnect"]
      BY <1>4 DEF OpTimeout
    <3>2. Operation([save EXCEPT !.step = "reconnect"])
      BY <1>0, StillUnderWay, Zenon
    <3> QED BY <3>1, <3>2, SavesDiffer DEF Operation
  <2>2. Operation([save EXCEPT !.tries = 0])
    BY <1>0, StillUnderWay, Zenon
  <2>3. stored' \in NexusInfo
    BY <1>0, <1>4, CasTypes DEF OpTimeout, StoreInv, StoreTypes
  <2>4. \A s \in strays' : Operation(s)
    BY <1>4, <2>2 DEF OpTimeout, StoreInv, StoreTypes
  <2>5. UNCHANGED <<inner, shutdown, saved, disturbed>>
    BY <1>4 DEF OpTimeout
  <2> QED BY <2>1, <2>3, <2>4, <2>5 DEF StoreInv, StoreTypes, SavedIsStored
<1> QED BY <1>1, <1>2, <1>3, <1>4 DEF StoreOp

\* Operations that were given up, and the core agent.
LEMMA OthersKept ==
  ASSUME StoreInv, StrayLands \/ Republish
  PROVE  StoreInv'
PROOF
<1>1. CASE StrayLands
  <2>1. PICK s \in strays : /\ strays' = strays \ {s}
                            /\ stored' = IF s.kind = "put" THEN s.value ELSE Cas(s.value, s.expected)
                            /\ disturbed' = (disturbed \/ stored' # stored)
                            /\ UNCHANGED <<inner, save, shutdown, saved>>
    BY <1>1 DEF StrayLands
  <2>2. Operation(s) /\ s.value \in NexusInfo
    BY SavesDiffer DEF StoreInv, StoreTypes, Operation
  <2>3. stored' \in NexusInfo
    BY <2>1, <2>2, CasTypes DEF StoreInv
  <2>4. StoreTypes'
    BY <2>1, <2>3 DEF StoreInv, StoreTypes
  <2>5. SavedIsStored'
    BY <2>1, Zenon DEF StoreInv, SavedIsStored
  <2> QED BY <2>4, <2>5 DEF StoreInv
<1>2. CASE Republish
  <2>1. stored' \in NexusInfo
    BY <1>2, Zenon DEF Republish, StoreInv, StoreTypes, NexusInfo
  <2> QED BY <1>2, <2>1 DEF Republish, StoreInv, StoreTypes, SavedIsStored
<1> QED BY <1>1, <1>2

\* The invariant of the store, however often operations fail and time out.
THEOREM StoreInvariance == StoreSpec => []StoreInv
PROOF
<1>1. StoreInv /\ [StoreNext]_storeVars => StoreInv'
  <2> SUFFICES ASSUME StoreInv, [StoreNext]_storeVars PROVE StoreInv'
    OBVIOUS
  <2>1. CASE StoreNext
    BY <2>1, PersistBegins, StoreOpKept, OthersKept DEF StoreNext
  <2>2. CASE UNCHANGED storeVars
    BY <2>2 DEF storeVars, StoreInv, StoreTypes, SavedIsStored
  <2> QED BY <2>1, <2>2
<1> QED BY <1>1, StoreInitInv, PTL DEF StoreSpec

\* SavedIsStored for every number of tries, saves and lost answers: a persist()
\* that returned Ok has its value in etcd until someone else writes.
THEOREM SavedIsStoredHolds == StoreSpec => []SavedIsStored
PROOF
BY StoreInvariance, PTL DEF StoreInv

\* TxnKeepsMark: no transaction takes back the mark that the core agent has set,
\* also one that timed out and lands after the nexus has been published elsewhere.
THEOREM TxnKeepsMarkHolds == StoreSpec => TxnKeepsMark
PROOF
<1> DEFINE Keeps == stored.do_self_shutdown /\ ~stored'.do_self_shutdown =>
                      save.kind = "put" \/ \E s \in strays : s.kind = "put"
<1>1. StoreInv /\ [StoreNext]_storeVars => [Keeps]_storeVars
  <2> SUFFICES ASSUME StoreInv, StoreNext, stored.do_self_shutdown, ~stored'.do_self_shutdown
               PROVE  save.kind = "put" \/ \E s \in strays : s.kind = "put"
    BY DEF storeVars
  <2>1. CASE PersistUpdate \/ PersistUpdateCond
    BY <2>1 DEF PersistUpdate, PersistUpdateCond
  <2>2. CASE StoreOp
    <3>1. save # NoSave /\ Operation(save)
      BY <2>2, SavesDiffer DEF StoreOp, PutKv, PutKvCas, StoreErrs, OpTimeout, Reconnect, StoreInv, StoreTypes
    <3>2. CASE save.kind # "put"
      <4>1. Cas(save.value, save.expected).do_self_shutdown = stored.do_self_shutdown
        BY <3>1, <3>2, CasTypes, Zenon DEF StoreInv
      <4>2. stored' = stored \/ stored' = Cas(save.value, save.expected)
        BY <2>2, <3>2 DEF StoreOp, PutKv, PutKvCas, StoreErrs, OpTimeout, Reconnect
      <4> QED BY <4>1, <4>2, Zenon
    <3> QED BY <3>2
  <2>3. CASE StrayLands
    <3>1. PICK s \in strays : stored' = IF s.kind = "put" THEN s.value ELSE Cas(s.value, s.expected)
      BY <2>3 DEF StrayLands
    <3>2. CASE s.kind # "put"
      BY <3>1, <3>2, CasTypes, Zenon DEF StoreInv, StoreTypes
    <3> QED BY <3>2
  <2>4. CASE Republish
    BY <2>4 DEF Republish, StoreInv, StoreTypes, NexusInfo
  <2> QED BY <2>1, <2>2, <2>3, <2>4 DEF StoreNext
<1> QED BY <1>1, StoreInvariance, PTL DEF StoreSpec, TxnKeepsMark
=============================================================================
