-------------------------------- MODULE IoProofs --------------------------------
(***************************************************************************)
(* Proofs about who may have I/O in flight: the pause of a nexus, for any  *)
(* number of callers and of pauses (NexusIoSubsystem), and the commands of *)
(* an NVMe channel, for any number of slots, queue pairs and contexts      *)
(* (NvmeIo).                                                               *)
(*                                                                         *)
(* That a caller who was told the nexus is paused finds it paused is not   *)
(* inductive: it rests on the counter being the number of holders, which   *)
(* in turn rests on at most one caller being inside a transition, on the   *)
(* pause state saying which, and on the queue holding nobody but waiters.  *)
(***************************************************************************)
EXTENDS NexusIoSubsystem, NvmeIo, FiniteSetTheorems, TLAPS

(* What the provers may take on a leaf: thirty seconds each.              *)
USE SMTT(30), ZenonT(30)

\* The pause state tells what the callers are doing.
Transitions ==
    /\ \A c \in Callers : pc[c] = "pausing" => pause_state = "Pausing"
    /\ \A c \in Callers : pc[c] = "unpausing" => pause_state = "Unpausing"
    /\ \A c, d \in Callers : /\ pc[c] \in {"pausing", "unpausing"}
                             /\ pc[d] \in {"pausing", "unpausing"}
                             => c = d

\* The queue holds callers that wait, each once.
Waiters ==
    /\ \A i \in 1..Len(pause_waiters) : pc[pause_waiters[i]] = "suspend_wait"
    /\ \A i, j \in 1..Len(pause_waiters) : pause_waiters[i] = pause_waiters[j] => i = j

\* A subsystem that exists is marked, and an RPC about to change the mark of
\* a nexus that is not shared knows that there is no subsystem.
Marked ==
    /\ ss # "none" => shared = "yes"
    /\ rpc \in {"share_persist", "unshare_persist"} => ss = "none"

Inv == /\ TypeOK /\ Transitions /\ Waiters /\ Marked
       /\ CounterIsHolders /\ HeldIsPaused /\ NoWaiterForgotten

-----------------------------------------------------------------------------
(* What the end of suspend() and resume() does to the callers: c goes on, at
   most one waiter is woken, and one is if there is any.                   *)
LEMMA ReturnEffect ==
    ASSUME TypeOK, Waiters, NEW c \in Callers, pc[c] # "suspend_wait",
           NEW to \in {"held", "idle"}, Return(c, to)
    PROVE  /\ pc' \in [Callers -> {"idle", "suspend", "suspend_wait", "pausing", "held", "unpausing"}]
           /\ pc'[c] = to
           /\ \A d \in Callers : d # c => \/ pc'[d] = pc[d]
                                          \/ pc[d] = "suspend_wait" /\ pc'[d] = "suspend"
           /\ pause_waiters' \in Seq(Callers)
           /\ Waiters'
           /\ pause_waiters' # <<>> => \E d \in Callers : pc'[d] = "suspend"
PROOF
<1>1. CASE pause_waiters = <<>>
  BY <1>1 DEF Return, TypeOK, Waiters
<1>2. CASE pause_waiters # <<>>
  <2> DEFINE h == Head(pause_waiters)
  <2>1. /\ h \in Callers /\ h = pause_waiters[1]
        /\ pause_waiters' \in Seq(Callers)
        /\ Len(pause_waiters) \in Nat /\ Len(pause_waiters) > 0
        /\ Len(pause_waiters') = Len(pause_waiters) - 1
        /\ \A i \in 1..Len(pause_waiters') : pause_waiters'[i] = pause_waiters[i + 1]
    <3>1. pause_waiters \in Seq(Callers)
      BY DEF TypeOK
    <3>2. pause_waiters' = Tail(pause_waiters)
      BY <1>2 DEF Return
    <3>3. Len(pause_waiters) \in Nat /\ Len(pause_waiters) > 0
      BY <1>2, <3>1
    <3> QED BY <1>2, <3>1, <3>2, <3>3
  <2>2. pc[h] = "suspend_wait" /\ h # c
    BY <2>1 DEF Waiters
  <2>3. pc' = [pc EXCEPT ![c] = to, ![h] = "suspend"]
    BY <1>2 DEF Return
  <2>4. /\ pc' \in [Callers -> {"idle", "suspend", "suspend_wait", "pausing", "held", "unpausing"}]
        /\ pc'[c] = to
        /\ pc'[h] = "suspend"
        /\ \A d \in Callers : d # c /\ d # h => pc'[d] = pc[d]
    BY <2>1, <2>2, <2>3 DEF TypeOK
  <2>5. Waiters'
    <3>1. \A i \in 1..Len(pause_waiters') : /\ i + 1 \in 1..Len(pause_waiters)
                                            /\ i + 1 # 1
                                            /\ pause_waiters[i + 1] \in Callers
      <4>1. pause_waiters \in Seq(Callers)
        BY DEF TypeOK
      <4>2. \A j \in 1..Len(pause_waiters) : pause_waiters[j] \in Callers
        BY <4>1
      <4>3. \A i \in 1..Len(pause_waiters') : i + 1 \in 1..Len(pause_waiters) /\ i + 1 # 1
        <5> HIDE DEF h
        <5> QED BY <2>1
      <4> QED BY <4>2, <4>3
    <3>2. ASSUME NEW i \in 1..Len(pause_waiters')
          PROVE  pause_waiters'[i] # h /\ pc[pause_waiters'[i]] = "suspend_wait"
      <4>1. /\ pause_waiters'[i] = pause_waiters[i + 1]
            /\ i + 1 \in 1..Len(pause_waiters) /\ 1 \in 1..Len(pause_waiters) /\ i + 1 # 1
        BY <2>1, <3>1
      <4>2. pause_waiters[i + 1] # pause_waiters[1]
        BY <4>1 DEF Waiters
      <4>3. pc[pause_waiters[i + 1]] = "suspend_wait"
        BY <4>1 DEF Waiters
      <4> QED BY <2>1, <4>1, <4>2, <4>3
    <3>3. \A i \in 1..Len(pause_waiters') : pc'[pause_waiters'[i]] = "suspend_wait"
      BY <2>1, <2>4, <3>1, <3>2
    <3>4. ASSUME NEW i \in 1..Len(pause_waiters'), NEW j \in 1..Len(pause_waiters'),
                 pause_waiters'[i] = pause_waiters'[j]
          PROVE  i = j
      <4>1. /\ pause_waiters'[i] = pause_waiters[i + 1] /\ pause_waiters'[j] = pause_waiters[j + 1]
            /\ i + 1 \in 1..Len(pause_waiters) /\ j + 1 \in 1..Len(pause_waiters)
        BY <2>1, <3>1
      <4>2. pause_waiters[i + 1] = pause_waiters[j + 1]
        BY <3>4, <4>1, Zenon
      <4>3. i + 1 = j + 1
        BY <4>1, <4>2 DEF Waiters
      <4> QED BY <4>3
    <3> QED BY <3>3, <3>4 DEF Waiters
  <2> QED BY <2>1, <2>2, <2>4, <2>5
<1> QED BY <1>1, <1>2

-----------------------------------------------------------------------------
(* The counter follows a caller that takes a pause or gives one up.        *)
LEMMA HoldersFinite == IsFiniteSet(Holders) /\ Cardinality(Holders) \in Nat
PROOF
BY CallersAssumption, FS_Subset, FS_CardinalityType DEF Holders

(* A caller that becomes a holder, as suspend() counts it, adds one.       *)
LEMMA HoldersGain ==
    ASSUME CounterIsHolders, NEW c \in Callers,
           c \notin Holders, Holders' = Holders \cup {c}, pause_cnt' = pause_cnt + 1
    PROVE  CounterIsHolders'
PROOF
BY HoldersFinite, FS_AddElement DEF CounterIsHolders

(* A holder that leaves, as resume() counts it, takes one off.             *)
LEMMA HoldersLose ==
    ASSUME CounterIsHolders, NEW c \in Callers,
           c \in Holders, Holders' = Holders \ {c}, pause_cnt' = pause_cnt - 1
    PROVE  /\ CounterIsHolders'
           /\ pause_cnt' \in Nat
           /\ pause_cnt = 1 => Holders = {c}
PROOF
<1>1. /\ IsFiniteSet(Holders \ {c})
      /\ Cardinality(Holders \ {c}) = Cardinality(Holders) - 1
      /\ Cardinality(Holders \ {c}) \in Nat
  BY HoldersFinite, FS_RemoveElement, FS_CardinalityType
<1>2. pause_cnt = 1 => Holders \ {c} = {}
  BY <1>1, FS_EmptySet DEF CounterIsHolders
<1> QED BY <1>1, <1>2 DEF CounterIsHolders

-----------------------------------------------------------------------------
\* The parts of Inv that speak of the callers and the pause state.
CallersOK ==
    /\ pc \in [Callers -> {"idle", "suspend", "suspend_wait", "pausing", "held", "unpausing"}]
    /\ pause_waiters \in Seq(Callers)
    /\ Transitions /\ Waiters /\ HeldIsPaused /\ NoWaiterForgotten

(* A caller that returns from suspend() or resume() keeps them, if nobody else
   is inside a transition.                                                 *)
LEMMA ReturnInv ==
    ASSUME Inv, NEW c \in Callers, pc[c] # "suspend_wait",
           NEW to \in {"held", "idle"}, Return(c, to),
           \A d \in Callers : d # c => pc[d] \notin {"pausing", "unpausing"},
           \A d \in Callers : d # c /\ pc[d] = "held" => pause_state' \in {"Paused", "Frozen"},
           to = "held" => pause_state' \in {"Paused", "Frozen"}
    PROVE  /\ CallersOK'
           /\ Holders' = IF to = "held" THEN Holders \cup {c} ELSE Holders \ {c}
PROOF
<1>1. TypeOK /\ Waiters
  BY DEF Inv
<1>2. /\ pc' \in [Callers -> {"idle", "suspend", "suspend_wait", "pausing", "held", "unpausing"}]
      /\ pc'[c] = to
      /\ \A d \in Callers : d # c => \/ pc'[d] = pc[d]
                                     \/ pc[d] = "suspend_wait" /\ pc'[d] = "suspend"
      /\ pause_waiters' \in Seq(Callers)
      /\ Waiters'
      /\ pause_waiters' # <<>> => \E d \in Callers : pc'[d] = "suspend"
  BY <1>1, ReturnEffect, Zenon
<1>3. Transitions'
  BY <1>2 DEF Transitions
<1>4. HeldIsPaused'
  BY <1>2 DEF HeldIsPaused
<1>5. NoWaiterForgotten'
  BY <1>2 DEF NoWaiterForgotten
<1>6. Holders' = IF to = "held" THEN Holders \cup {c} ELSE Holders \ {c}
  BY <1>2 DEF Holders
<1> QED BY <1>2, <1>3, <1>4, <1>5, <1>6 DEF CallersOK

(* suspend() up to its first await, as a call or as a retry, keeps Inv.    *)
LEMMA SuspendOnceInv ==
    ASSUME Inv, NEW c \in Callers, pc[c] \in {"idle", "suspend"}, SuspendOnce(c),
           calls' \in [Callers -> 0..MaxCalls], UNCHANGED rpcs
    PROVE  Inv'
PROOF
<1> USE DEF rpcs
<1>1. /\ c \notin Holders
      /\ pause_cnt \in Nat
      /\ TypeOK /\ CounterIsHolders
  BY DEF Inv, Holders, TypeOK
<1>2. CASE SuspendAgain(c)
  <2>1. /\ pause_state \in {"Paused", "Frozen"} /\ pause_state' = pause_state
        /\ pause_cnt' = pause_cnt + 1
        /\ Return(c, "held")
        /\ ss' = ss /\ queue' = queue
    BY <1>2 DEF SuspendAgain, target
  <2>2. \A d \in Callers : d # c => pc[d] \notin {"pausing", "unpausing"}
    BY <2>1 DEF Inv, Transitions
  <2>3. CallersOK' /\ Holders' = Holders \cup {c}
    BY <2>1, <2>2, ReturnInv
  <2>4. CounterIsHolders'
    BY <1>1, <2>1, <2>3, HoldersGain
  <2>5. TypeOK' /\ Marked'
    BY <1>1, <2>1, <2>3 DEF Inv, TypeOK, CallersOK, Marked
  <2> QED BY <2>3, <2>4, <2>5 DEF Inv, CallersOK
<1>3. CASE SuspendWait(c)
  <2>1. /\ pause_state \in {"Pausing", "Unpausing"} /\ pause_state' = pause_state
        /\ pause_cnt' = pause_cnt
        /\ pc' = [pc EXCEPT ![c] = "suspend_wait"]
        /\ pause_waiters' = Append(pause_waiters, c)
        /\ ss' = ss /\ queue' = queue
    BY <1>3 DEF SuspendWait, target, counter
  <2>2. /\ pc' \in [Callers -> {"idle", "suspend", "suspend_wait", "pausing", "held", "unpausing"}]
        /\ pc'[c] = "suspend_wait"
        /\ \A d \in Callers : d # c => pc'[d] = pc[d]
    BY <2>1 DEF Inv, TypeOK
  <2>3. /\ pause_waiters' \in Seq(Callers)
        /\ Len(pause_waiters) \in Nat
        /\ Len(pause_waiters') = Len(pause_waiters) + 1
        /\ \A i \in 1..Len(pause_waiters) : /\ pause_waiters'[i] = pause_waiters[i]
                                            /\ pause_waiters[i] \in Callers
        /\ pause_waiters'[Len(pause_waiters) + 1] = c
    BY <2>1 DEF Inv, TypeOK
  <2>4. \A i \in 1..Len(pause_waiters) : pause_waiters[i] # c
    BY <2>3 DEF Inv, Waiters
  <2>5. Waiters'
    <3>1. \A i \in 1..Len(pause_waiters') : i \in 1..Len(pause_waiters) \/ i = Len(pause_waiters) + 1
      BY <2>3
    <3>2. \A i \in 1..Len(pause_waiters') : pc'[pause_waiters'[i]] = "suspend_wait"
      BY <2>2, <2>3, <3>1 DEF Inv, Waiters
    <3>3. \A i, j \in 1..Len(pause_waiters') : pause_waiters'[i] = pause_waiters'[j] => i = j
      BY <2>3, <2>4, <3>1 DEF Inv, Waiters
    <3> QED BY <3>2, <3>3 DEF Waiters
  <2>6. Transitions' /\ HeldIsPaused' /\ NoWaiterForgotten'
    BY <2>1, <2>2 DEF Inv, Transitions, HeldIsPaused, NoWaiterForgotten
  <2>7. Holders' = Holders
    BY <2>2 DEF Holders
  <2>8. CounterIsHolders'
    BY <1>1, <2>1, <2>7 DEF CounterIsHolders
  <2>9. TypeOK' /\ Marked'
    BY <1>1, <2>1, <2>2, <2>3 DEF Inv, TypeOK, Marked
  <2> QED BY <2>5, <2>6, <2>8, <2>9 DEF Inv
<1>4. CASE SuspendFirst(c) /\ ss # "none"
  <2>1. /\ pause_state = "Unpaused" /\ pause_state' = "Pausing"
        /\ pause_cnt' = pause_cnt + 1
        /\ pc' = [pc EXCEPT ![c] = "pausing"]
        /\ queue' = Append(queue, [who |-> c, op |-> "pause"])
        /\ pause_waiters' = pause_waiters /\ ss' = ss
    BY <1>4 DEF SuspendFirst, Request
  <2>2. /\ pc' \in [Callers -> {"idle", "suspend", "suspend_wait", "pausing", "held", "unpausing"}]
        /\ pc'[c] = "pausing"
        /\ \A d \in Callers : d # c => pc'[d] = pc[d]
    BY <2>1 DEF Inv, TypeOK
  <2>3. \A d \in Callers : pc[d] \notin {"pausing", "unpausing", "held"}
    BY <2>1 DEF Inv, Transitions, HeldIsPaused
  <2>4. Transitions' /\ HeldIsPaused' /\ NoWaiterForgotten'
    BY <2>1, <2>2, <2>3 DEF Transitions, HeldIsPaused, NoWaiterForgotten
  <2>5. Waiters'
    <3>1. \A i \in 1..Len(pause_waiters) : pause_waiters[i] \in Callers /\ pause_waiters[i] # c
      BY DEF Inv, TypeOK, Waiters
    <3> QED BY <2>1, <2>2, <3>1 DEF Inv, Waiters
  <2>6. Holders' = Holders \cup {c}
    BY <2>2 DEF Holders
  <2>7. CounterIsHolders'
    BY <1>1, <2>1, <2>6, HoldersGain
  <2>8. queue' \in Seq(Requests)
    <3>1. [who |-> c, op |-> "pause"] \in Requests
      BY DEF Requests
    <3> QED BY <2>1, <3>1 DEF Inv, TypeOK
  <2>9. TypeOK' /\ Marked'
    BY <1>1, <2>1, <2>2, <2>8 DEF Inv, TypeOK, Marked, PauseStates
  <2> QED BY <2>4, <2>5, <2>7, <2>9 DEF Inv
<1>5. CASE SuspendFirst(c) /\ ss = "none"
  <2>1. /\ pause_state = "Unpaused" /\ pause_state' = "Paused"
        /\ pause_cnt' = pause_cnt + 1
        /\ Return(c, "held")
        /\ ss' = ss /\ queue' = queue
    BY <1>5 DEF SuspendFirst, target
  <2>2. \A d \in Callers : d # c => pc[d] \notin {"pausing", "unpausing"}
    BY <2>1 DEF Inv, Transitions
  <2>3. CallersOK' /\ Holders' = Holders \cup {c}
    BY <2>1, <2>2, ReturnInv
  <2>4. CounterIsHolders'
    BY <1>1, <2>1, <2>3, HoldersGain
  <2>5. TypeOK' /\ Marked'
    BY <1>1, <2>1, <2>3 DEF Inv, TypeOK, CallersOK, Marked, PauseStates
  <2> QED BY <2>3, <2>4, <2>5 DEF Inv, CallersOK
<1> QED BY <1>2, <1>3, <1>4, <1>5 DEF SuspendOnce

(* suspend() that goes on after the pause of the NVMe-oF subsystem keeps Inv. *)
LEMMA SuspendDoneInv ==
    ASSUME Inv, NEW c \in Callers, SuspendDone(c)
    PROVE  Inv'
PROOF
<1>1. /\ pc[c] = "pausing" /\ pause_state' = "Paused"
      /\ Return(c, "held")
      /\ UNCHANGED <<pause_cnt, calls, ss, queue, rpc, reply, shared>>
  BY DEF SuspendDone, target, rpcs
<1>2. \A d \in Callers : d # c => pc[d] \notin {"pausing", "unpausing"}
  BY <1>1 DEF Inv, Transitions
<1>3. CallersOK' /\ Holders' = Holders \cup {c}
  BY <1>1, <1>2, ReturnInv
<1>4. CounterIsHolders'
  BY <1>1, <1>3 DEF Inv, CounterIsHolders, Holders
<1>5. TypeOK' /\ Marked'
  BY <1>1, <1>3 DEF Inv, TypeOK, CallersOK, Marked, PauseStates
<1> QED BY <1>3, <1>4, <1>5 DEF Inv, CallersOK

(* resume() that goes on after the resume of the NVMe-oF subsystem keeps Inv. *)
LEMMA ResumeDoneInv ==
    ASSUME Inv, NEW c \in Callers, ResumeDone(c)
    PROVE  Inv'
PROOF
<1>1. /\ pc[c] = "unpausing" /\ pause_state' = "Unpaused"
      /\ Return(c, "idle")
      /\ UNCHANGED <<pause_cnt, calls, ss, queue, rpc, reply, shared>>
  BY DEF ResumeDone, target, rpcs
<1>2. /\ pause_state = "Unpausing"
      /\ \A d \in Callers : d # c => pc[d] \notin {"pausing", "unpausing"}
      /\ \A d \in Callers : pc[d] # "held"
  BY <1>1 DEF Inv, Transitions, HeldIsPaused
<1>3. CallersOK' /\ Holders' = Holders \ {c}
  BY <1>1, <1>2, ReturnInv
<1>4. CounterIsHolders'
  BY <1>1, <1>3 DEF Inv, CounterIsHolders, Holders
<1>5. TypeOK' /\ Marked'
  BY <1>1, <1>3 DEF Inv, TypeOK, CallersOK, Marked, PauseStates
<1> QED BY <1>3, <1>4, <1>5 DEF Inv, CallersOK

(* resume() up to its first await keeps Inv: it is the last holder, and only
   the last, that ends the pause.                                          *)
LEMMA ResumeInv ==
    ASSUME Inv, NEW c \in Callers, Resume(c)
    PROVE  Inv'
PROOF
<1>1. /\ pc[c] = "held" /\ c \in Holders
      /\ pause_state \in {"Paused", "Frozen"}
      /\ \A d \in Callers : pc[d] \notin {"pausing", "unpausing"}
      /\ pause_cnt' = pause_cnt - 1
      /\ UNCHANGED <<calls, rpc, reply, shared>>
      /\ TypeOK /\ CounterIsHolders
  BY DEF Inv, Resume, ResumeOnce, Holders, Transitions, rpcs
<1>2. CASE /\ Return(c, "idle")
           /\ pause_cnt = 1 \/ pause_state' = pause_state
           /\ pause_state' \in {"Paused", "Frozen", "Unpaused"}
           /\ ss' = ss /\ queue' = queue
  <2>1. Holders \ {c} = {} \/ pause_state' = pause_state
    <3>1. CASE pause_cnt = 1
      <4>1. /\ Cardinality(Holders \ {c}) = 0
            /\ IsFiniteSet(Holders \ {c})
        <5>1. /\ IsFiniteSet(Holders \ {c})
              /\ Cardinality(Holders \ {c}) = Cardinality(Holders) - 1
          BY <1>1, HoldersFinite, FS_RemoveElement
        <5>2. Cardinality(Holders) = 1
          BY <1>1, <3>1 DEF CounterIsHolders
        <5> QED BY <5>1, <5>2
      <4> QED BY <4>1, FS_EmptySet
    <3> QED BY <1>2, <3>1
  <2>2. \A d \in Callers : d # c /\ pc[d] = "held" => pause_state' \in {"Paused", "Frozen"}
    BY <1>1, <2>1 DEF Holders
  <2>3. CallersOK' /\ Holders' = Holders \ {c}
    BY <1>1, <1>2, <2>2, ReturnInv
  <2>4. CounterIsHolders' /\ pause_cnt' \in Nat
    BY <1>1, <2>3, HoldersLose
  <2>5. TypeOK' /\ Marked'
    BY <1>1, <1>2, <2>3, <2>4 DEF Inv, TypeOK, CallersOK, Marked, PauseStates
  <2> QED BY <2>3, <2>4, <2>5 DEF Inv, CallersOK
<1>3. CASE /\ pause_cnt = 1
           /\ pause_state' = "Unpausing"
           /\ queue' = Append(queue, [who |-> c, op |-> "resume"])
           /\ pc' = [pc EXCEPT ![c] = "unpausing"]
           /\ pause_waiters' = pause_waiters /\ ss' = ss
  <2>1. /\ pc' \in [Callers -> {"idle", "suspend", "suspend_wait", "pausing", "held", "unpausing"}]
        /\ pc'[c] = "unpausing"
        /\ \A d \in Callers : d # c => pc'[d] = pc[d]
    BY <1>3 DEF Inv, TypeOK
  <2>2. Holders' = Holders \ {c}
    BY <2>1 DEF Holders
  <2>3. CounterIsHolders' /\ pause_cnt' \in Nat /\ Holders = {c}
    BY <1>1, <1>3, <2>2, HoldersLose
  <2>4. \A d \in Callers : d # c => pc[d] # "held"
    BY <2>3 DEF Holders
  <2>5. Transitions' /\ HeldIsPaused' /\ NoWaiterForgotten'
    BY <1>1, <1>3, <2>1, <2>4 DEF Transitions, HeldIsPaused, NoWaiterForgotten
  <2>6. Waiters'
    <3>1. \A i \in 1..Len(pause_waiters) : pause_waiters[i] \in Callers /\ pause_waiters[i] # c
      BY <1>1 DEF Inv, TypeOK, Waiters
    <3> QED BY <1>3, <2>1, <3>1 DEF Inv, Waiters
  <2>7. queue' \in Seq(Requests)
    <3>1. [who |-> c, op |-> "resume"] \in Requests
      BY DEF Requests
    <3> QED BY <1>3, <3>1 DEF Inv, TypeOK
  <2>8. TypeOK' /\ Marked'
    BY <1>1, <1>3, <2>1, <2>3, <2>7 DEF Inv, TypeOK, Marked, PauseStates
  <2> QED BY <2>3, <2>5, <2>6, <2>8 DEF Inv
<1>4. PICK freeze \in BOOLEAN : ResumeOnce(c, freeze)
  BY DEF Resume
<1> QED BY <1>1, <1>2, <1>3, <1>4, Zenon DEF ResumeOnce, Request, target

(* SPDK and the RPCs change neither the callers nor the pause state, and keep
   the mark in the store ahead of the subsystem.                           *)
LEMMA TargetInv ==
    ASSUME Inv, SpdkStateChange \/ RpcStep
    PROVE  Inv'
PROOF
<1>1. UNCHANGED <<pause_state, pause_cnt, pc, calls, pause_waiters>>
  BY DEF SpdkStateChange, RpcStep, Share, SharePersist, ShareStart, ShareDone, Unshare,
         UnshareStopped, UnsharePersist, AnaPause, AnaSet, AnaResume, AnaDone,
         counter, callers
<1>2. Transitions' /\ Waiters' /\ CounterIsHolders' /\ HeldIsPaused' /\ NoWaiterForgotten'
  BY <1>1 DEF Inv, Transitions, Waiters, CounterIsHolders, HeldIsPaused,
              NoWaiterForgotten, Holders
<1>3. CASE SpdkStateChange
  <2>1. PICK ok \in Outcomes(Head(queue).op) :
            /\ ss' = StateChange(Head(queue).op, ok)
            /\ reply' = IF Head(queue).who # Rpc THEN reply
                        ELSE IF ok THEN "ok" ELSE "err"
    BY <1>3 DEF SpdkStateChange
  <2>2. /\ queue' = Tail(queue) /\ queue # <<>>
        /\ rpc' = rpc /\ shared' = shared
    BY <1>3 DEF SpdkStateChange
  <2>3. /\ queue' \in Seq(Requests)
        /\ Head(queue).op \in {"pause", "resume", "start", "stop"}
    <3>1. queue \in Seq(Requests)
      BY DEF Inv, TypeOK
    <3>2. Head(queue) \in Requests /\ Tail(queue) \in Seq(Requests)
      BY <2>2, <3>1
    <3> QED BY <2>2, <3>2 DEF Requests
  <2>4. reply' \in {"ok", "err"}
    <3>1. reply \in {"ok", "err"}
      BY DEF Inv, TypeOK
    <3> QED BY <2>1, <3>1, Zenon
  <2>5. ss' \in {"none", "inactive", "active", "paused"}
    <3>1. ss \in {"none", "inactive", "active", "paused"}
      BY DEF Inv, TypeOK
    <3>2. CASE ~ok
      BY <2>1, <3>1, <3>2, Zenon DEF StateChange
    <3>3. CASE ok
      <4>1. ss' = [pause |-> "paused", resume |-> "active", start |-> "active",
                   stop |-> "inactive"][Head(queue).op]
        BY <2>1, <3>3, Zenon DEF StateChange
      <4> QED BY <2>3, <4>1
    <3> QED BY <3>2, <3>3
  <2>6. ss = "none" => ss' = "none"
    BY <2>1, Zenon DEF StateChange, Outcomes
  <2>7. TypeOK' /\ Marked'
    BY <1>1, <2>2, <2>3, <2>4, <2>5, <2>6 DEF Inv, TypeOK, Marked
  <2> QED BY <1>2, <2>7 DEF Inv
<1>4. CASE RpcStep
  <2>1. queue' \in Seq(Requests)
    <3>1. \/ queue' = queue
          \/ \E op \in {"pause", "resume", "start", "stop"} :
                queue' = Append(queue, [who |-> Rpc, op |-> op])
      BY <1>4 DEF RpcStep, Share, SharePersist, ShareStart, ShareDone, Unshare,
         UnshareStopped, UnsharePersist, AnaPause, AnaSet, AnaResume, AnaDone,
         target, Request
    <3>2. \A op \in {"pause", "resume", "start", "stop"} : [who |-> Rpc, op |-> op] \in Requests
      BY DEF Requests
    <3>3. queue \in Seq(Requests)
      BY DEF Inv, TypeOK
    <3>4. ASSUME NEW r \in Requests, queue' = Append(queue, r)
          PROVE  queue' \in Seq(Requests)
      BY <3>3, <3>4
    <3>5. CASE queue' = queue
      BY <3>3, <3>5
    <3> QED BY <3>1, <3>2, <3>4, <3>5, ZenonT(30)
  <2>2. TypeOK' /\ Marked'
    BY <1>1, <1>4, <2>1 DEF Inv, TypeOK, Marked, RpcStep, Share, SharePersist, ShareStart,
         ShareDone, Unshare, UnshareStopped, UnsharePersist, AnaPause, AnaSet, AnaResume,
         AnaDone, target
  <2> QED BY <1>2, <2>2 DEF Inv
<1> QED BY <1>3, <1>4

-----------------------------------------------------------------------------
(* Inv holds initially: nobody has paused a nexus that was just created.   *)
LEMMA InitInv == Init => Inv
PROOF
<1> SUFFICES ASSUME Init PROVE Inv
  OBVIOUS
<1> USE DEF Init
<1>1. TypeOK
  <2>1. pause_waiters \in Seq(Callers) /\ queue \in Seq(Requests)
    OBVIOUS
  <2>2. calls \in [Callers -> 0..MaxCalls]
    BY MaxCallsAssumption
  <2> QED BY <2>1, <2>2 DEF TypeOK, PauseStates
<1>2. Holders = {}
  BY DEF Holders
<1>3. CounterIsHolders
  BY <1>2, FS_EmptySet DEF CounterIsHolders
<1>4. Transitions /\ Waiters /\ Marked /\ HeldIsPaused /\ NoWaiterForgotten
  BY DEF Transitions, Waiters, Marked, HeldIsPaused, NoWaiterForgotten
<1> QED BY <1>1, <1>3, <1>4 DEF Inv

(* Inv is inductive: every step of the callers, of SPDK and of an RPC keeps it. *)
LEMMA NextInv == Inv /\ [Next]_vars => Inv'
PROOF
<1> SUFFICES ASSUME Inv, [Next]_vars PROVE Inv'
  OBVIOUS
<1>1. ASSUME NEW c \in Callers, Suspend(c)
      PROVE  Inv'
  <2>1. calls' \in [Callers -> 0..MaxCalls]
    BY <1>1, MaxCallsAssumption DEF Inv, TypeOK, Suspend
  <2> QED BY <1>1, <2>1, SuspendOnceInv DEF Suspend
<1>2. ASSUME NEW c \in Callers, SuspendRetry(c)
      PROVE  Inv'
  <2>1. calls' \in [Callers -> 0..MaxCalls]
    BY <1>2 DEF Inv, TypeOK, SuspendRetry
  <2> QED BY <1>2, <2>1, SuspendOnceInv DEF SuspendRetry
<1>3. CASE UNCHANGED vars
  BY <1>3 DEF vars, Inv, TypeOK, Transitions, Waiters, Marked, CounterIsHolders,
              HeldIsPaused, NoWaiterForgotten, Holders
<1> QED BY <1>1, <1>2, <1>3, SuspendDoneInv, ResumeInv, ResumeDoneInv, TargetInv
        DEF Next, CallerStep

(* Inv holds in every state of every behaviour.                            *)
THEOREM Invariance == Spec => []Inv
PROOF
BY InitInv, NextInv, PTL DEF Spec

(* The state of the subsystem, its callers and the RPC keep their types.   *)
THEOREM TypeCorrect == Spec => []TypeOK
PROOF
<1>1. Inv => TypeOK
  BY DEF Inv
<1> QED BY <1>1, Invariance, PTL

(* suspend() asserts that the counter is 0 when it finds the nexus unpaused:
   nobody holds a pause then.                                              *)
THEOREM UnpausedIsZero == Spec => [](pause_state = "Unpaused" => pause_cnt = 0)
PROOF
<1>1. Inv => (pause_state = "Unpaused" => pause_cnt = 0)
  <2> SUFFICES ASSUME Inv, pause_state = "Unpaused"
               PROVE  pause_cnt = 0
    OBVIOUS
  <2>1. Holders = {}
    BY DEF Inv, Transitions, HeldIsPaused, Holders
  <2> QED BY <2>1, FS_EmptySet DEF Inv, CounterIsHolders
<1> QED BY <1>1, Invariance, PTL

(* For any number of concurrent pauses the counter is the number of those not
   undone, nobody who holds a pause finds the nexus resumed by another, no
   waiter of suspend() is left without somebody to wake it, and a subsystem
   that accepts writes is marked in the store, whatever fails around share
   and unshare.                                                            *)
THEOREM PauseIsSoundHolds == Spec => []PauseIsSound
PROOF
<1>1. Inv => PauseIsSound
  BY DEF Inv, Marked, LiveIsMarkedShared, PauseIsSound
<1> QED BY <1>1, Invariance, PTL

(* Once frozen, a nexus is not resumed by any interleaving of pauses.      *)
THEOREM FrozenForGoodHolds == Spec => FrozenForGood
PROOF
<1>1. Inv /\ [Next]_vars => [pause_state = "Frozen" => pause_state' = "Frozen"]_vars
  <2> SUFFICES ASSUME Inv, Next, pause_state = "Frozen"
               PROVE  pause_state' = "Frozen"
    BY DEF vars
  <2>1. \A c \in Callers : pc[c] \notin {"pausing", "unpausing"}
    BY DEF Inv, Transitions
  <2>2. CASE SpdkStateChange \/ RpcStep
    BY <2>2 DEF SpdkStateChange, RpcStep, Share, SharePersist, ShareStart, ShareDone,
                Unshare, UnshareStopped, UnsharePersist, AnaPause, AnaSet, AnaResume,
                AnaDone, counter
  <2>3. ASSUME NEW c \in Callers, CallerStep(c)
        PROVE  pause_state' = "Frozen"
    BY <2>1, <2>3 DEF CallerStep, Suspend, SuspendRetry, SuspendDone, ResumeDone, Resume,
                      SuspendOnce, SuspendFirst, SuspendAgain, SuspendWait, ResumeOnce,
                      counter
  <2> QED BY <2>2, <2>3 DEF Next
<1> QED BY <1>1, Invariance, PTL DEF Spec, FrozenForGood

-----------------------------------------------------------------------------
(* The commands of an NVMe channel.  A command that SPDK has is with the   *)
(* queue pair that is in the channel; the counter and the pool then follow *)
(* from the set of commands that every step adds to or takes from.         *)

UsedBy(kinds) == {i \in Slots : cmd[i].st # "free" /\ cmd[i].kind \in kinds}

Commands == [kind : Kinds \cup {"none"}, qp : 0..MaxQpairs,
             st : {"free", "spdk", "lost", "ok", "failed"}]

CmdTypes ==
  /\ cmd \in [Slots -> Commands] /\ current \in 0..MaxQpairs
  /\ pending \in Nat /\ pool \in Nat /\ leaked \in Nat

\* What a command in flight tells of its kind and of its queue pair.
InFlightIsKnown ==
  \A i \in Slots :
    /\ cmd[i].st # "free" => cmd[i].kind \in Kinds
    /\ cmd[i].st \in {"lost", "ok", "failed"} => cmd[i].kind \in Kinds \ Pooled
    /\ cmd[i].st = "spdk" => (cmd[i].qp = 0 <=> cmd[i].kind = "admin")

CmdInv == CmdTypes /\ InFlightIsKnown /\ CommandsAccounted

\* Parts of the slots, and how their sizes change.
LEMMA SlotSets ==
  ASSUME IsFiniteSet(Slots)
  PROVE  /\ \A S \in SUBSET Slots : IsFiniteSet(S) /\ Cardinality(S) \in Nat
         /\ \A S \in SUBSET Slots : \A i \in Slots :
              /\ i \notin S => Cardinality(S \cup {i}) = Cardinality(S) + 1
              /\ i \in S => Cardinality(S \ {i}) = Cardinality(S) - 1 /\ Cardinality(S) > 0
         /\ \A S \in SUBSET Slots : \A T \in SUBSET S :
              Cardinality(S \ T) = Cardinality(S) - Cardinality(T) /\ Cardinality(T) <= Cardinality(S)
PROOF
<1>1. ASSUME NEW S \in SUBSET Slots PROVE IsFiniteSet(S) /\ Cardinality(S) \in Nat
  BY FS_Subset, FS_CardinalityType
<1>2. ASSUME NEW S \in SUBSET Slots, NEW i \in Slots
      PROVE  /\ i \notin S => Cardinality(S \cup {i}) = Cardinality(S) + 1
             /\ i \in S => Cardinality(S \ {i}) = Cardinality(S) - 1 /\ Cardinality(S) > 0
  <2>1. i \in S => Cardinality(S) # 0
    BY <1>1, FS_EmptySet
  <2> QED BY <1>1, <2>1, FS_AddElement, FS_RemoveElement
<1>3. ASSUME NEW S \in SUBSET Slots, NEW T \in SUBSET S
      PROVE  Cardinality(S \ T) = Cardinality(S) - Cardinality(T) /\ Cardinality(T) <= Cardinality(S)
  <2>1. IsFiniteSet(T) /\ IsFiniteSet(S \ T) /\ Cardinality(T) <= Cardinality(S)
    BY <1>1, FS_Subset
  <2>2. T \cap (S \ T) = {} /\ T \cup (S \ T) = S
    OBVIOUS
  <2>3. Cardinality(T) \in Nat /\ Cardinality(S \ T) \in Nat
    BY <1>1
  <2>4. Cardinality(S) = Cardinality(T) + Cardinality(S \ T)
    <3>1. Cardinality(T \cup (S \ T)) =
            Cardinality(T) + Cardinality(S \ T) - Cardinality(T \cap (S \ T))
      BY <2>1, FS_Union
    <3>2. Cardinality(T \cap (S \ T)) = 0
      BY <2>2, FS_EmptySet
    <3>3. Cardinality(T \cup (S \ T)) = Cardinality(S)
      BY <2>2
    <3> QED BY <2>3, <3>1, <3>2, <3>3
  <2> QED BY <2>1, <2>3, <2>4
<1> QED BY <1>1, <1>2, <1>3

\* A command is submitted, also to a queue that is full.
LEMMA SubmittedKept ==
  ASSUME IsFiniteSet(Slots), MaxQpairs \in Nat, PoolSize \in Nat, CmdInv,
         NEW i \in Slots, NEW k \in Kinds, NEW st \in {"spdk", "lost"},
         cmd[i].st = "free", current # 0, k \in Pooled => pool > 0, st = "lost" => k \notin Pooled,
         cmd' = [cmd EXCEPT ![i] = [kind |-> k, st |-> st, qp |-> IF k = "admin" THEN 0 ELSE current]],
         pending' = Account(k), pool' = PoolGet(k), UNCHANGED <<leaked, current>>
  PROVE  CmdInv'
PROOF
<1> USE DEF CmdInv
<1> DEFINE c == [kind |-> k, st |-> st, qp |-> IF k = "admin" THEN 0 ELSE current]
<1>1. c \in Commands /\ c.kind = k /\ c.st = st /\ c.qp = (IF k = "admin" THEN 0 ELSE current)
  BY DEF Commands, CmdTypes
<1>2. cmd' = [cmd EXCEPT ![i] = c]
  OBVIOUS
<1> HIDE DEF c
<1>3. cmd'[i] = c /\ \A j \in Slots \ {i} : cmd'[j] = cmd[j]
  BY <1>2 DEF CmdTypes
<1>4. ASSUME NEW K \in {Accounted, Pooled}
      PROVE  InUse(K)' = IF k \in K THEN InUse(K) + 1 ELSE InUse(K)
  <2>1. UsedBy(K) \in SUBSET Slots /\ i \notin UsedBy(K)
    BY DEF UsedBy
  <2>2. UsedBy(K)' = IF k \in K THEN UsedBy(K) \cup {i} ELSE UsedBy(K)
    BY <1>1, <1>3 DEF UsedBy
  <2> QED BY <2>1, <2>2, SlotSets, Zenon DEF InUse, UsedBy
<1>5. InUse(Accounted) \in Nat /\ InUse(Pooled) \in Nat
  BY SlotSets DEF InUse
<1>6. CmdTypes'
  BY <1>1, <1>2 DEF CmdTypes, Account, PoolGet
<1>7. InFlightIsKnown'
  BY <1>1, <1>3 DEF InFlightIsKnown, Pooled
<1>8. NoneOnDroppedQpair'
  BY <1>1, <1>3 DEF CommandsAccounted, NoneOnDroppedQpair
<1>9. PendingIsOutstanding'
  BY <1>4, <1>5 DEF CommandsAccounted, PendingIsOutstanding, Account
<1>10. PoolIsAccounted'
  BY <1>4, <1>5 DEF CommandsAccounted, PoolIsAccounted, PoolGet, CmdTypes
<1> QED BY <1>6, <1>7, <1>8, <1>9, <1>10 DEF CommandsAccounted

\* A command is rejected: its context is not given back.
LEMMA RejectedKept ==
  ASSUME IsFiniteSet(Slots), PoolSize \in Nat, CmdInv, NEW k \in Kinds, k \in Pooled => pool > 0,
         Rejected(k), UNCHANGED current
  PROVE  CmdInv'
PROOF
<1> USE DEF CmdInv
<1>1. UNCHANGED <<cmd, pending, current>> /\ pool' = PoolGet(k)
      /\ leaked' = IF k \in Pooled THEN leaked + 1 ELSE leaked
  BY DEF Rejected
<1>2. InUse(Accounted)' = InUse(Accounted) /\ InUse(Pooled)' = InUse(Pooled)
  BY <1>1 DEF InUse
<1>3. InUse(Pooled) \in Nat
  BY SlotSets DEF InUse
<1>4. CmdTypes'
  BY <1>1 DEF CmdTypes, PoolGet
<1>5. InFlightIsKnown' /\ NoneOnDroppedQpair' /\ PendingIsOutstanding'
  BY <1>1, <1>2 DEF InFlightIsKnown, CommandsAccounted, NoneOnDroppedQpair, PendingIsOutstanding
<1>6. PoolIsAccounted'
  BY <1>1, <1>2, <1>3 DEF CommandsAccounted, PoolIsAccounted, PoolGet, CmdTypes
<1> QED BY <1>4, <1>5, <1>6 DEF CommandsAccounted

\* Every operation of a handle.
LEMMA OperationKept ==
  ASSUME IsFiniteSet(Slots), MaxQpairs \in Nat, PoolSize \in Nat, CmdInv,
         NEW i \in Slots, Operation(i)
  PROVE  CmdInv'
PROOF
<1>1. \/ \E k \in Kinds : Submit(i, k)
      \/ OutOfMemory(i)
  BY DEF Operation, ReadvBlocks, WritevBlocks, ComparevBlocks, UnmapBlocks, WriteZeroes, FlushIo,
         ReadAt, WriteAt, NvmeAdmin, CreateSnapshot, IoPassthru, Reservation, Kinds
<1>2. ASSUME NEW k \in Kinds, Submit(i, k) PROVE CmdInv'
  <2>1. cmd[i].st = "free" /\ current # 0 /\ (k \in Pooled => pool > 0) /\ UNCHANGED current
    BY <1>2 DEF Submit, Submittable, connVars
  <2>2. CASE Submitted(i, k)
    BY <2>1, <2>2, SubmittedKept, Zenon DEF Submitted
  <2>3. CASE Rejected(k)
    BY <2>1, <2>3, RejectedKept
  <2> QED BY <1>2, <2>2, <2>3 DEF Submit
<1>3. CASE OutOfMemory(i)
  <2>1. "at" \in Kinds /\ "at" \notin Pooled /\ "at" # "admin" /\ "lost" \in {"spdk", "lost"}
    BY DEF Kinds, Pooled
  <2>2. /\ cmd[i].st = "free" /\ current # 0 /\ UNCHANGED <<current, leaked, pool>>
        /\ cmd' = [cmd EXCEPT ![i] = [kind |-> "at", st |-> "lost", qp |-> IF "at" = "admin" THEN 0 ELSE current]]
        /\ pending' = Account("at")
    BY <1>3, <2>1 DEF OutOfMemory, Submittable, connVars
  <2>3. pool' = PoolGet("at")
    BY <2>1, <2>2 DEF PoolGet
  <2> QED BY <2>1, <2>2, <2>3, SubmittedKept, Zenon
<1> QED BY <1>1, <1>2, <1>3

\* The slots in F are free from now on, those in W wait for their caller.
LEMMA EndedKept ==
  ASSUME IsFiniteSet(Slots), MaxQpairs \in Nat, PoolSize \in Nat, CmdInv,
         NEW F \in SUBSET Slots, NEW W \in SUBSET Slots, F \cap W = {},
         \A i \in F : cmd[i].st # "free" /\ cmd'[i] = NoCmd,
         \A i \in W : /\ cmd[i].st = "spdk" /\ cmd[i].kind \notin Pooled
                      /\ cmd'[i] \in Commands /\ cmd'[i].kind = cmd[i].kind
                      /\ cmd'[i].st \in {"ok", "failed"},
         \A i \in Slots \ (F \cup W) : cmd'[i] = cmd[i],
         DOMAIN cmd' = Slots, cmd' = [i \in Slots |-> cmd'[i]],
         pending' = Discard(Cardinality({i \in F : cmd[i].kind \in Accounted})),
         pool' = PoolPut(Cardinality({i \in F : cmd[i].kind \in Pooled})),
         UNCHANGED leaked, current' \in 0..MaxQpairs,
         current' = current \/ \A i \in Slots \ (F \cup W) : cmd[i].st = "spdk" => cmd[i].kind = "admin"
  PROVE  CmdInv'
PROOF
<1> USE DEF CmdInv
<1>1. NoCmd \in Commands /\ NoCmd.st = "free" /\ NoCmd.kind \notin Kinds
  BY DEF NoCmd, Commands, Kinds
<1>2. \A i \in Slots : cmd'[i] \in Commands
  BY <1>1 DEF CmdTypes
<1>3. ASSUME NEW K \in {Accounted, Pooled}
      PROVE  /\ InUse(K)' = InUse(K) - Cardinality({i \in F : cmd[i].kind \in K})
             /\ Cardinality({i \in F : cmd[i].kind \in K}) \in Nat
             /\ InUse(K) \in Nat /\ Cardinality({i \in F : cmd[i].kind \in K}) <= InUse(K)
  <2> DEFINE T == {i \in F : cmd[i].kind \in K}
  <2>1. UsedBy(K) \in SUBSET Slots /\ T \in SUBSET UsedBy(K) /\ T \in SUBSET Slots
    BY DEF UsedBy
  <2>2. UsedBy(K)' = UsedBy(K) \ T
    <3>1. ASSUME NEW i \in Slots PROVE (i \in UsedBy(K)') <=> (i \in UsedBy(K) \ T)
      BY <1>1 DEF UsedBy
    <3>2. UsedBy(K)' \subseteq Slots
      BY DEF UsedBy
    <3> QED BY <2>1, <3>1, <3>2
  <2> HIDE DEF T
  <2>3. Cardinality(UsedBy(K) \ T) = Cardinality(UsedBy(K)) - Cardinality(T)
        /\ Cardinality(T) <= Cardinality(UsedBy(K)) /\ Cardinality(T) \in Nat /\ Cardinality(UsedBy(K)) \in Nat
    BY <2>1, SlotSets, Zenon
  <2> QED BY <2>2, <2>3, Zenon DEF InUse, UsedBy, T
<1>4. CmdTypes'
  <2>1. cmd' \in [Slots -> Commands]
    BY <1>2
  <2>2. pending' \in Nat /\ pool' \in Nat /\ leaked' \in Nat
    BY <1>3 DEF CmdTypes, Discard, PoolPut
  <2> QED BY <2>1, <2>2 DEF CmdTypes
<1>5. InFlightIsKnown'
  BY <1>1 DEF InFlightIsKnown
<1>6. NoneOnDroppedQpair'
  BY <1>1 DEF CommandsAccounted, NoneOnDroppedQpair
<1>7. PendingIsOutstanding'
  BY <1>3 DEF CommandsAccounted, PendingIsOutstanding, Discard
<1>8. PoolIsAccounted'
  BY <1>3 DEF CommandsAccounted, PoolIsAccounted, PoolPut, CmdTypes
<1> QED BY <1>4, <1>5, <1>6, <1>7, <1>8 DEF CommandsAccounted

\* A callback runs, or the future of a command that was answered.
LEMMA OneEndsKept ==
  ASSUME IsFiniteSet(Slots), MaxQpairs \in Nat, PoolSize \in Nat, CmdInv, NEW i \in Slots,
         (\E ok \in BOOLEAN : Complete(i, ok)) \/ Wake(i)
  PROVE  CmdInv'
PROOF
<1> USE DEF CmdInv
<1>0. cmd \in [Slots -> Commands] /\ current \in 0..MaxQpairs /\ pending \in Nat /\ pool \in Nat
  BY DEF CmdTypes
<1>1. UNCHANGED <<current, leaked>>
  BY DEF Complete, Wake, connVars
<1>2. Cardinality({}) = 0 /\ Cardinality({i}) = 1
  BY FS_EmptySet, FS_Singleton, Zenon
<1>3. ASSUME cmd[i].st # "free", cmd' = [cmd EXCEPT ![i] = NoCmd],
             pending' = IF cmd[i].kind \in Accounted THEN Discard(1) ELSE pending,
             pool' = IF cmd[i].kind \in Pooled THEN PoolPut(1) ELSE pool
      PROVE  CmdInv'
  <2> DEFINE F == {i}
             W == {}
  <2>1. /\ F \in SUBSET Slots /\ W \in SUBSET Slots /\ F \cap W = {}
        /\ \A j \in F : cmd[j].st # "free" /\ cmd'[j] = NoCmd
        /\ \A j \in Slots \ (F \cup W) : cmd'[j] = cmd[j]
        /\ DOMAIN cmd' = Slots /\ cmd' = [j \in Slots |-> cmd'[j]]
    BY <1>0, <1>3, Zenon
  <2>2. \A K : {j \in F : cmd[j].kind \in K} = IF cmd[i].kind \in K THEN {i} ELSE {}
    OBVIOUS
  <2>3. /\ Cardinality({j \in F : cmd[j].kind \in Accounted}) = IF cmd[i].kind \in Accounted THEN 1 ELSE 0
        /\ Cardinality({j \in F : cmd[j].kind \in Pooled}) = IF cmd[i].kind \in Pooled THEN 1 ELSE 0
    BY <1>2, <2>2, Zenon
  <2>4. pending' = Discard(Cardinality({j \in F : cmd[j].kind \in Accounted}))
    <3> PICK n : n = Cardinality({j \in F : cmd[j].kind \in Accounted})
      BY Zenon
    <3>1. n = IF cmd[i].kind \in Accounted THEN 1 ELSE 0
      BY <2>3
    <3>2. pending' = Discard(n)
      BY ONLY <1>0, <1>3, <3>1 DEF Discard
    <3> QED BY <3>2
  <2>5. pool' = PoolPut(Cardinality({j \in F : cmd[j].kind \in Pooled}))
    <3> PICK n : n = Cardinality({j \in F : cmd[j].kind \in Pooled})
      BY Zenon
    <3>1. n = IF cmd[i].kind \in Pooled THEN 1 ELSE 0
      BY <2>3
    <3>2. pool' = PoolPut(n)
      BY ONLY <1>0, <1>3, <3>1 DEF PoolPut
    <3> QED BY <3>2
  <2> QED BY <1>0, <1>1, <2>1, <2>4, <2>5, EndedKept, Zenon
<1>4. CASE \E ok \in BOOLEAN : Complete(i, ok)
  <2> PICK ok \in BOOLEAN : Complete(i, ok)
    BY <1>4
  <2>0. cmd[i].st = "spdk" /\ cmd[i].kind \in Kinds
    BY DEF Complete, InFlightIsKnown
  <2>1. CASE cmd[i].kind \in Pooled
    BY <1>3, <2>0, <2>1 DEF Complete, Ended, Pooled, Accounted
  <2>2. CASE cmd[i].kind \notin Pooled
    <3> DEFINE W == {i}
               F == {}
    <3>1. cmd' = [cmd EXCEPT ![i] = [cmd[i] EXCEPT !.st = IF ok THEN "ok" ELSE "failed"]]
      BY <2>2 DEF Complete, Ended
    <3>2. cmd'[i] \in Commands /\ cmd'[i].kind = cmd[i].kind /\ cmd'[i].st \in {"ok", "failed"}
      BY <1>0, <3>1 DEF Commands
    <3>3. /\ \A j \in Slots \ (F \cup W) : cmd'[j] = cmd[j]
          /\ DOMAIN cmd' = Slots /\ cmd' = [j \in Slots |-> cmd'[j]]
      BY <1>0, <3>1, Zenon
    <3>4. pending' = pending /\ pool' = pool
      BY <2>2, Zenon DEF Complete, Pooled
    <3>5. \A K : {j \in F : cmd[j].kind \in K} = {}
      OBVIOUS
    <3>6. /\ pending' = Discard(Cardinality({j \in F : cmd[j].kind \in Accounted}))
          /\ pool' = PoolPut(Cardinality({j \in F : cmd[j].kind \in Pooled}))
      BY <1>0, <1>2, <3>4, <3>5 DEF Discard, PoolPut
    <3>7. F \in SUBSET Slots /\ W \in SUBSET Slots /\ F \cap W = {} /\ \A j \in F : FALSE
      OBVIOUS
    <3>8. \A j \in W : /\ cmd[j].st = "spdk" /\ cmd[j].kind \notin Pooled
                       /\ cmd'[j] \in Commands /\ cmd'[j].kind = cmd[j].kind
                       /\ cmd'[j].st \in {"ok", "failed"}
      BY <2>0, <2>2, <3>2
    <3> HIDE DEF F, W
    <3> QED BY <1>0, <1>1, <3>3, <3>6, <3>7, <3>8, EndedKept, Zenon
  <2> QED BY <2>1, <2>2
<1>5. CASE Wake(i)
  <2>1. cmd[i].kind \in Accounted /\ cmd[i].kind \notin Pooled
    BY <1>5 DEF Wake, InFlightIsKnown, Accounted, Pooled
  <2> QED BY <1>3, <1>5, <2>1 DEF Wake
<1> QED BY <1>4, <1>5

\* The queue pair goes away, and with it every command that was queued on it.
LEMMA DropKept ==
  ASSUME IsFiniteSet(Slots), MaxQpairs \in Nat, PoolSize \in Nat, CmdInv,
         current # 0, DropQpair, current' = 0, UNCHANGED leaked
  PROVE  CmdInv'
PROOF
<1> USE DEF CmdInv
<1> DEFINE A == AbortedBy(current)
           F == {i \in A : cmd[i].kind \in Pooled}
           W == {i \in A : cmd[i].kind \notin Pooled}
<1>0. cmd \in [Slots -> Commands] /\ current \in 0..MaxQpairs
  BY DEF CmdTypes
<1>1. A = {i \in Slots : cmd[i].st = "spdk" /\ cmd[i].qp = current}
  BY DEF AbortedBy
<1>2. cmd' = [i \in Slots |-> IF i \in A THEN Ended(i, FALSE) ELSE cmd[i]]
  BY DEF DropQpair
<1>3. \A i \in A : cmd[i].kind \in Kinds \ {"admin"}
  BY <1>1 DEF InFlightIsKnown
<1> HIDE DEF A
<1>4. /\ {i \in F : cmd[i].kind \in Accounted} = {i \in A : cmd[i].kind \in {"blocks"}}
      /\ {i \in F : cmd[i].kind \in Pooled} = {i \in A : cmd[i].kind \in Pooled}
  BY <1>3 DEF Accounted, Pooled, Kinds
<1>5. /\ pending' = Discard(Cardinality({i \in F : cmd[i].kind \in Accounted}))
      /\ pool' = PoolPut(Cardinality({i \in F : cmd[i].kind \in Pooled}))
  BY <1>4, Zenon DEF DropQpair, CountOf, A
<1>6. F \in SUBSET Slots /\ W \in SUBSET Slots /\ F \cap W = {} /\ F \cup W = A
  BY <1>1
<1>7. \A i \in F : cmd[i].st # "free" /\ cmd'[i] = NoCmd
  BY <1>1, <1>2 DEF Ended
<1>8. ASSUME NEW i \in W
      PROVE  /\ cmd[i].st = "spdk" /\ cmd[i].kind \notin Pooled
             /\ cmd'[i] \in Commands /\ cmd'[i].kind = cmd[i].kind
             /\ cmd'[i].st \in {"ok", "failed"}
  <2>1. i \in Slots /\ i \in A /\ cmd[i].st = "spdk" /\ cmd[i].kind \notin Pooled
    BY <1>1
  <2>2. cmd'[i] = [cmd[i] EXCEPT !.st = "failed"]
    BY <1>2, <2>1 DEF Ended
  <2> QED BY <1>0, <2>1, <2>2 DEF Commands
<1>9. \A i \in Slots \ (F \cup W) : cmd'[i] = cmd[i]
  BY <1>2, <1>6, Zenon
<1>10. DOMAIN cmd' = Slots /\ cmd' = [i \in Slots |-> cmd'[i]]
  BY <1>2
<1>11. \A i \in Slots \ (F \cup W) : cmd[i].st = "spdk" => cmd[i].kind = "admin"
  BY <1>1, <1>6 DEF CommandsAccounted, NoneOnDroppedQpair
<1>12. current' \in 0..MaxQpairs
  OBVIOUS
<1> HIDE DEF F, W
<1> QED BY <1>5, <1>6, <1>7, <1>8, <1>9, <1>10, <1>11, <1>12, EndedKept, Zenon

\* The steps that leave the commands alone.
LEMMA ConnectionKept ==
  ASSUME MaxQpairs \in Nat, CmdInv, UNCHANGED <<cmd, pending, pool, leaked>>,
         \/ current' = current
         \/ current = 0 /\ current' \in Qpairs
  PROVE  CmdInv'
PROOF
<1> USE DEF CmdInv
<1>1. InUse(Accounted)' = InUse(Accounted) /\ InUse(Pooled)' = InUse(Pooled)
  BY DEF InUse
<1>2. CmdTypes'
  BY DEF CmdTypes, Qpairs
<1>3. NoneOnDroppedQpair'
  BY DEF CommandsAccounted, NoneOnDroppedQpair, InFlightIsKnown
<1> QED BY <1>1, <1>2, <1>3 DEF InFlightIsKnown, CommandsAccounted, PendingIsOutstanding, PoolIsAccounted

\* Whatever the order of submissions, completions, connects, resets and
\* shutdowns, on a channel with any number of slots and a pool of any size: no
\* command is left on a queue pair that is gone, num_pending_ios counts those
\* that are not answered, and no context is freed twice.
THEOREM CommandsAccountedHolds ==
  ASSUME IsFiniteSet(Slots), MaxQpairs \in Nat \ {0}, PoolSize \in Nat
  PROVE  IoSpec => []CommandsAccounted
PROOF
<1>0. MaxQpairs \in Nat
  OBVIOUS
<1>1. IoInit => CmdInv
  <2> SUFFICES ASSUME IoInit PROVE CmdInv
    OBVIOUS
  <2>1. NoCmd \in Commands /\ NoCmd.st = "free"
    BY DEF NoCmd, Commands
  <2>2. \A i \in Slots : cmd[i] = NoCmd
    BY DEF IoInit
  <2>3. CmdTypes
    BY <2>1 DEF IoInit, CmdTypes
  <2>4. InUse(Accounted) = 0 /\ InUse(Pooled) = 0
    <3>1. \A K : {i \in Slots : cmd[i].st # "free" /\ cmd[i].kind \in K} = {}
      BY <2>1, <2>2
    <3> QED BY <3>1, FS_EmptySet DEF InUse
  <2>5. pending = 0 /\ pool = PoolSize /\ leaked = 0
    BY DEF IoInit
  <2> QED BY <2>1, <2>2, <2>3, <2>4, <2>5
          DEF CmdInv, InFlightIsKnown, CommandsAccounted, NoneOnDroppedQpair, PendingIsOutstanding,
              PoolIsAccounted
<1>2. CmdInv /\ [IoNext]_ioVars => CmdInv'
  <2> SUFFICES ASSUME CmdInv, [IoNext]_ioVars PROVE CmdInv'
    OBVIOUS
  <2>1. CASE CreateHandle \/ \E q \in Qpairs : ConnectionEnds(q)
    <3>1. UNCHANGED <<cmd, pending, pool, leaked, current>>
      BY <2>1 DEF CreateHandle, ConnectSync, ConnectAsync, ConnectionEnds, cmdVars
    <3> QED BY <1>0, <3>1, ConnectionKept
  <2>2. CASE \E i \in Slots : Operation(i)
    BY <1>0, <2>2, OperationKept
  <2>3. CASE \E i \in Slots : (\E ok \in BOOLEAN : Complete(i, ok)) \/ Wake(i)
    BY <1>0, <2>3, OneEndsKept
  <2>4. CASE ResetChannel
    <3>1. current # 0 /\ DropQpair /\ current' = 0 /\ UNCHANGED leaked
      BY <2>4 DEF ResetChannel
    <3> QED BY <1>0, <3>1, DropKept
  <2>5. CASE ShutdownChannel
    <3>1. current' = 0 /\ UNCHANGED leaked
      BY <2>5 DEF ShutdownChannel
    <3>2. CASE current = 0
      <4>1. UNCHANGED <<cmd, pending, pool>>
        BY <2>5, <3>2 DEF ShutdownChannel
      <4> QED BY <1>0, <3>1, <3>2, <4>1, ConnectionKept
    <3>3. CASE current # 0
      <4>1. DropQpair
        BY <2>5, <3>3 DEF ShutdownChannel
      <4> QED BY <1>0, <3>1, <3>3, <4>1, DropKept
    <3> QED BY <3>2, <3>3
  <2>6. CASE Reinitialize
    <3>1. UNCHANGED <<cmd, pending, pool, leaked>> /\ (current' = current \/ (current = 0 /\ current' \in Qpairs))
      BY <2>6 DEF Reinitialize, cmdVars
    <3> QED BY <1>0, <3>1, ConnectionKept
  <2>7. CASE UNCHANGED ioVars
    <3>1. UNCHANGED <<cmd, pending, pool, leaked, current>>
      BY <2>7 DEF ioVars
    <3> QED BY <1>0, <3>1, ConnectionKept
  <2> QED BY <2>1, <2>2, <2>3, <2>4, <2>5, <2>6, <2>7 DEF IoNext, Step
<1> QED BY <1>1, <1>2, PTL DEF IoSpec, CmdInv
=============================================================================
