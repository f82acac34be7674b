------------------------------ MODULE DeviceProofs ------------------------------
(***************************************************************************)
(* Proofs about the devices under a nexus and about the pools on them: the *)
(* keys of the crypto vbdevs (CryptoKeys), the contexts of the I/O of a    *)
(* block device (DeviceIo), the stall detector of a pool (PoolStall) and   *)
(* the pool configuration file (PoolConfig).  The four share no variable;  *)
(* each has its inductive invariant, a lemma per step, and the property a  *)
(* run checks as the last theorem of its section.                          *)
(***************************************************************************)
EXTENDS CryptoKeys, DeviceIo, PoolStall, PoolConfig, TLAPS

(* What the provers may take on a leaf: thirty seconds each.              *)
USE SMTT(30), ZenonT(30)

-----------------------------------------------------------------------------
(* The detection of stalls.  Detection is off only while the pool is       *)
(* stalled, and on while it is only until the future that switches it off  *)
(* has run; and a stall always has its recovery ahead.                     *)

Futures == {"read", "disable"}
Awaited(f) == \E i \in DOMAIN master : master[i] = f

StallTypes ==
  /\ master \in Seq(Futures) /\ reads \in Nat /\ transitions \in Nat
  /\ stallInfo \in {NoInfo, "running", "stalled"}
  /\ loaded \in BOOLEAN /\ known \in BOOLEAN /\ detects \in BOOLEAN
  /\ stalls \in BOOLEAN /\ resets \in BOOLEAN

Detection ==
  /\ loaded /\ known => stallInfo # NoInfo
  /\ loaded /\ known /\ ~Stalled => detects
  /\ loaded /\ Stalled /\ detects => Awaited("disable")

StallInv == StallTypes /\ Detection /\ StallHasRecovery

\* A future that is sent goes behind those that wait.
LEMMA AppendHas ==
  ASSUME NEW s \in Seq(Futures), NEW x \in Futures
  PROVE  /\ Append(s, x) \in Seq(Futures)
         /\ \E i \in DOMAIN Append(s, x) : Append(s, x)[i] = x
         /\ \A f \in Futures : (\E i \in DOMAIN s : s[i] = f) => \E i \in DOMAIN Append(s, x) : Append(s, x)[i] = f
PROOF
<1>1. Append(s, x)[Len(s) + 1] = x /\ Len(s) + 1 \in DOMAIN Append(s, x)
  OBVIOUS
<1>2. \A i \in DOMAIN s : i \in DOMAIN Append(s, x) /\ Append(s, x)[i] = s[i]
  OBVIOUS
<1> QED BY <1>1, <1>2

\* The future that runs is the first, and the others go on waiting.
LEMMA TailHas ==
  ASSUME NEW s \in Seq(Futures), s # <<>>
  PROVE  /\ Tail(s) \in Seq(Futures)
         /\ \A f \in Futures : f # Head(s) /\ (\E i \in DOMAIN s : s[i] = f) => \E i \in DOMAIN Tail(s) : Tail(s)[i] = f
PROOF
<1>1. ASSUME NEW i \in DOMAIN s, s[i] # Head(s)
      PROVE  i - 1 \in DOMAIN Tail(s) /\ Tail(s)[i - 1] = s[i]
  BY <1>1
<1>2. Tail(s) \in Seq(Futures)
  OBVIOUS
<1> QED BY <1>1, <1>2, Zenon

\* The futures that a stall sends.
LEMMA TwoHas ==
  ASSUME NEW s \in Seq(Futures)
  PROVE  s \o <<"read", "disable">> = Append(Append(s, "read"), "disable")
PROOF OBVIOUS

\* The pool comes and goes, and its disk stalls and recovers: the primary reactor
\* is not involved.
LEMMA PoolKept ==
  ASSUME StallInv,
         LoadStore \/ AddInfo \/ RemoveInfo \/ StoreRemoved \/ DiskStalls \/ DiskRecovers \/ Report
  PROVE  StallInv'
PROOF
<1> USE DEF LoadStore, AddInfo, RemoveInfo, StoreRemoved, DiskStalls, DiskRecovers, Report, StallInv
<1>1. master' = master /\ (Awaited("disable"))' = Awaited("disable") /\ (Awaited("read"))' = Awaited("read")
  BY DEF Awaited
<1>2. StallTypes'
  <2>1. transitions' \in Nat /\ reads' \in Nat
    BY DEF StallTypes
  <2>2. /\ loaded' \in BOOLEAN /\ known' \in BOOLEAN /\ detects' \in BOOLEAN
        /\ stalls' \in BOOLEAN /\ resets' \in BOOLEAN
    BY Zenon DEF StallTypes
  <2>3. stallInfo' \in {NoInfo, "running", "stalled"}
    BY Zenon DEF StallTypes
  <2> QED BY <1>1, <2>1, <2>2, <2>3, Zenon DEF StallTypes
<1>3. Detection'
  BY <1>1 DEF Detection, Stalled, StallTypes, NoInfo
<1>4. StallHasRecovery'
  BY <1>1, Zenon DEF StallHasRecovery, Stalled, StallTypes, NoInfo
<1> QED BY <1>2, <1>3, <1>4

\* A stall that is marked sends the future that switches the detection off, and
\* one that reads the super block unless the reset will.
LEMMA MarkStalledKept ==
  ASSUME StallInv, MarkIoStalled
  PROVE  StallInv'
PROOF
<1> USE DEF StallInv
<1>1. CASE stallInfo' = "stalled" /\ resets' = TRUE /\ master' = Append(master, "disable")
  <2>1. master' \in Seq(Futures) /\ Awaited("disable")'
    BY <1>1, AppendHas DEF StallTypes, Futures, Awaited
  <2> QED BY <1>1, <2>1 DEF MarkIoStalled, StallTypes, Detection, StallHasRecovery, Stalled, NoInfo
<1>2. CASE stallInfo' = "stalled" /\ master' = master \o <<"read", "disable">> /\ UNCHANGED resets
  <2>1. master' = Append(Append(master, "read"), "disable")
    BY <1>2, TwoHas DEF StallTypes
  <2>2. /\ Append(master, "read") \in Seq(Futures)
        /\ \E i \in DOMAIN Append(master, "read") : Append(master, "read")[i] = "read"
    BY AppendHas DEF StallTypes, Futures
  <2>3. master' \in Seq(Futures) /\ Awaited("disable")' /\ Awaited("read")'
    BY <2>1, <2>2, AppendHas DEF Futures, Awaited
  <2> QED BY <1>2, <2>3 DEF MarkIoStalled, StallTypes, Detection, StallHasRecovery, Stalled, NoInfo, Awaited
<1>3. CASE UNCHANGED <<stallInfo, resets, master>>
  BY <1>3 DEF MarkIoStalled, StallTypes, Detection, StallHasRecovery, Stalled, Awaited
<1> QED BY <1>1, <1>2, <1>3, Zenon DEF MarkIoStalled

\* The end of the reset leaves the super block to be read.
LEMMA ResetKept ==
  ASSUME StallInv, ResetDone
  PROVE  StallInv'
PROOF
<1> USE DEF StallInv, ResetDone
<1>1. /\ master' \in Seq(Futures) /\ Awaited("read")'
      /\ Awaited("disable") => Awaited("disable")'
  BY AppendHas DEF StallTypes, Futures, Awaited
<1> QED BY <1>1, Zenon DEF StallTypes, Detection, StallHasRecovery, Stalled, NoInfo, Awaited

\* The super block was read: the mark goes, and the detection is on again.
LEMMA ResumedKept ==
  ASSUME StallInv, MarkIoResumed, TransitionThreshold \in Nat
  PROVE  StallInv'
PROOF
<1> USE DEF StallInv, MarkIoResumed
<1>1. StallTypes'
  <2>1. transitions' \in Nat /\ reads' \in Nat
    BY DEF StallTypes
  <2>2. stallInfo' \in {NoInfo, "running", "stalled"} /\ detects' \in BOOLEAN
    BY Zenon DEF StallTypes
  <2> QED BY <2>1, <2>2, Zenon DEF StallTypes
<1> QED BY <1>1 DEF StallTypes, Detection, StallHasRecovery, Stalled, NoInfo, Awaited

\* The futures of the primary reactor run in the order they were sent.
LEMMA FutureKept ==
  ASSUME StallInv, DisableDetection \/ ReadSuper
  PROVE  StallInv'
PROOF
<1> USE DEF StallInv
<1>1. CASE DisableDetection
  <2>1. master' \in Seq(Futures) /\ (Awaited("read") => Awaited("read")')
    BY <1>1, TailHas DEF DisableDetection, StallTypes, Futures, Awaited
  <2> QED BY <1>1, <2>1, Zenon DEF DisableDetection, StallTypes, Detection, StallHasRecovery, Stalled, NoInfo, Awaited
<1>2. CASE ReadSuper
  <2>1. master' \in Seq(Futures) /\ (Awaited("disable") => Awaited("disable")')
    BY <1>2, TailHas DEF ReadSuper, StallTypes, Futures, Awaited
  <2> QED BY <1>2, <2>1 DEF ReadSuper, StallTypes, Detection, StallHasRecovery, Stalled, NoInfo
<1> QED BY <1>1, <1>2

\* The status of a set of alerts is that of the gravest one.
LEMMA GravestAlert ==
  ASSUME NEW alerts, \A a \in alerts : a.status \in Healthy .. Critical
  PROVE  AlertStatus(alerts) >= Warning <=> \E a \in alerts : a.status >= Warning
PROOF
<1> USE DEF Healthy, Attention, Warning, Critical
<1> DEFINE Max(s) == (\A a \in alerts : a.status <= s) /\ (s = Healthy \/ \E a \in alerts : a.status = s)
<1>1. \E s \in Healthy .. Critical : Max(s)
  <2>1. CASE \E a \in alerts : a.status = 3 BY <2>1
  <2>2. CASE (\A a \in alerts : a.status # 3) /\ \E a \in alerts : a.status = 2 BY <2>2
  <2>3. CASE (\A a \in alerts : a.status \notin {2, 3}) /\ \E a \in alerts : a.status = 1 BY <2>3
  <2>4. CASE \A a \in alerts : a.status \notin {1, 2, 3} BY <2>4
  <2> QED BY <2>1, <2>2, <2>3, <2>4
<1>2. AlertStatus(alerts) \in Healthy .. Critical /\ Max(AlertStatus(alerts))
  BY <1>1 DEF AlertStatus
<1> QED BY <1>2

\* A pool is suspected for the reasons that clients are told of, and no other.
LEMMA SuspectedSays ==
  ASSUME StallTypes, ErrorThreshold \in Nat, TransitionThreshold \in Nat
  PROVE  SuspectedIsToldOf
PROOF
<1> USE DEF Healthy, Attention, Warning, Critical, PoolAlert
<1> SUFFICES ASSUME NEW errors \in 0 .. (ErrorThreshold + 1)
             PROVE  PoolState(errors) = "suspected" <=>
                      \/ Stalled \/ (errors > 0 /\ errors >= ErrorThreshold)
                      \/ (transitions > 1 /\ transitions >= TransitionThreshold)
  BY DEF SuspectedIsToldOf
<1>1. /\ \A a \in IoErrorAlerts(errors) : a.status \in Healthy .. Critical
      /\ (\E a \in IoErrorAlerts(errors) : a.status >= Warning) <=> (errors > 0 /\ errors >= ErrorThreshold)
  <2>1. CASE errors = 0
    BY <2>1 DEF IoErrorAlerts
  <2>2. CASE errors # 0 /\ errors < ErrorThreshold
    <3>1. IoErrorAlerts(errors) = {[alert |-> "IoError", status |-> 1]}
      BY <2>2 DEF IoErrorAlerts
    <3> QED BY <2>2, <3>1
  <2>3. CASE errors # 0 /\ ~(errors < ErrorThreshold)
    <3>1. IoErrorAlerts(errors) = {[alert |-> "IoErrorExc", status |-> 2]}
      BY <2>3 DEF IoErrorAlerts
    <3> QED BY <2>3, <3>1
  <2> QED BY <2>1, <2>2, <2>3
<1>2. /\ \A a \in IoStallAlerts : a.status \in Healthy .. Critical
      /\ (\E a \in IoStallAlerts : a.status >= Warning) <=>
           (Stalled \/ (transitions > 1 /\ transitions >= TransitionThreshold))
  <2> DEFINE now == IF Stalled THEN {[alert |-> "IoStalled", status |-> 3]} ELSE {}
             often == IF transitions \in {0, 1} THEN {}
                      ELSE IF transitions < TransitionThreshold
                           THEN {[alert |-> "IoStallIntermittent", status |-> 1]}
                      ELSE {[alert |-> "IoStallIntermittentExc", status |-> 2]}
  <2>1. IoStallAlerts = now \cup often
    BY DEF IoStallAlerts
  <2>2. (\A a \in now : a.status \in 0 .. 3) /\ ((\E a \in now : a.status >= 2) <=> Stalled)
    <3>1. CASE Stalled
      <4>1. now = {[alert |-> "IoStalled", status |-> 3]} BY <3>1
      <4> HIDE DEF now
      <4>2. \A a \in now : a.status = 3 BY <4>1
      <4>3. \E a \in now : a.status = 3 BY <4>1
      <4> QED BY <3>1, <4>2, <4>3
    <3>2. CASE ~Stalled
      <4>1. now = {} BY <3>2
      <4> QED BY <3>2, <4>1
    <3> QED BY <3>1, <3>2
  <2>3. /\ \A a \in often : a.status \in 0 .. 3
        /\ (\E a \in often : a.status >= 2) <=> (transitions > 1 /\ transitions >= TransitionThreshold)
    <3> HIDE DEF now
    <3>0. transitions \in Nat BY DEF StallTypes
    <3>1. CASE transitions \in {0, 1}
      <4>1. often = {} BY <3>1
      <4> QED BY <3>1, <4>1
    <3>2. CASE transitions \notin {0, 1} /\ transitions < TransitionThreshold
      <4>1. often = {[alert |-> "IoStallIntermittent", status |-> 1]} BY <3>2
      <4> HIDE DEF often
      <4> QED BY <3>0, <3>2, <4>1
    <3>3. CASE transitions \notin {0, 1} /\ ~(transitions < TransitionThreshold)
      <4>1. often = {[alert |-> "IoStallIntermittentExc", status |-> 2]} BY <3>3
      <4> HIDE DEF often
      <4> QED BY <3>0, <3>3, <4>1
    <3> QED BY <3>1, <3>2, <3>3
  <2> HIDE DEF now, often
  <2> QED BY <2>1, <2>2, <2>3
<1>3. \A a \in PoolAlerts(errors) : a.status \in Healthy .. Critical
  BY <1>1, <1>2 DEF PoolAlerts
<1>4. (\E a \in PoolAlerts(errors) : a.status >= Warning) <=>
        (\E a \in IoErrorAlerts(errors) : a.status >= Warning) \/ (\E a \in IoStallAlerts : a.status >= Warning)
  BY DEF PoolAlerts
<1>5. AlertStatus(PoolAlerts(errors)) >= Warning <=> \E a \in PoolAlerts(errors) : a.status >= Warning
  BY <1>3, GravestAlert
<1> QED BY <1>1, <1>2, <1>4, <1>5 DEF PoolState

\* However often the disk stalls and the pool is exported and imported, and
\* however late the primary reactor runs, a pool that works has its stalls
\* detected, one that is stalled will be read again, and clients are told
\* (StallIsHandled).
THEOREM StallIsHandledHolds ==
  ASSUME ErrorThreshold \in Nat, TransitionThreshold \in Nat
  PROVE  StallSpec => []StallIsHandled
PROOF
<1>1. StallInit => StallInv
  <2> SUFFICES ASSUME StallInit PROVE StallInv
    OBVIOUS
  <2>1. StallTypes
    <3>1. master \in Seq(Futures) /\ reads \in Nat /\ transitions \in Nat
      BY DEF StallInit
    <3> QED BY <3>1, Zenon DEF StallInit, StallTypes
  <2> QED BY <2>1, Zenon DEF StallInit, StallInv, Detection, StallHasRecovery
<1>2. StallInv /\ [StallNext]_stallVars => StallInv'
  <2> SUFFICES ASSUME StallInv, [StallNext]_stallVars PROVE StallInv'
    OBVIOUS
  <2>1. CASE UNCHANGED stallVars
    BY <2>1 DEF stallVars, StallInv, StallTypes, Detection, StallHasRecovery, Stalled, Awaited
  <2> QED BY <2>1, PoolKept, MarkStalledKept, ResetKept, ResumedKept, FutureKept DEF StallNext
<1>3. StallInv => StallIsHandled
  <2> SUFFICES ASSUME StallInv PROVE StallIsHandled
    OBVIOUS
  <2>1. DetectionMatches
    BY DEF StallInv, StallTypes, Detection, DetectionMatches, Awaited
  <2>2. SuspectedIsToldOf
    BY SuspectedSays DEF StallInv
  <2> QED BY <2>1, <2>2 DEF StallInv, StallIsHandled
<1> QED BY <1>1, <1>2, <1>3, PTL DEF StallSpec
-----------------------------------------------------------------------------
(* The pool configuration file.  While no client has gone away the service *)
(* runs one request, so what that request has captured, and what the file  *)
(* says, agree with what was created and destroyed so far.                 *)

Requests0 == [pc : {"create", "saveCreated", "saveDestroyed", "destroy"}, pool : Pools,
              capture : SUBSET Pools, attached : BOOLEAN]

ConfigTypes ==
  /\ v0 \in [V0Reqs -> {NoReq} \cup Requests0]
  /\ onDisk \subseteq Pools /\ here \subseteq onDisk /\ file \subseteq Pools
  /\ gone \in Nat /\ slipped \in BOOLEAN

\* The service waits for the request of a client that waits.
OneRequest ==
  gone = 0 => /\ \A r \in V0Reqs : v0[r] # NoReq => v0[r].attached
              /\ \A r, s \in V0Reqs : v0[r] # NoReq /\ v0[s] # NoReq => r = s

\* What was created is loaded and listed, what was destroyed neither; and so it
\* will be when a capture that was taken is written.
FileAgrees ==
  gone = 0 /\ ~slipped =>
    /\ made \subseteq file \cap here /\ unmade \cap (onDisk \cup file) = {}
    /\ \A r \in V0Reqs :
         /\ v0[r].pc = "create" => v0[r].pool \notin unmade
         /\ v0[r].pc = "saveCreated" =>
              made \cup {v0[r].pool} \subseteq v0[r].capture /\ v0[r].capture \cap unmade = {}
         /\ v0[r].pc = "saveDestroyed" =>
              /\ made \ {v0[r].pool} \subseteq v0[r].capture
              /\ v0[r].capture \cap (unmade \cup {v0[r].pool}) = {}
         /\ v0[r].pc = "destroy" => v0[r].pool \notin made \cup file

ConfigInv == ConfigTypes /\ OneRequest /\ FileAgrees

\* No request has the state of none.
LEMMA RequestIsOne == \A q \in Requests0 : q # NoReq /\ q.pc # "idle"
PROOF BY DEF Requests0, NoReq

\* A request begins: there is no other while every client waits.
LEMMA BeginKept ==
  ASSUME ConfigInv, NEW r \in V0Reqs, NEW p \in Pools, V0CreatePool(r, p) \/ V0DestroyPool(r, p)
  PROVE  ConfigInv'
PROOF
<1> USE DEF ConfigInv
<1>1. PICK q \in Requests0 : /\ v0' = [v0 EXCEPT ![r] = q] /\ q.attached /\ q.pool = p
                             /\ q.pc \in {"create", "saveDestroyed"}
                             /\ q.pc = "create" => p \notin unmade'
                             /\ q.pc = "saveDestroyed" => q.capture = here \ {p} /\ p \in here
  <2>1. CASE V0CreatePool(r, p)
    <3> DEFINE q == [pc |-> "create", pool |-> p, capture |-> {}, attached |-> TRUE]
    <3>1. q \in Requests0 /\ q.attached = TRUE /\ q.pool = p /\ q.pc = "create"
      BY DEF Requests0
    <3>2. v0' = [v0 EXCEPT ![r] = q] /\ p \notin unmade'
      BY <2>1 DEF V0CreatePool, Next0
    <3> HIDE DEF q
    <3> QED BY <3>1, <3>2, Zenon
  <2>2. CASE V0DestroyPool(r, p)
    <3> DEFINE q == [pc |-> "saveDestroyed", pool |-> p, capture |-> here \ {p}, attached |-> TRUE]
    <3>1. q \in Requests0 /\ q.attached = TRUE /\ q.pool = p /\ q.pc = "saveDestroyed" /\ q.capture = here \ {p}
      BY DEF Requests0, ConfigTypes
    <3>2. v0' = [v0 EXCEPT ![r] = q] /\ p \in here
      BY <2>2 DEF V0DestroyPool, Next0, Capture
    <3> HIDE DEF q
    <3> QED BY <3>1, <3>2, Zenon
  <2> QED BY <2>1, <2>2
<1>2. UNCHANGED <<onDisk, here, file, made, slipped, gone>> /\ unmade' \subseteq unmade /\ ~Busy0 /\ v0[r] = NoReq
  BY DEF V0CreatePool, V0DestroyPool, Accept
<1>3. gone = 0 => \A s \in V0Reqs : v0[s] = NoReq
  BY <1>2 DEF Busy0, Underway, OneRequest
<1>4. ConfigTypes'
  BY <1>1, <1>2 DEF ConfigTypes
<1>5. gone = 0 => v0'[r] = q /\ \A s \in V0Reqs \ {r} : v0'[s] = NoReq
  BY <1>1, <1>3 DEF ConfigTypes
<1>6. OneRequest'
  BY <1>1, <1>2, <1>5 DEF OneRequest
<1>7. FileAgrees'
  <2> SUFFICES ASSUME gone = 0, ~slipped PROVE FileAgrees'
    BY <1>2 DEF FileAgrees
  <2>1. made \subseteq file \cap here /\ unmade \cap (onDisk \cup file) = {} /\ unmade \cap here = {}
    BY DEF FileAgrees, ConfigTypes
  <2>2. q.pc = "saveDestroyed" => made \ {p} \subseteq q.capture /\ q.capture \cap (unmade' \cup {p}) = {}
    BY <1>1, <1>2, <2>1
  <2> QED BY <1>1, <1>2, <1>5, <2>1, <2>2 DEF FileAgrees, NoReq
<1> QED BY <1>4, <1>6, <1>7

\* create_or_import(): the capture has the pools that are loaded now.
LEMMA CreatedKept ==
  ASSUME ConfigInv, NEW r \in V0Reqs, PoolCreated(r)
  PROVE  ConfigInv'
PROOF
<1> USE DEF ConfigInv
<1>0. v0[r] \in Requests0 /\ v0[r].pc = "create" /\ v0[r].pool \in Pools
  BY DEF PoolCreated, ConfigTypes, NoReq, Requests0
<1>1. UNCHANGED <<file, made, unmade, slipped, gone>>
  BY DEF PoolCreated, configBounds
<1>2. CASE /\ here' = here \cup {v0[r].pool} /\ onDisk' = onDisk \cup {v0[r].pool}
           /\ v0' = [v0 EXCEPT ![r] = [v0[r] EXCEPT !.pc = "saveCreated", !.capture = here \cup {v0[r].pool}]]
  <2>1. PICK q \in Requests0 : /\ q = [v0[r] EXCEPT !.pc = "saveCreated", !.capture = here \cup {v0[r].pool}]
                               /\ q.pool = v0[r].pool /\ q.pc = "saveCreated" /\ q.attached = v0[r].attached
                               /\ q.capture = here \cup {v0[r].pool}
    <3> DEFINE q == [v0[r] EXCEPT !.pc = "saveCreated", !.capture = here \cup {v0[r].pool}]
    <3>1. here \cup {v0[r].pool} \in SUBSET Pools
      BY <1>0 DEF ConfigTypes
    <3>2. q \in Requests0
      BY <1>0, <3>1, Zenon DEF Requests0
    <3>3. /\ q.pool = v0[r].pool /\ q.pc = "saveCreated" /\ q.attached = v0[r].attached
          /\ q.capture = here \cup {v0[r].pool}
      BY <1>0 DEF Requests0
    <3> HIDE DEF q
    <3> QED BY <3>2, <3>3, Zenon DEF q
  <2>2. v0' = [v0 EXCEPT ![r] = q]
    BY <1>2, <2>1
  <2>3. v0'[r] = q /\ \A s \in V0Reqs \ {r} : v0'[s] = v0[s]
    BY <2>2 DEF ConfigTypes
  <2>4. ConfigTypes'
    BY <1>0, <1>1, <1>2, <2>2 DEF ConfigTypes
  <2>5. OneRequest'
    BY <1>0, <1>1, <2>1, <2>3, RequestIsOne, Zenon DEF OneRequest
  <2>6. FileAgrees'
    <3> SUFFICES ASSUME gone = 0, ~slipped PROVE FileAgrees'
      BY <1>1 DEF FileAgrees
    <3>1. \A s \in V0Reqs \ {r} : v0'[s] = NoReq
      BY <1>0, <2>3, RequestIsOne DEF OneRequest
    <3>2. v0[r].pool \notin unmade /\ made \subseteq file \cap here /\ unmade \cap (onDisk \cup file) = {}
      BY <1>0 DEF FileAgrees
    <3>3. unmade \cap here = {}
      BY <3>2 DEF ConfigTypes
    <3> QED BY <1>1, <1>2, <2>1, <2>3, <3>1, <3>2, <3>3 DEF FileAgrees, NoReq
  <2> QED BY <2>4, <2>5, <2>6
<1>3. CASE v0' = [v0 EXCEPT ![r] = NoReq] /\ UNCHANGED <<here, onDisk>>
  <2>1. v0'[r] = NoReq /\ \A s \in V0Reqs \ {r} : v0'[s] = v0[s]
    BY <1>3 DEF ConfigTypes
  <2>2. ConfigTypes'
    BY <1>1, <1>3 DEF ConfigTypes
  <2>3. OneRequest'
    BY <1>1, <2>1 DEF OneRequest
  <2>4. FileAgrees'
    BY <1>1, <1>3, <2>1 DEF FileAgrees, NoReq
  <2> QED BY <2>2, <2>3, <2>4
<1> QED BY <1>2, <1>3 DEF PoolCreated, Next0

\* The capture is written, or it is known that a write failed.
LEMMA SavedKept ==
  ASSUME ConfigInv, NEW r \in V0Reqs, CreateSaved(r) \/ DestroySaved(r)
  PROVE  ConfigInv'
PROOF
<1> USE DEF ConfigInv
<1>0. v0[r] \in Requests0 /\ v0[r].pc \in {"saveCreated", "saveDestroyed"} /\ v0[r].pool \in Pools
      /\ v0[r].capture \subseteq Pools
  BY DEF CreateSaved, DestroySaved, ConfigTypes, NoReq, Requests0
<1>1. UNCHANGED <<onDisk, here, unmade, gone>>
  BY DEF CreateSaved, DestroySaved, configBounds
<1>2. \/ file' = v0[r].capture /\ slipped' = slipped
      \/ slipped' = TRUE /\ file' = file
  BY DEF CreateSaved, DestroySaved, ExportConfig
<1>3. PICK q \in {NoReq} \cup Requests0 :
        /\ v0' = [v0 EXCEPT ![r] = q]
        /\ q # NoReq => /\ q.pc = "destroy" /\ q.pool = v0[r].pool /\ q.attached = v0[r].attached
                        /\ v0[r].pc = "saveDestroyed"
  <2>1. CASE v0' = [v0 EXCEPT ![r] = NoReq]
    BY <2>1, Zenon
  <2>2. CASE v0' = [v0 EXCEPT ![r] = [v0[r] EXCEPT !.pc = "destroy"]] /\ DestroySaved(r)
    <3>1. [v0[r] EXCEPT !.pc = "destroy"] \in Requests0
      BY <1>0 DEF Requests0
    <3> QED BY <1>0, <2>2, <3>1, Zenon DEF DestroySaved, Requests0
  <2> QED BY <2>1, <2>2 DEF CreateSaved, DestroySaved, Next0
<1>4. v0'[r] = q /\ \A s \in V0Reqs \ {r} : v0'[s] = v0[s]
  BY <1>3 DEF ConfigTypes
<1>5. ConfigTypes'
  <2>1. v0' \in [V0Reqs -> {NoReq} \cup Requests0]
    BY <1>3 DEF ConfigTypes
  <2>2. file' \subseteq Pools /\ slipped' \in BOOLEAN
    BY <1>0, <1>2, Zenon DEF ConfigTypes
  <2> QED BY <1>1, <2>1, <2>2 DEF ConfigTypes
<1>6. OneRequest'
  BY <1>0, <1>1, <1>3, <1>4, RequestIsOne DEF OneRequest
<1>7. FileAgrees'
  <2> SUFFICES ASSUME gone = 0, ~slipped, ~slipped' PROVE FileAgrees'
    BY <1>1, <1>2, Zenon DEF FileAgrees, ConfigTypes
  <2>1. \A s \in V0Reqs \ {r} : v0'[s] = NoReq
    BY <1>0, <1>4, RequestIsOne DEF OneRequest
  <2>2. file' = v0[r].capture
    BY <1>2
  <2>3. made \subseteq here /\ unmade \cap onDisk = {}
    BY DEF FileAgrees
  <2>4. CASE v0[r].pc = "saveCreated"
    <3>1. made \cup {v0[r].pool} \subseteq v0[r].capture /\ v0[r].capture \cap unmade = {}
      BY <2>4 DEF FileAgrees
    <3>2. made' = made \cup ({v0[r].pool} \cap here) /\ q = NoReq
      BY <1>3, <2>4 DEF CreateSaved, DestroySaved
    <3> QED BY <1>1, <1>4, <2>1, <2>2, <2>3, <3>1, <3>2 DEF FileAgrees, NoReq
  <2>5. CASE v0[r].pc = "saveDestroyed"
    <3>1. /\ made \ {v0[r].pool} \subseteq v0[r].capture
          /\ v0[r].capture \cap (unmade \cup {v0[r].pool}) = {}
      BY <2>5, Zenon DEF FileAgrees
    <3>2. made' = made \ {v0[r].pool}
      BY <2>5 DEF CreateSaved, DestroySaved
    <3> QED BY <1>1, <1>3, <1>4, <2>1, <2>2, <2>3, <3>1, <3>2 DEF FileAgrees, NoReq
  <2> QED BY <1>0, <2>4, <2>5
<1> QED BY <1>5, <1>6, <1>7

\* The pool is destroyed, after the file without it was written.
LEMMA PoolDestroyedKept ==
  ASSUME ConfigInv, NEW r \in V0Reqs, PoolDestroyed(r)
  PROVE  ConfigInv'
PROOF
<1> USE DEF ConfigInv
<1>0. v0[r] \in Requests0 /\ v0[r].pc = "destroy"
  BY DEF PoolDestroyed, ConfigTypes, NoReq
<1>1. UNCHANGED <<file, made, slipped, gone>> /\ v0' = [v0 EXCEPT ![r] = NoReq]
  BY DEF PoolDestroyed, configBounds, Next0
<1>2. \/ /\ here' = here \ {v0[r].pool} /\ onDisk' = onDisk \ {v0[r].pool}
         /\ unmade' = unmade \cup {v0[r].pool}
      \/ UNCHANGED <<here, onDisk, unmade>>
  BY DEF PoolDestroyed
<1>3. v0'[r] = NoReq /\ \A s \in V0Reqs \ {r} : v0'[s] = v0[s]
  BY <1>1 DEF ConfigTypes
<1>4. ConfigTypes'
  BY <1>1, <1>2 DEF ConfigTypes
<1>5. OneRequest'
  BY <1>1, <1>3 DEF OneRequest
<1>6. FileAgrees'
  <2> SUFFICES ASSUME gone = 0, ~slipped PROVE FileAgrees'
    BY <1>1 DEF FileAgrees
  <2>1. \A s \in V0Reqs : v0'[s] = NoReq
    BY <1>0, <1>3, RequestIsOne DEF OneRequest
  <2>2. v0[r].pool \notin made \cup file
    BY <1>0 DEF FileAgrees
  <2> QED BY <1>1, <1>2, <2>1, <2>2 DEF FileAgrees, NoReq
<1> QED BY <1>4, <1>5, <1>6

\* A client goes away: nothing is claimed from then on.
LEMMA ClientGoneKept ==
  ASSUME ConfigInv, NEW r \in V0Reqs, ClientGone(r)
  PROVE  ConfigInv'
PROOF
<1> USE DEF ConfigInv
<1>1. v0[r] \in Requests0 /\ UNCHANGED <<onDisk, here, file, slipped>>
  BY DEF ClientGone, Underway, ConfigTypes
<1>2. gone' \in Nat /\ gone' # 0
  BY DEF ClientGone, ConfigTypes
<1>3. [v0[r] EXCEPT !.attached = FALSE] \in Requests0
  BY <1>1, Zenon DEF Requests0
<1>4. v0' \in [V0Reqs -> {NoReq} \cup Requests0]
  BY <1>3 DEF ClientGone, Next0, ConfigTypes
<1>5. ConfigTypes'
  BY <1>1, <1>2, <1>4 DEF ConfigTypes
<1> QED BY <1>2, <1>5 DEF OneRequest, FileAgrees

\* A request of version 1 leaves the file, and the captures, as they are.
LEMMA V1Kept ==
  ASSUME ConfigInv, NEW p \in Pools, V1Create(p) \/ V1Export(p) \/ V1Destroy(p)
  PROVE  ConfigInv'
PROOF
<1> USE DEF ConfigInv
<1>1. UNCHANGED <<file, v0, slipped, gone>>
  BY DEF V1Create, V1Export, V1Destroy, V1
<1>2. ConfigTypes'
  BY <1>1 DEF ConfigTypes, V1Create, V1Export, V1Destroy
<1>3. OneRequest'
  BY <1>1 DEF OneRequest
<1>4. made' \subseteq made /\ unmade' \subseteq unmade
  BY DEF V1Create, V1Export, V1Destroy
<1>5. FileAgrees'
  <2> SUFFICES ASSUME gone = 0, ~slipped PROVE FileAgrees'
    BY <1>1 DEF FileAgrees
  <2>1. made' \subseteq file \cap here' /\ unmade' \cap (onDisk' \cup file) = {}
    BY DEF FileAgrees, V1Create, V1Export, V1Destroy
  <2> QED BY <1>1, <1>4, <2>1 DEF FileAgrees
<1> QED BY <1>2, <1>3, <1>5

\* The engine starts with the pools of the file.
LEMMA RestartKept ==
  ASSUME ConfigInv, Restart
  PROVE  ConfigInv'
PROOF
<1> USE DEF ConfigInv
<1>1. UNCHANGED <<file, made, unmade, gone>> /\ v0' = [r \in V0Reqs |-> NoReq]
  BY DEF Restart
<1>2. PICK failing \in SUBSET file :
        /\ here' = file \ failing /\ onDisk' = onDisk \cup (file \ failing)
        /\ slipped' = (slipped \/ failing # {})
  BY DEF Restart
<1>3. ConfigTypes'
  <2>1. slipped' \in BOOLEAN
    BY <1>2
  <2> QED BY <1>1, <1>2, <2>1 DEF ConfigTypes
<1>4. OneRequest'
  BY <1>1 DEF OneRequest
<1>5. FileAgrees'
  <2> SUFFICES ASSUME gone = 0, ~slipped, failing = {} PROVE FileAgrees'
    BY <1>1, <1>2, Zenon DEF FileAgrees, ConfigTypes
  <2> QED BY <1>1, <1>2 DEF FileAgrees, NoReq
<1> QED BY <1>3, <1>4, <1>5

\* Between any two requests of either version, and across restarts, the file and
\* every capture that waits to be written agree with what clients have created
\* and destroyed, as long as no write failed and no client went away.
THEOREM ConfigInvariance == ConfigSpec => []ConfigInv
PROOF
<1>1. ConfigInit => ConfigInv
  <2> SUFFICES ASSUME ConfigInit PROVE ConfigInv
    OBVIOUS
  <2>1. ConfigTypes
    BY Zenon DEF ConfigInit, ConfigTypes
  <2>2. OneRequest /\ FileAgrees
    BY DEF ConfigInit, OneRequest, FileAgrees, NoReq
  <2> QED BY <2>1, <2>2 DEF ConfigInv
<1>2. ConfigInv /\ [ConfigNext]_configVars => ConfigInv'
  <2> SUFFICES ASSUME ConfigInv, [ConfigNext]_configVars PROVE ConfigInv'
    OBVIOUS
  <2>1. CASE ConfigNext
    BY <2>1, BeginKept, CreatedKept, SavedKept, PoolDestroyedKept, ClientGoneKept, V1Kept,
       RestartKept, Zenon DEF ConfigNext
  <2>2. CASE UNCHANGED configVars
    <3>1. UNCHANGED <<onDisk, here, file, v0, made, unmade, slipped, gone>>
      BY <2>2 DEF configVars, configBounds
    <3> QED BY <3>1 DEF ConfigInv, ConfigTypes, OneRequest, FileAgrees
  <2> QED BY <2>1, <2>2
<1> QED BY <1>1, <1>2, PTL DEF ConfigSpec

\* After a restart a node has the pools its clients left it with: what was
\* destroyed stays away, what was created is listed; for any number of requests,
\* pools and restarts.
THEOREM PoolsAsAskedHolds == ConfigSpec => []PoolsAsAsked
PROOF
<1>1. ConfigInv => PoolsAsAsked
  BY DEF ConfigInv, FileAgrees, PoolsAsAsked, DestroyedStaysAway, CreatedIsListed
<1> QED BY <1>1, ConfigInvariance, PTL

-----------------------------------------------------------------------------
(* The keys of crypto vbdevs.  A vbdev that lives is an entry of its key:  *)
(* the entry is taken out only by the destruction that has deleted the     *)
(* vbdev, so a key that loses its last entry has no vbdev left.            *)

KeyTypes ==
  /\ accel \in [Keys -> Secrets \cup {NoSecret}]
  /\ users \in [DOMAIN users -> SUBSET Vbdevs] /\ DOMAIN users \subseteq Keys
  /\ vbdev \in [Vbdevs -> [key : Keys \cup {"none"}, secret : Secrets \cup {NoSecret}]]
  /\ deleting \in [Vbdevs -> [pc : {"idle", "deleting", "deleted"}, key : Keys \cup {"none"}]]

\* The entry, the key and the secret of a vbdev.
Recorded ==
  \A v \in Vbdevs : Lives(v) =>
    /\ vbdev[v].key \in DOMAIN users /\ v \in users[vbdev[v].key]
    /\ vbdev[v].secret \in Secrets /\ accel[vbdev[v].key] = vbdev[v].secret
    /\ deleting[v].pc # "deleted"

KeyInv == KeyTypes /\ Recorded

\* A creation adds an entry, and a key only if there was none of that name.
LEMMA CreateKept ==
  ASSUME KeyInv, NEW v \in Vbdevs, NEW k \in Keys, NEW s \in Secrets,
         CreateVbdev(v, k, s) \/ VbdevFails(v, k, s)
  PROVE  KeyInv'
PROOF
<1> USE SecretAssumption DEF NoSecret, KeyInv
<1>1. accel' = CreateCryptoKey(k, s) /\ users' = AddKeyUser(k, v) /\ deleting' = deleting
  BY DEF CreateVbdev, VbdevFails
<1>2. /\ accel' \in [Keys -> Secrets \cup {NoSecret}] /\ accel'[k] \in Secrets
      /\ \A j \in Keys : accel[j] # NoSecret => accel'[j] = accel[j]
  BY <1>1 DEF CreateCryptoKey, KeyTypes
<1>3. /\ DOMAIN users' = DOMAIN users \cup {k} /\ users' \in [DOMAIN users' -> SUBSET Vbdevs]
      /\ v \in users'[k] /\ \A j \in DOMAIN users : users[j] \subseteq users'[j]
  BY <1>1 DEF AddKeyUser, Entry, KeyTypes
<1>4. vbdev' = vbdev \/ vbdev' = [vbdev EXCEPT ![v] = [key |-> k, secret |-> accel'[k]]]
  BY DEF CreateVbdev, VbdevFails
<1>5. deleting[v].pc = "idle"
  BY DEF CreateVbdev, VbdevFails, Begins
<1>6. KeyTypes'
  <2>1. accel'[k] \in Secrets
    BY <1>2
  <2>2. vbdev' \in [Vbdevs -> [key : Keys \cup {"none"}, secret : Secrets \cup {NoSecret}]]
    BY <1>4, <2>1 DEF KeyTypes
  <2>3. DOMAIN users' \subseteq Keys
    BY <1>3 DEF KeyTypes
  <2> QED BY <1>1, <1>2, <1>3, <2>2, <2>3 DEF KeyTypes
<1>7. ASSUME NEW w \in Vbdevs, Lives(w)'
      PROVE  /\ vbdev'[w].key \in DOMAIN users' /\ w \in users'[vbdev'[w].key]
             /\ vbdev'[w].secret \in Secrets /\ accel'[vbdev'[w].key] = vbdev'[w].secret
             /\ deleting'[w].pc # "deleted"
  <2>1. CASE vbdev'[w] = vbdev[w]
    BY <1>1, <1>2, <1>3, <1>7, <2>1 DEF Recorded, Lives, NoVbdev, KeyTypes
  <2>2. CASE vbdev'[w] # vbdev[w]
    <3>1. w = v /\ vbdev'[w] = [key |-> k, secret |-> accel'[k]]
      BY <1>4, <2>2 DEF KeyTypes
    <3> QED BY <1>1, <1>2, <1>3, <1>5, <3>1
  <2> QED BY <2>1, <2>2
<1> QED BY <1>6, <1>7 DEF Recorded

\* A vbdev that goes, or is about to go, leaves its entry.
LEMMA DeletedKept ==
  ASSUME KeyInv, NEW v \in Vbdevs,
         VbdevDeleted(v) \/ BaseRemoved(v) \/ \E k \in Keys \cup {"none"} : DestroyVbdev(v, k)
  PROVE  KeyInv'
PROOF
<1> USE SecretAssumption DEF NoSecret, KeyInv
<1>1. UNCHANGED <<accel, users>>
  BY DEF VbdevDeleted, BaseRemoved, DestroyVbdev
<1>2. /\ vbdev' \in [Vbdevs -> [key : Keys \cup {"none"}, secret : Secrets \cup {NoSecret}]]
      /\ \A w \in Vbdevs : vbdev'[w] = NoVbdev \/ vbdev'[w] = vbdev[w]
  BY DEF VbdevDeleted, BaseRemoved, DestroyVbdev, KeyTypes, NoVbdev
<1>3. deleting' \in [Vbdevs -> [pc : {"idle", "deleting", "deleted"}, key : Keys \cup {"none"}]]
  BY DEF VbdevDeleted, BaseRemoved, DestroyVbdev, KeyTypes, NotDeleting
<1>4. \A w \in Vbdevs : deleting'[w].pc = "deleted" => deleting[w].pc = "deleted" \/ vbdev'[w] = NoVbdev
  <2>1. CASE VbdevDeleted(v)
    BY <2>1 DEF VbdevDeleted, KeyTypes
  <2>2. CASE ~VbdevDeleted(v)
    BY <2>2 DEF BaseRemoved, DestroyVbdev, KeyTypes
  <2> QED BY <2>1, <2>2
<1>5. KeyTypes'
  BY <1>1, <1>2, <1>3 DEF KeyTypes
<1> QED BY <1>1, <1>2, <1>4, <1>5 DEF Recorded, Lives

\* The rest of a destruction: the entry of a vbdev that is gone is taken out, and
\* the key with it if that was the last.
LEMMA ReleasedKept ==
  ASSUME KeyInv, NEW v \in Vbdevs, KeyReleased(v)
  PROVE  KeyInv'
PROOF
<1> USE SecretAssumption DEF NoSecret, KeyInv
<1>1. vbdev' = vbdev /\ ~Lives(v)
  BY DEF KeyReleased, Recorded
<1>2. /\ deleting' \in [Vbdevs -> [pc : {"idle", "deleting", "deleted"}, key : Keys \cup {"none"}]]
      /\ \A w \in Vbdevs : deleting'[w].pc = "deleted" => deleting[w].pc = "deleted"
  BY DEF KeyReleased, KeyTypes, NotDeleting
<1>3. \/ UNCHANGED <<accel, users>>
      \/ \E k \in DOMAIN users :
           \/ /\ users[k] \ {v} = {} /\ users' = [j \in DOMAIN users \ {k} |-> users[j]]
              /\ accel' = [accel EXCEPT ![k] = NoSecret]
           \/ users' = [users EXCEPT ![k] = @ \ {v}] /\ accel' = accel
  BY Zenon DEF KeyReleased, RemoveKeyUser, KeyStays, LastUser
<1>4. /\ accel' \in [Keys -> Secrets \cup {NoSecret}]
      /\ users' \in [DOMAIN users' -> SUBSET Vbdevs] /\ DOMAIN users' \subseteq Keys
  BY <1>3, Zenon DEF KeyTypes
<1>5. \A j \in DOMAIN users : \A w \in users[j] :
        w # v => j \in DOMAIN users' /\ w \in users'[j] /\ accel'[j] = accel[j]
  <2> SUFFICES ASSUME NEW j \in DOMAIN users, NEW w \in users[j], w # v
               PROVE  j \in DOMAIN users' /\ w \in users'[j] /\ accel'[j] = accel[j]
    OBVIOUS
  <2>1. CASE UNCHANGED <<accel, users>>
    BY <2>1
  <2>2. ASSUME NEW k \in DOMAIN users, users[k] \ {v} = {},
               users' = [i \in DOMAIN users \ {k} |-> users[i]], accel' = [accel EXCEPT ![k] = NoSecret]
        PROVE  j \in DOMAIN users' /\ w \in users'[j] /\ accel'[j] = accel[j]
    BY <2>2 DEF KeyTypes
  <2>3. ASSUME NEW k \in DOMAIN users, users' = [users EXCEPT ![k] = @ \ {v}], accel' = accel
        PROVE  j \in DOMAIN users' /\ w \in users'[j] /\ accel'[j] = accel[j]
    BY <2>3 DEF KeyTypes
  <2> QED BY <1>3, <2>1, <2>2, <2>3, Zenon
<1>6. KeyTypes'
  BY <1>1, <1>2, <1>4 DEF KeyTypes
<1>7. \A w \in Vbdevs : Lives(w)' => Lives(w) /\ w # v
  BY <1>1 DEF Lives
<1> QED BY <1>1, <1>2, <1>5, <1>6, <1>7 DEF Recorded

\* Every step keeps the keys and their entries (crypto.rs).
THEOREM KeyInvariance == KeySpec => []KeyInv
PROOF
<1>1. KeyInit => KeyInv
  BY DEF KeyInit, KeyInv, KeyTypes, Recorded, Lives, NoVbdev, NotDeleting, NoSecret
<1>2. KeyInv /\ [KeyNext]_keyVars => KeyInv'
  <2> SUFFICES ASSUME KeyInv, [KeyNext]_keyVars PROVE KeyInv'
    OBVIOUS
  <2>1. CASE UNCHANGED keyVars
    BY <2>1 DEF keyVars, KeyInv, KeyTypes, Recorded, Lives
  <2>2. ASSUME NEW v \in Vbdevs, NEW k \in Keys, KeyFails(v, k)
        PROVE  KeyInv'
    BY <2>2 DEF KeyFails, KeyInv, KeyTypes, Recorded, Lives
  <2> QED BY <2>1, <2>2, CreateKept, DeletedKept, ReleasedKept DEF KeyNext
<1> QED BY <1>1, <1>2, PTL DEF KeySpec

\* For any pools, keys and secrets, the key of a vbdev is the one it was created
\* with for as long as it lives, however the other vbdevs that share the key come
\* and go (KeyOutlivesVbdevs).
THEOREM KeyOutlivesVbdevsHolds == KeySpec => []KeyOutlivesVbdevs
PROOF
<1>1. KeyInv => KeyOutlivesVbdevs
  BY DEF KeyInv, Recorded, KeyOutlivesVbdevs
<1> QED BY <1>1, KeyInvariance, PTL

\* A vbdev that is not left behind by a failure has one entry at most, that of
\* its key, until its destruction has taken the entry out.
Tracked ==
  \A v \in Vbdevs : \A k \in DOMAIN users : v \in users[k] /\ v \notin orphaned =>
    /\ \A j \in DOMAIN users : v \in users[j] => j = k
    /\ vbdev[v].key = k \/ deleting[v].pc = "deleted"

\* A destruction that was told the key finds the entry.
ToldIsRecorded ==
  \A v \in Vbdevs : deleting[v].pc # "idle" /\ deleting[v].key # "none" =>
    deleting[v].key \in DOMAIN users /\ v \in users[deleting[v].key]

\* A key that is there has an entry, unless it could not be destroyed.
HasUsers ==
  \A k \in Keys : accel[k] # NoSecret /\ k \notin stuck => k \in DOMAIN users /\ users[k] # {}

UseInv == Tracked /\ ToldIsRecorded /\ HasUsers

\* A creation adds one entry of its vbdev, which had none unless it is orphaned.
LEMMA CreateUsed ==
  ASSUME KeyInv, UseInv, NEW v \in Vbdevs, NEW k \in Keys, NEW s \in Secrets,
         CreateVbdev(v, k, s) \/ VbdevFails(v, k, s)
  PROVE  UseInv'
PROOF
<1> USE SecretAssumption DEF NoSecret
<1>1. accel' = CreateCryptoKey(k, s) /\ users' = AddKeyUser(k, v) /\ deleting' = deleting /\ stuck' = stuck
  BY DEF CreateVbdev, VbdevFails
<1>2. \A j \in Keys : j # k => accel'[j] = accel[j]
  BY <1>1 DEF CreateCryptoKey, KeyInv, KeyTypes
<1>3. /\ DOMAIN users' = DOMAIN users \cup {k} /\ v \in users'[k]
      /\ \A j \in DOMAIN users : users[j] \subseteq users'[j]
      /\ \A j \in DOMAIN users' : \A w \in users'[j] :
           (w = v /\ j = k) \/ (j \in DOMAIN users /\ w \in users[j])
  BY <1>1 DEF AddKeyUser, Entry, KeyInv, KeyTypes
<1>4. deleting[v].pc = "idle" /\ vbdev[v].key \notin Keys
  BY DEF CreateVbdev, VbdevFails, Begins, Lives, NoVbdev
<1>5. /\ \A w \in Vbdevs : w # v => vbdev'[w] = vbdev[w]
      /\ \/ vbdev'[v].key = k /\ orphaned' = orphaned
         \/ orphaned' = orphaned \cup {v}
  BY DEF CreateVbdev, VbdevFails, KeyInv, KeyTypes
<1>6. v \notin orphaned => \A j \in DOMAIN users : v \notin users[j]
  BY <1>4 DEF UseInv, Tracked, KeyInv, KeyTypes
<1>7. Tracked'
  <2> SUFFICES ASSUME NEW w \in Vbdevs, NEW i \in DOMAIN users', w \in users'[i], w \notin orphaned'
               PROVE  /\ \A j \in DOMAIN users' : w \in users'[j] => j = i
                      /\ vbdev'[w].key = i \/ deleting'[w].pc = "deleted"
    BY DEF Tracked
  <2>1. CASE w = v
    BY <1>3, <1>5, <1>6, <2>1
  <2>2. CASE w # v
    BY <1>1, <1>3, <1>5, <2>2 DEF UseInv, Tracked
  <2> QED BY <2>1, <2>2
<1>8. ToldIsRecorded'
  BY <1>1, <1>3 DEF UseInv, ToldIsRecorded
<1>9. HasUsers'
  BY <1>1, <1>2, <1>3 DEF UseInv, HasUsers
<1> QED BY <1>7, <1>8, <1>9 DEF UseInv

\* A vbdev that goes is being destroyed, or is orphaned.
LEMMA DeletedUsed ==
  ASSUME KeyInv, UseInv, NEW v \in Vbdevs,
         VbdevDeleted(v) \/ BaseRemoved(v) \/ \E k \in Keys \cup {"none"} : DestroyVbdev(v, k)
  PROVE  UseInv'
PROOF
<1> USE SecretAssumption DEF NoSecret
<1>1. UNCHANGED <<accel, users, stuck>>
  BY DEF VbdevDeleted, BaseRemoved, DestroyVbdev
<1>2. /\ \A w \in Vbdevs : w # v => vbdev'[w] = vbdev[w] /\ deleting'[w] = deleting[w]
      /\ \A w \in Vbdevs : w # v => (w \in orphaned' <=> w \in orphaned)
      /\ orphaned \subseteq orphaned'
  BY DEF VbdevDeleted, BaseRemoved, DestroyVbdev, KeyInv, KeyTypes
<1>3. ASSUME NEW k \in DOMAIN users, v \in users[k], v \notin orphaned'
      PROVE  vbdev'[v].key = k \/ deleting'[v].pc = "deleted"
  <2>1. vbdev[v].key = k \/ deleting[v].pc = "deleted"
    BY <1>2, <1>3 DEF UseInv, Tracked
  <2>2. k \in Keys
    BY DEF KeyInv, KeyTypes
  <2>3. CASE VbdevDeleted(v)
    <3>1. deleting[v].pc = "deleting" /\ vbdev[v].key = k
      BY <2>1, <2>3 DEF VbdevDeleted
    <3>2. Lives(v)
      BY <2>2, <3>1 DEF Lives, NoVbdev
    <3> QED BY <2>3, <3>2 DEF VbdevDeleted, KeyInv, KeyTypes
  <2>4. CASE BaseRemoved(v)
    BY <1>3, <2>4 DEF BaseRemoved
  <2>5. CASE \E j \in Keys \cup {"none"} : DestroyVbdev(v, j)
    BY <2>1, <2>5 DEF DestroyVbdev, Begins
  <2> QED BY <2>3, <2>4, <2>5
<1>4. Tracked'
  BY <1>1, <1>2, <1>3 DEF UseInv, Tracked
<1>5. deleting'[v].pc # "idle" /\ deleting'[v].key # "none" =>
        deleting'[v].key \in DOMAIN users /\ v \in users[deleting'[v].key]
  <2>1. CASE VbdevDeleted(v)
    BY <2>1 DEF VbdevDeleted, NotDeleting, KeyInv, KeyTypes, UseInv, ToldIsRecorded
  <2>2. CASE BaseRemoved(v)
    BY <2>2 DEF BaseRemoved, UseInv, ToldIsRecorded
  <2>3. ASSUME NEW k \in Keys \cup {"none"}, DestroyVbdev(v, k)
        PROVE  deleting'[v].key # "none" =>
                 deleting'[v].key \in DOMAIN users /\ v \in users[deleting'[v].key]
    <3>1. deleting'[v].key = k /\ k \in {"none", vbdev[v].key}
      BY <2>3 DEF DestroyVbdev, KeyInv, KeyTypes
    <3>2. CASE Lives(v)
      BY <3>1, <3>2 DEF KeyInv, Recorded
    <3>3. CASE ~Lives(v)
      BY <3>1, <3>3 DEF Lives, NoVbdev
    <3> QED BY <3>2, <3>3
  <2> QED BY <2>1, <2>2, <2>3
<1>6. ToldIsRecorded'
  BY <1>1, <1>2, <1>5 DEF UseInv, ToldIsRecorded
<1> QED BY <1>1, <1>4, <1>6 DEF UseInv, HasUsers

\* The end of a destruction takes out the entry of its vbdev, the only one
\* unless the vbdev stays orphaned, and the key stays only with other entries.
LEMMA ReleasedUsed ==
  ASSUME KeyInv, UseInv, NEW v \in Vbdevs, KeyReleased(v)
  PROVE  UseInv'
PROOF
<1> USE SecretAssumption DEF NoSecret
<1>1. /\ deleting[v].pc = "deleted" /\ vbdev' = vbdev /\ deleting' = [deleting EXCEPT ![v] = NotDeleting]
      /\ deleting'[v].pc = "idle"
  BY DEF KeyReleased, NotDeleting, KeyInv, KeyTypes
<1>2. CASE UNCHANGED <<accel, users, stuck, orphaned>> /\ KeyCandidates(v) \cap DOMAIN users = {}
  <2>1. \A j \in DOMAIN users : v \notin users[j]
    BY <1>1, <1>2 DEF KeyCandidates, FindKey, UseInv, ToldIsRecorded
  <2>2. Tracked'
    BY <1>1, <1>2, <2>1 DEF UseInv, Tracked, KeyInv, KeyTypes
  <2>3. ToldIsRecorded'
    BY <1>1, <1>2 DEF UseInv, ToldIsRecorded, KeyInv, KeyTypes
  <2> QED BY <1>2, <2>2, <2>3 DEF UseInv, HasUsers
<1>3. ASSUME NEW k \in KeyCandidates(v), RemoveKeyUser(v, k) \/ KeyStays(v, k),
             orphaned' = IF FindKey(v) \subseteq {k} THEN orphaned \ {v} ELSE orphaned
      PROVE  UseInv'
  <2>1. k \in DOMAIN users
    BY <1>3 DEF RemoveKeyUser, KeyStays
  <2>2. /\ \A j \in DOMAIN users' : j \in DOMAIN users /\ users'[j] = users[j] \ (IF j = k THEN {v} ELSE {})
        /\ \A j \in DOMAIN users : j # k => j \in DOMAIN users'
        /\ k \notin DOMAIN users' => users[k] \ {v} = {} /\ accel' = [accel EXCEPT ![k] = NoSecret]
        /\ k \in DOMAIN users' => accel' = accel /\ (users[k] \ {v} = {} => k \in stuck')
        /\ stuck \subseteq stuck'
    BY <1>3, <2>1 DEF RemoveKeyUser, KeyStays, LastUser, KeyInv, KeyTypes
  <2>3. ASSUME NEW w \in Vbdevs, w # v, NEW j \in DOMAIN users
        PROVE  (j \in DOMAIN users' /\ w \in users'[j]) <=> w \in users[j]
    BY <2>2, <2>3
  <2>4. v \notin orphaned' => \A j \in DOMAIN users' : v \notin users'[j]
    <3> SUFFICES ASSUME v \notin orphaned', NEW j \in DOMAIN users', v \in users'[j]
                 PROVE  FALSE
      OBVIOUS
    <3>1. j \in DOMAIN users /\ v \in users[j] /\ j # k
      BY <2>2
    <3>2. ~(FindKey(v) \subseteq {k})
      BY <3>1 DEF FindKey
    <3>3. v \notin orphaned
      BY <1>3, <3>2
    <3>4. v \in users[k]
      BY <1>1, <1>3, <2>1 DEF KeyCandidates, FindKey, UseInv, ToldIsRecorded
    <3> QED BY <2>1, <3>1, <3>3, <3>4 DEF UseInv, Tracked
  <2>5. \A w \in Vbdevs : w # v => deleting'[w] = deleting[w] /\ (w \in orphaned' <=> w \in orphaned)
    BY <1>1, <1>3 DEF KeyInv, KeyTypes
  <2>6. Tracked'
    <3> SUFFICES ASSUME NEW w \in Vbdevs, NEW i \in DOMAIN users', w \in users'[i], w \notin orphaned'
                 PROVE  /\ \A j \in DOMAIN users' : w \in users'[j] => j = i
                        /\ vbdev'[w].key = i \/ deleting'[w].pc = "deleted"
      BY DEF Tracked
    <3>1. w # v
      BY <2>4
    <3> QED BY <1>1, <2>2, <2>3, <2>5, <3>1 DEF UseInv, Tracked
  <2>7. ToldIsRecorded'
    BY <1>1, <2>2, <2>3, <2>5 DEF UseInv, ToldIsRecorded
  <2>8. HasUsers'
    BY <2>1, <2>2 DEF UseInv, HasUsers, KeyInv, KeyTypes
  <2> QED BY <2>6, <2>7, <2>8 DEF UseInv
<1> QED BY <1>2, <1>3, Zenon DEF KeyReleased, RemoveKeyUser, KeyStays

\* No key is left in SPDK without a vbdev that uses it, a destruction that is
\* about to release it, or a failure that explains it, for any pools and keys
\* (KeysFollowVbdevs: a key outlives its vbdevs, and not for long).
THEOREM KeysFollowVbdevsHolds == KeySpec => []KeysFollowVbdevs
PROOF
<1>1. KeyInit => UseInv
  BY DEF KeyInit, UseInv, Tracked, ToldIsRecorded, HasUsers, NotDeleting
<1>2. KeyInv /\ UseInv /\ [KeyNext]_keyVars => UseInv'
  <2> SUFFICES ASSUME KeyInv, UseInv, [KeyNext]_keyVars PROVE UseInv'
    OBVIOUS
  <2>1. CASE UNCHANGED keyVars
    BY <2>1 DEF keyVars, UseInv, Tracked, ToldIsRecorded, HasUsers
  <2>2. ASSUME NEW v \in Vbdevs, NEW k \in Keys, KeyFails(v, k)
        PROVE  UseInv'
    BY <2>2 DEF KeyFails, UseInv, Tracked, ToldIsRecorded, HasUsers
  <2> QED BY <2>1, <2>2, CreateUsed, DeletedUsed, ReleasedUsed DEF KeyNext
<1>3. KeyInv /\ UseInv => KeysAreUsed
  BY DEF KeyInv, KeyTypes, UseInv, HasUsers, Tracked, KeysAreUsed, Entry
<1> QED BY <1>1, <1>2, <1>3, KeyInvariance, KeyOutlivesVbdevsHolds, PTL DEF KeySpec, KeysFollowVbdevs

-----------------------------------------------------------------------------
(* The contexts of I/O.                                                    *)

DevIoTypes ==
  /\ devIo \in [DevIos -> [st : {"idle", "refused", "sent", "calling"},
                           op : {"none", "read", "write", "compare", "reset", "unmap",
                                 "write_zeroes", "flush"},
                           ctx : Contexts \cup {"none"}]]
  /\ \A i \in InFlight : devIo[i].ctx \in Contexts
  /\ pool \subseteq Contexts /\ lost \subseteq Contexts

DevIoInv == DevIoTypes /\ ContextsAccounted

Operations == {"read", "write", "compare", "reset", "unmap", "write_zeroes", "flush"}

\* A submission takes a free context, for its I/O or, if it is refused, for good.
LEMMA SubmitKept ==
  ASSUME DevIoInv, NEW i \in DevIos, NEW op \in Operations, Submit(i, op)
  PROVE  DevIoInv'
PROOF
<1> USE DEF DevIoInv, DevIoTypes, ContextsAccounted, Operations
<1>0. i \notin InFlight
  BY DEF Submit, InFlight
<1>1. CASE Exhausted(i, op)
  <2>1. devIo' = [devIo EXCEPT ![i] = [st |-> "refused", op |-> op, ctx |-> "none"]]
    BY <1>1 DEF Exhausted, Refusal
  <2>2. InFlight' = InFlight /\ \A j \in InFlight : devIo'[j] = devIo[j]
    BY <1>0, <2>1 DEF InFlight
  <2>3. Held' = Held
    BY <2>2 DEF Held
  <2> QED BY <1>1, <2>1, <2>2, <2>3 DEF Exhausted
<1>2. CASE Rejected(i, op)
  <2>1. devIo' = [devIo EXCEPT ![i] = [st |-> "refused", op |-> op, ctx |-> "none"]]
    BY <1>2 DEF Rejected, Refusal
  <2>2. InFlight' = InFlight /\ \A j \in InFlight : devIo'[j] = devIo[j]
    BY <1>0, <2>1 DEF InFlight
  <2>3. Held' = Held
    BY <2>2 DEF Held
  <2>4. PICK c \in pool : pool' = pool \ {c} /\ lost' = lost \cup {c}
    BY <1>2, Zenon DEF Rejected
  <2> QED BY <2>1, <2>2, <2>3, <2>4
<1>3. CASE Sent(i, op)
  <2>1. PICK c \in pool : /\ pool' = pool \ {c} /\ lost' = lost
                          /\ devIo' = [devIo EXCEPT ![i] = [st |-> "sent", op |-> op, ctx |-> c]]
    BY <1>3, Zenon DEF Sent
  <2>2. InFlight' = InFlight \cup {i} /\ devIo'[i].ctx = c /\ \A j \in InFlight : devIo'[j] = devIo[j]
    BY <1>0, <2>1 DEF InFlight
  <2>3. Held' = Held \cup {c}
    BY <2>2 DEF Held
  <2>4. \A j \in InFlight : devIo[j].ctx # c
    BY DEF Held
  <2>5. DevIoTypes'
    BY <2>1, <2>2
  <2> QED BY <2>1, <2>2, <2>3, <2>4, <2>5
<1> QED BY <1>1, <1>2, <1>3 DEF Submit

\* The callback runs with its context, which goes back to the pool afterwards.
LEMMA CompletionKept ==
  ASSUME DevIoInv, NEW i \in DevIos, CallBack(i) \/ FreeBdevIoCtx(i)
  PROVE  DevIoInv'
PROOF
<1> USE DEF DevIoInv, DevIoTypes, ContextsAccounted
<1>1. CASE CallBack(i)
  <2>1. InFlight' = InFlight /\ \A j \in InFlight : devIo'[j].ctx = devIo[j].ctx
    BY <1>1 DEF CallBack, InFlight
  <2>2. Held' = Held
    BY <2>1 DEF Held
  <2> QED BY <1>1, <2>1, <2>2 DEF CallBack
<1>2. CASE FreeBdevIoCtx(i)
  <2>1. i \in InFlight /\ InFlight' = InFlight \ {i} /\ \A j \in InFlight' : devIo'[j] = devIo[j]
    BY <1>2 DEF FreeBdevIoCtx, InFlight, NoDevIo
  <2>2. Held' = Held \ {devIo[i].ctx}
    BY <2>1 DEF Held
  <2>3. DevIoTypes'
    BY <1>2, <2>1 DEF FreeBdevIoCtx, NoDevIo
  <2> QED BY <1>2, <2>1, <2>2, <2>3 DEF FreeBdevIoCtx, Held
<1> QED BY <1>1, <1>2

\* However many contexts, I/Os and refusals there are, no two I/Os ever share a
\* context, and none leaves the pool but with an I/O in flight or a refused one
\* (ContextsAccounted).
THEOREM ContextsAccountedHolds == DevIoSpec => []ContextsAccounted
PROOF
<1>1. DevIoInit => DevIoInv
  <2> SUFFICES ASSUME DevIoInit PROVE DevIoInv
    OBVIOUS
  <2>1. InFlight = {} /\ Held = {}
    BY DEF DevIoInit, InFlight, Held, NoDevIo
  <2> QED BY <2>1 DEF DevIoInit, DevIoInv, DevIoTypes, ContextsAccounted, NoDevIo
<1>2. DevIoInv /\ [DevIoNext]_devIoVars => DevIoInv'
  <2> SUFFICES ASSUME DevIoInv, [DevIoNext]_devIoVars PROVE DevIoInv'
    OBVIOUS
  <2>1. CASE UNCHANGED devIoVars
    BY <2>1 DEF devIoVars, DevIoInv, DevIoTypes, ContextsAccounted, InFlight, Held
  <2>2. ASSUME NEW i \in DevIos, \E op \in Operations : Submit(i, op)
        PROVE  DevIoInv'
    BY <2>2, SubmitKept
  <2> QED BY <2>1, <2>2, CompletionKept
             DEF DevIoNext, Operations, ReadvBlocks, WritevBlocks, ComparevBlocks, ResetDevice,
                 UnmapBlocks, WriteZeroes, FlushIo
<1> QED BY <1>1, <1>2, PTL DEF DevIoSpec, DevIoInv
=============================================================================
