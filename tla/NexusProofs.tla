----------------------------- MODULE NexusProofs -----------------------------
(***************************************************************************)
(* What holds of a nexus with any number of children, cores and writes.    *)
(*                                                                         *)
(* First the rest of the argument of NexusFaults: the routines of the      *)
(* master core, which retire the failed child or shut the nexus down, and  *)
(* the traversals of the channels that they start.  Then the facts about   *)
(* finite sets that NexusTypes and NexusFaults take for granted, and the   *)
(* theorems.                                                               *)
(***************************************************************************)
EXTENDS NexusFaults

(* What the provers may take on a leaf: thirty seconds each.              *)
USE SMTT(30), ZenonT(30)

-----------------------------------------------------------------------------
(* The persist call that is under way is the one of the failed child.      *)
LEMMA Retiring ==
    ASSUME OneFails, TypeOK, FaultInv, NEW c \in Children, retire[c] # "no"
    PROVE  /\ c \in Faulty /\ c \in logging /\ cstate[c] # "Open" /\ Faulty = {c}
           /\ \A d \in Children : d # c => d \in Steady /\ retire[d] = "no"
PROOF
<1>1. c \in Faulty /\ c \in logging /\ cstate[c] # "Open"
  BY DEF FaultInv, Fates, Steady
<1>2. \A d \in Children : d # c => d \in Steady
  BY <1>1, TheOther
<1>3. Faulty = {c}
  BY <1>1 DEF OneFails
<1> QED BY <1>1, <1>2, <1>3 DEF FaultInv, Fates

(* The lock is taken: no other persist call has messages under way.        *)
LEMMA LockKept ==
    ASSUME OneFails, TypeOK, FaultInv, NEW c \in Children, PersistLock("retire", c)
    PROVE  FaultInv'
PROOF
<1>0. TravOK(trav) /\ RetireTypes
  BY Types DEF TypeOK
<1>1. /\ persist.st = "idle" /\ retire[c] = "persist"
      /\ retire' = [retire EXCEPT ![c] = "saving"] /\ update' = update
      /\ persist'.st = "freezing" /\ persist'.own = "retire" /\ persist'.child = c
      /\ trav' = Append(trav, Traversal("Freeze", "persist", c))
      /\ UNCHANGED <<cstate, csync, dev, logging, logged, data, readers, writers, logs, mode, io,
                     online, shut, job, info, store, taken>>
  BY DEF PersistLock, Idle, Traverse, childvars, logvars, chvars, jobvars
<1>2. /\ Up /\ Up' /\ c \in info.healthy /\ cstate[c] # "Open" /\ c \in logging
      /\ \A d \in Children : d # c => retire[d] = "no" /\ retire'[d] = "no"
      /\ retire'[c] = "saving"
  <2>1. Up /\ Up' /\ c \in info.healthy
    BY <1>1 DEF FaultInv, Down, Recorded, Up
  <2>2. cstate[c] # "Open" /\ c \in logging /\ \A d \in Children : d # c => retire[d] = "no"
    BY <1>1, Retiring
  <2> QED BY <1>0, <1>1, <2>1, <2>2 DEF RetireTypes
<1>3. Dropped' = Dropped
  BY <1>1, SetsKept
<1>4. Left \subseteq Left'
  BY <1>1, <1>2, <1>3, FaultyAssumption DEF Left, Children, Steady
<1>5. Whole' /\ Channels' /\ Covered'
  BY <1>1, <1>3, <1>4, Kept
<1>6. Fates'
  <2>1. \A d \in Steady : retire'[d] = "no"
    BY <1>1, <1>2 DEF FaultInv, Fates, Steady
  <2> QED BY <1>1, <1>2, <1>4, <2>1 DEF FaultInv, Fates, Up, Steady
<1>7. Recorded'
  <2>1. \A d \in Children : retire'[d] # "persist"
    BY <1>2
  <2> QED BY <1>1, <2>1 DEF FaultInv, Recorded, Up, Steady
<1>8. Saving' /\ Down'
  BY <1>1, <1>2 DEF Saving, Down, Up
<1>9. Messages'
  <2> DEFINE t == Traversal("Freeze", "persist", c)
  <2>1. t \in Traversals /\ t.op = "Freeze" /\ t.own = "persist" /\ t.at = 1
    BY CoresAssumption DEF Traversal, Traversals
  <2>2. trav' = Append(trav, t)
    BY <1>1
  <2> HIDE DEF t
  <2>3. Message(t)'
    BY <1>1, <2>1 DEF Message, Cores
  <2>4. \A s : Message(s) => Message(s)'
    BY <1>1, <1>2, <1>4 DEF Message
  <2>5. \A i \in 1..Len(trav) : trav[i].own # "persist"
    BY <1>1 DEF FaultInv, Messages, Message
  <2> QED BY <1>0, <2>1, <2>2, <2>3, <2>4, <2>5, MessageSent DEF FaultInv
<1> QED BY <1>5, <1>6, <1>7, <1>8, <1>9 DEF FaultInv

(* The oldest message is the one of the persist call: the others are not.  *)
LEMMA PersistOver ==
    ASSUME TypeOK, FaultInv, NEW c, Over("persist", c)
    PROVE  /\ trav # << >> /\ 1 \in 1..Len(trav) /\ Message(trav[1]) /\ trav[1].own = "persist"
           /\ trav[1].at = NumCores + 1
           /\ \A i \in 2..Len(trav) : i \in 1..Len(trav) /\ trav[i].own # "persist"
PROOF
<1>1. /\ Len(trav) \in Nat \ {0} /\ Head(trav) = trav[1] /\ trav # << >>
  BY Types, TailOf DEF TypeOK, TravOK, Over
<1>2. 1 \in 1..Len(trav) /\ trav[1].own = "persist" /\ trav[1].at = NumCores + 1
  BY <1>1 DEF Over
<1>3. \A i \in 2..Len(trav) : i \in 1..Len(trav) /\ i # 1
  BY <1>1
<1> QED BY <1>1, <1>2, <1>3 DEF FaultInv, Messages

(* The record in memory is changed once every channel is frozen.  It is    *)
(* not for the last healthy child, and then there is no other child.       *)
LEMMA ModifyKept ==
    ASSUME OneFails, SetFacts, TypeOK, FaultInv, PersistModify
    PROVE  FaultInv'
PROOF
<1>0. TravOK(trav) /\ persist \in Persists /\ info \in Records
  BY Types DEF TypeOK, StoreTypes
<1> PICK c \in Children : c = persist.child
  BY <1>0 DEF Persists
<1>1. /\ persist.st = "freezing" /\ persist.own = "retire" /\ retire[c] = "saving" /\ Up
      /\ c \in info.healthy
  BY DEF PersistModify, FaultInv, Saving
<1>2. /\ c \in Faulty /\ c \in logging /\ cstate[c] # "Open"
      /\ \A d \in Children : d # c => d \in Steady /\ retire[d] = "no"
  BY <1>1, Retiring
<1>3. /\ trav # << >> /\ trav[1].own = "persist" /\ trav[1].at = NumCores + 1
      /\ Message(trav[1])
      /\ \A i \in 2..Len(trav) : i \in 1..Len(trav) /\ trav[i].own # "persist"
  BY PersistOver DEF PersistModify
<1>4. \A k \in Cores : mode[k] = "Freeze"
  BY <1>1, <1>3, CoresAssumption DEF Message, Cores
<1>5. /\ UNCHANGED <<cstate, csync, dev, logging, logged, data, writers, logs, mode, io, retire,
                     online, update, shut, job, store, taken>>
      /\ persist'.own = "retire" /\ persist'.child = c /\ Up'
  <2>1. UNCHANGED <<cstate, csync, dev, logging, logged, data, writers, logs, mode, io, retire,
                    online, update, shut, job, store, taken>>
    BY DEF PersistModify, childvars, logvars, chvars, routines, jobvars
  <2>2. persist'.own = "retire" /\ persist'.child = c
    BY <1>0, <1>1, Zenon DEF PersistModify, Persists
  <2> QED BY <1>1, <2>1, <2>2 DEF Up
<1>6. \/ /\ persist'.st = "thawing" /\ info' = info /\ Steady = {}
         /\ trav' = Append(Tail(trav), Traversal("Normal", "persist", c))
      \/ /\ persist'.st = "saving" /\ trav' = Tail(trav)
         /\ info'.healthy = info.healthy \ {c} /\ info'.dss = info.dss
  <2>1. CASE Cardinality(info.healthy) <= 1 /\ persist' = [persist EXCEPT !.st = "thawing"]
              /\ info' = info /\ GoOnWith("Normal", "persist", c)
    <3>1. \A d \in info.healthy : d = c
      BY <1>0, <1>1, <2>1 DEF Records, SetFacts
    <3>2. Steady = {}
      BY <1>2, <3>1 DEF FaultInv, Recorded, Steady
    <3> QED BY <1>0, <2>1, <3>2 DEF GoOnWith, Persists
  <2>2. CASE /\ persist' = [persist EXCEPT !.st = "saving", !.expect = info.healthy]
             /\ info' = [info EXCEPT !.healthy = @ \ {c}] /\ GoOn
    BY <1>0, <2>2 DEF GoOn, Persists, Records
  <2> QED BY <1>1, <2>1, <2>2 DEF PersistModify
<1>7. Dropped \subseteq Dropped' /\ Left \subseteq Left'
  <2>1. info'.healthy \subseteq info.healthy
    BY <1>6
  <2> QED BY <1>5, <2>1 DEF Dropped, Left, Steady
<1>8. Whole' /\ Fates' /\ Channels' /\ Covered'
  BY <1>5, <1>7, Kept
<1>9. Recorded'
  <2>1. \A d \in info.healthy : d # c => d \in info'.healthy
    BY <1>6
  <2>2. info'.dss = info.dss
    BY <1>6
  <2>3. c \notin Steady
    BY <1>2 DEF Steady
  <2> QED BY <1>1, <1>2, <1>5, <2>1, <2>2, <2>3 DEF FaultInv, Recorded, Up, Steady
<1>10. Saving' /\ Down'
  BY <1>1, <1>4, <1>5, <1>6 DEF Saving, Down, Up, Steady
<1>11. Messages'
  <2>1. \A i \in 2..Len(trav) : \A t : t = trav[i] => Message(t)'
    <3>1. \A t : Message(t) /\ t.own # "persist" => Message(t)'
      BY <1>1, <1>5, <1>7 DEF Message
    <3>2. \A i \in 2..Len(trav) : Message(trav[i]) /\ trav[i].own # "persist"
      BY <1>3 DEF FaultInv, Messages
    <3> QED BY <3>1, <3>2
  <2>2. CASE trav' = Tail(trav)
    BY <1>0, <1>3, <2>1, <2>2, MessageOver DEF FaultInv
  <2>3. CASE trav' = Append(Tail(trav), Traversal("Normal", "persist", c)) /\ persist'.st = "thawing"
    <3> DEFINE t == Traversal("Normal", "persist", c)
    <3>1. t \in Traversals /\ t.op = "Normal" /\ t.own = "persist"
      BY CoresAssumption DEF Traversal, Traversals
    <3>2. trav' = Append(Tail(trav), t)
      BY <2>3
    <3> HIDE DEF t
    <3>3. Message(t)'
      BY <2>3, <3>1 DEF Message
    <3> QED BY <1>0, <1>3, <2>1, <3>1, <3>2, <3>3, MessageOver DEF FaultInv
  <2> QED BY <1>6, <2>2, <2>3
<1> QED BY <1>8, <1>9, <1>10, <1>11 DEF FaultInv

(* The store takes the record without the child: only if the nexus was not *)
(* given to another node, as the marks of the two records say.             *)
LEMMA Accepted ==
    ASSUME FaultInv, persist.st = "saving", StoreAccepts, info \in Records
    PROVE  store.dss = FALSE /\ taken = {}
PROOF
<1>1. persist.own = "retire" /\ info.dss = FALSE
  BY DEF FaultInv, Saving, Recorded
<1>2. store = [info EXCEPT !.healthy = persist.expect] \/ store = info
  BY <1>1 DEF StoreAccepts
<1>3. store.dss = FALSE
  BY <1>1, <1>2 DEF Records
<1> QED BY <1>3 DEF FaultInv, Recorded

(* The record is saved.                                                    *)
LEMMA SavedKept ==
    ASSUME OneFails, TypeOK, FaultInv, PersistSaved
    PROVE  FaultInv'
PROOF
<1>0. TravOK(trav) /\ persist \in Persists /\ info \in Records
  BY Types DEF TypeOK, StoreTypes
<1> PICK c \in Children : c = persist.child
  BY <1>0 DEF Persists
<1>1. /\ persist.st = "saving" /\ persist.own = "retire" /\ retire[c] = "saving" /\ Up
      /\ c \notin info.healthy /\ taken = {} /\ info.dss = FALSE
  BY <1>0, Accepted, Zenon DEF PersistSaved, FaultInv, Saving, Recorded
<1>2. /\ UNCHANGED <<cstate, csync, dev, logging, logged, data, writers, logs, mode, io, retire,
                     online, update, shut, job, info, taken>>
      /\ store' = info /\ persist'.st = "thawing" /\ persist'.own = "retire" /\ persist'.child = c
      /\ trav' = Append(trav, Traversal("Normal", "persist", c)) /\ Up'
  <2>1. UNCHANGED <<cstate, csync, dev, logging, logged, data, writers, logs, mode, io, retire,
                    online, update, shut, job, info, taken>>
    BY DEF PersistSaved, childvars, logvars, chvars, routines, jobvars
  <2>2. persist'.st = "thawing" /\ persist'.own = "retire" /\ persist'.child = c
    BY <1>0, <1>1 DEF PersistSaved, Persists
  <2> QED BY <1>1, <2>1, <2>2 DEF PersistSaved, Traverse, Up
<1>3. Dropped \subseteq Dropped' /\ Left \subseteq Left' /\ c \in Dropped'
  BY <1>1, <1>2 DEF Dropped, Left, Steady
<1>4. Whole' /\ Fates' /\ Channels' /\ Covered'
  BY <1>2, <1>3, Kept
<1>5. Recorded'
  BY <1>1, <1>2 DEF FaultInv, Recorded, Up, Steady
<1>6. Saving' /\ Down'
  BY <1>1, <1>2, <1>3 DEF Saving, Down, Up
<1>7. Messages'
  <2> DEFINE t == Traversal("Normal", "persist", c)
  <2>1. t \in Traversals /\ t.op = "Normal" /\ t.own = "persist"
    BY CoresAssumption DEF Traversal, Traversals
  <2>2. trav' = Append(trav, t)
    BY <1>2
  <2> HIDE DEF t
  <2>3. Message(t)'
    BY <1>2, <2>1 DEF Message
  <2>4. \A s : Message(s) => Message(s)'
    BY <1>1, <1>2, <1>3 DEF Message
  <2>5. \A i \in 1..Len(trav) : trav[i].own # "persist"
    BY <1>1 DEF FaultInv, Messages, Message
  <2> QED BY <1>0, <2>1, <2>2, <2>3, <2>4, <2>5, MessageSent DEF FaultInv
<1> QED BY <1>4, <1>5, <1>6, <1>7 DEF FaultInv

(* The record is not saved, or nobody knows: the channels stay frozen.     *)
LEMMA FailedKept ==
    ASSUME OneFails, TypeOK, FaultInv, PersistFailed
    PROVE  FaultInv'
PROOF
<1>0. /\ TravOK(trav) /\ persist \in Persists /\ info \in Records /\ store \in Records
      /\ RetireTypes /\ RoutineTypes
  BY Types DEF TypeOK, StoreTypes
<1> PICK c \in Children : c = persist.child
  BY <1>0 DEF Persists
<1>1. /\ persist.st = "saving" /\ persist.own = "retire" /\ retire[c] = "saving" /\ Up
      /\ \A k \in Cores : mode[k] = "Freeze"
  BY DEF PersistFailed, FaultInv, Saving
<1>2. /\ cstate[c] # "Open" /\ Faulty = {c} /\ \A d \in Children : d # c => retire[d] = "no"
  BY <1>1, Retiring
<1>3. /\ UNCHANGED <<cstate, csync, dev, logging, logged, data, writers, logs, mode, io, trav,
                     online, job, taken>>
      /\ update' = update /\ persist'.st = "idle" /\ ~Up'
      /\ \A d \in Children : retire'[d] = "no"
  <2>1. UNCHANGED <<cstate, csync, dev, logging, logged, data, writers, logs, mode, io, trav,
                    online, job, taken>>
    BY DEF PersistFailed, childvars, logvars, chvars, jobvars
  <2>2. update' = update
    BY <1>0, <1>1 DEF PersistFailed, RoutineTypes
  <2>3. persist'.st = "idle" /\ ~Up'
    BY <1>0, <1>1 DEF PersistFailed, Idle, Up, RoutineTypes, Shuts
  <2>4. \A d \in Children : retire'[d] = "no"
    BY <1>0, <1>1, <1>2 DEF PersistFailed, RetireTypes
  <2> QED BY <2>1, <2>2, <2>3, <2>4
<1>4. /\ info'.healthy = info.healthy
      /\ store' = store \/ (store' = info /\ store.dss = FALSE /\ info.dss = FALSE /\ taken = {})
  <2>1. info'.healthy = info.healthy
    BY <1>0 DEF PersistFailed, Records
  <2>2. store' = store \/ (store' = info /\ StoreAccepts)
    BY DEF PersistFailed
  <2>3. info.dss = FALSE
    BY <1>1 DEF FaultInv, Recorded
  <2> QED BY <1>0, <1>1, <2>1, <2>2, <2>3, Accepted, Zenon
<1>5. Dropped \subseteq Dropped' /\ Left \subseteq Left'
  <2>1. Dropped \subseteq Dropped'
    BY <1>3, <1>4 DEF Dropped
  <2>2. Left \subseteq Children
    BY FaultyAssumption, Zenon DEF Left, Children
  <2> QED BY <1>3, <2>1, <2>2 DEF Left, Steady
<1>6. Whole' /\ Channels' /\ Covered'
  BY <1>3, <1>5, Kept DEF Channels
<1>7. Fates'
  BY <1>3 DEF FaultInv, Fates, Steady
<1>8. Recorded'
  BY <1>3, <1>4 DEF FaultInv, Recorded, Steady
<1>9. Saving' /\ Down'
  BY <1>1, <1>2, <1>3 DEF Saving, Down
<1>10. Messages'
  <2>1. \A t : Message(t) /\ t.own # "persist" => Message(t)'
    BY <1>3 DEF Message
  <2>2. \A i \in 1..Len(trav) : trav[i].own # "persist"
    BY <1>1 DEF FaultInv, Messages, Message
  <2>3. ASSUME NEW i \in 1..Len(trav) PROVE Message(trav[i])'
    <3>1. Message(trav[i]) /\ trav[i].own # "persist"
      BY <2>2 DEF FaultInv, Messages
    <3> QED BY <1>3, <2>1, <3>1 DEF Message
  <2> QED BY <1>3, <2>2, <2>3 DEF Messages
<1> QED BY <1>6, <1>7, <1>8, <1>9, <1>10 DEF FaultInv

(* The channels are thawed: the child leaves them.                         *)
LEMMA DoneKept ==
    ASSUME OneFails, TypeOK, FaultInv, PersistDone
    PROVE  FaultInv'
PROOF
<1>0. TravOK(trav) /\ persist \in Persists /\ RetireTypes
  BY Types DEF TypeOK, StoreTypes
<1> PICK c \in Children : c = persist.child
  BY <1>0 DEF Persists
<1>1. /\ persist.st = "thawing" /\ persist.own = "retire" /\ retire[c] = "saving" /\ Up
      /\ c \in Dropped \/ Steady = {}
  BY DEF PersistDone, FaultInv, Saving
<1>2. /\ c \in Faulty /\ c \in logging /\ cstate[c] # "Open"
      /\ \A d \in Children : d # c => d \in Steady /\ retire[d] = "no"
  BY <1>1, Retiring
<1>3. /\ UNCHANGED <<cstate, csync, dev, logging, logged, data, writers, logs, mode, io, online,
                     update, shut, job, info, store, taken>>
      /\ persist'.st = "idle" /\ retire' = [retire EXCEPT ![c] = "detach"] /\ Up'
      /\ trav' = Append(Tail(trav), Traversal("detach", "retire", c))
  BY <1>1 DEF PersistDone, GoOnWith, Idle, Up, childvars, logvars, chvars
<1>4. retire'[c] = "detach" /\ \A d \in Children : d # c => retire'[d] = "no"
  BY <1>0, <1>2, <1>3 DEF RetireTypes
<1>5. Dropped' = Dropped /\ Left \subseteq Left' /\ c \in Left'
  <2>1. Dropped' = Dropped
    BY <1>3, SetsKept
  <2>2. Left \subseteq Children
    BY FaultyAssumption, Zenon DEF Left, Children
  <2> QED BY <1>1, <1>2, <1>3, <1>4, <2>1, <2>2 DEF Left, Steady
<1>6. Whole' /\ Channels' /\ Covered'
  BY <1>3, <1>5, Kept
<1>7. Fates'
  BY <1>1, <1>2, <1>3, <1>4, <1>5 DEF FaultInv, Fates, Up, Steady
<1>8. Recorded'
  BY <1>3, <1>4, ZenonT(30) DEF FaultInv, Recorded, Up, Steady
<1>9. Saving' /\ Down'
  BY <1>3, <1>4 DEF Saving, Down
<1>10. Messages'
  <2>1. /\ trav # << >>
        /\ \A i \in 2..Len(trav) : i \in 1..Len(trav) /\ trav[i].own # "persist"
    BY PersistOver DEF PersistDone
  <2>2. \A i \in 2..Len(trav) : \A s : s = trav[i] => Message(s)'
    <3>1. \A s : Message(s) /\ s.own # "persist" => Message(s)'
      BY <1>1, <1>3, <1>5 DEF Message
    <3>2. \A i \in 2..Len(trav) : Message(trav[i]) /\ trav[i].own # "persist"
      BY <2>1 DEF FaultInv, Messages
    <3> QED BY <3>1, <3>2
  <2> DEFINE t == Traversal("detach", "retire", c)
  <2>3. t \in Traversals /\ t.op = "detach" /\ t.own = "retire" /\ t.child = c
    BY CoresAssumption DEF Traversal, Traversals
  <2>4. trav' = Append(Tail(trav), t)
    BY <1>3
  <2> HIDE DEF t
  <2>5. Message(t)'
    BY <1>5, <2>3 DEF Message
  <2> QED BY <1>0, <2>1, <2>2, <2>3, <2>4, <2>5, MessageOver DEF FaultInv
<1> QED BY <1>6, <1>7, <1>8, <1>9, <1>10 DEF FaultInv

(* The control plane takes the children that the store has.                *)
LEMMA RepublishKept ==
    ASSUME TypeOK, FaultInv, Republish
    PROVE  FaultInv'
PROOF
<1>1. store \in Records
  BY DEF TypeOK, StoreTypes
<1>2. /\ UNCHANGED <<cstate, csync, dev, logging, logged, data, writers, logs, mode, io, retire,
                     online, update, shut, job, info, persist, trav>>
      /\ store'.healthy = store.healthy /\ store'.dss = TRUE /\ taken' = store.healthy
  BY <1>1 DEF Republish, Records, childvars, logvars, chvars, routines, jobvars
<1>3. Dropped \subseteq Dropped' /\ Left \subseteq Left'
  BY <1>2 DEF Dropped, Left, Steady
<1>4. Recorded'
  BY <1>2 DEF FaultInv, Recorded, Up, Steady
<1> QED BY <1>2, <1>3, <1>4, Kept DEF FaultInv

-----------------------------------------------------------------------------
(* The retire routine goes on, and the device of the child goes.           *)

\* A step after which the routine of c is past its persist call as before.
Goes(c) ==
    /\ \A d \in Children : d # c => retire'[d] = retire[d] /\ cstate'[d] = cstate[d]
                                    /\ dev'[d] = dev[d]
    /\ retire'[c] \notin {"persist", "saving"}
    /\ retire'[c] # "no" => retire[c] # "no"
    /\ cstate'[c] # "Open" \/ cstate[c] = "Open"
    /\ UNCHANGED <<csync, logging, logged, data, writers, logs, mode, io, shut, online, update,
                   job, persist, info, store, taken>>

(* A child that has left goes, or one of a nexus that is going down.       *)
LEMMA GoesKept ==
    ASSUME TypeOK, FaultInv, NEW c \in Children, Goes(c), c \in Left \/ ~Up,
           retire[c] \notin {"persist", "saving"},
           Left \subseteq Left' => Messages'
    PROVE  FaultInv'
PROOF
<1>1. Dropped' = Dropped
  BY SetsKept DEF Goes
<1>2. Left \subseteq Left'
  <2>1. Left \subseteq Children
    BY FaultyAssumption, ZenonT(30) DEF Left, Children
  <2> QED BY <1>1, <2>1 DEF Left, Steady, Goes
<1>3. Whole' /\ Channels' /\ Covered'
  BY <1>1, <1>2, Kept DEF Goes
<1>4. /\ Up' = Up
      /\ \A d \in Children : cstate'[d] = "Open" => cstate[d] = "Open"
      /\ \A d \in Children : retire'[d] \in {"persist", "saving"} => d # c /\ retire'[d] = retire[d]
      /\ \A d \in Children : retire[d] \in {"persist", "saving"} => d # c /\ retire'[d] = retire[d]
  BY Zenon DEF Goes, Up
<1>5. Fates'
  <2>1. c \in Left => c \notin Steady /\ cstate[c] # "Open" /\ c \in logging
    BY DEF Left, Steady
  <2>2. \A d \in Steady : d \in Children
    BY DEF Steady
  <2>3. \A d \in Steady : retire'[d] = "no" /\ (Up => cstate'[d] = "Open" /\ dev'[d] = "open")
    BY <2>1, <2>2 DEF FaultInv, Fates, Goes
  <2>4. \A d \in Children : retire'[d] # "no" => cstate'[d] # "Open" /\ d \in logging'
    BY <1>4 DEF FaultInv, Fates, Goes
  <2>5. \A d \in Children :
           retire'[d] \in {"detach", "pausing", "paused", "resuming"} \/ dev'[d] # "open"
           => d \in Left' \/ ~Up
    BY <1>2 DEF FaultInv, Fates, Goes
  <2> QED BY <1>4, <2>3, <2>4, <2>5 DEF Fates, Steady
<1>6. Recorded'
  BY <1>4, ZenonT(30) DEF FaultInv, Recorded, Goes, Steady
<1>7. Saving'
  <2>1. persist.child \in Children
    BY DEF TypeOK, StoreTypes, Persists
  <2> QED BY <1>1, <1>4, <2>1, Zenon DEF FaultInv, Saving, Goes, Steady
<1>8. Down'
  <2>1. Faulty \subseteq Children
    BY FaultyAssumption DEF Children
  <2> QED BY <1>4, <2>1, Zenon DEF FaultInv, Down, Goes
<1> QED BY <1>2, <1>3, <1>5, <1>6, <1>7, <1>8 DEF FaultInv

(* A routine other than persist starts a traversal, or goes on after one.  *)
LEMMA MessagesGo ==
    ASSUME TypeOK, Messages, Left \subseteq Left', UNCHANGED <<persist, mode>>, Up' => Up,
           NEW op \in {"disconnect", "reconnect", "detach", "abort"},
           NEW own \in Owners \ {"persist"}, NEW c \in Children,
           op = "detach" => c \in Left' \/ ~Up',
           op = "reconnect" => Faulty \subseteq Left' \/ ~Up'
    PROVE  /\ trav' = Append(trav, Traversal(op, own, c)) => Messages'
           /\ trav # << >> /\ trav' = Tail(trav) => Messages'
           /\ trav # << >> /\ trav' = Append(Tail(trav), Traversal(op, own, c)) => Messages'
PROOF
<1>0. TravOK(trav)
  BY Types DEF TypeOK
<1>1. \A s : Message(s) => Message(s)'
  BY MessageKept
<1> DEFINE t == Traversal(op, own, c)
<1>2. t \in Traversals /\ t.op = op /\ t.own = own /\ t.child = c
  BY CoresAssumption DEF Traversal, Traversals, Owners
<1> HIDE DEF t
<1>3. Message(t)'
  BY <1>2 DEF Message
<1>4. trav # << >> => \A i \in 2..Len(trav) : \A s : s = trav[i] => Message(s)'
  <2> SUFFICES ASSUME trav # << >>, NEW i \in 2..Len(trav), NEW s, s = trav[i] PROVE Message(s)'
    OBVIOUS
  <2>0. Len(trav) \in Nat
    BY <1>0 DEF TravOK
  <2>1. i \in 1..Len(trav)
    BY <2>0
  <2> QED BY <1>1, <2>1 DEF Messages
<1>5. trav' = Append(trav, t) => Messages'
  BY <1>0, <1>1, <1>2, <1>3, MessageSent
<1>6. trav # << >> /\ (trav' = Tail(trav) \/ trav' = Append(Tail(trav), t)) => Messages'
  BY <1>0, <1>2, <1>3, <1>4, MessageOver
<1> QED BY <1>5, <1>6 DEF t

(* The steps of the retire routine after its persist call.                 *)
LEMMA RetireKept ==
    ASSUME OneFails, TypeOK, FaultInv, NEW c \in Children,
           \/ RetireDetached(c) \/ RetirePaused(c) \/ RetireDestroy(c) \/ RetireResume(c)
           \/ CloseChild(c)
    PROVE  FaultInv'
PROOF
<1>0. ChildTypes /\ RetireTypes /\ RoutineTypes /\ JobTypes
  BY DEF TypeOK
<1>1. ~UpdateQueued(c) /\ job[c] = "none" /\ \A d \in Children : job[d] = "none"
  BY NoRebuild, Zenon DEF FaultInv, Whole
<1>2. c \in Left \/ ~Up
  BY Zenon DEF FaultInv, Fates, RetireDetached, RetirePaused, RetireDestroy, RetireResume, CloseChild
<1>3. retire[c] \notin {"persist", "saving"}
  BY <1>2, Zenon DEF FaultInv, Down, Left
<1>4. Up => Faulty \subseteq Left
  BY <1>2, Zenon DEF OneFails, Left
<1>5. ASSUME Goes(c), Left \subseteq Left',
             \/ trav # << >> /\ trav' = Tail(trav)
             \/ trav' = trav
             \/ trav' = Append(trav, Traversal("disconnect", "retire", c))
             \/ trav' = Append(trav, Traversal("reconnect", "unplug", c))
      PROVE  Messages'
  <2>1. UNCHANGED <<persist, mode, shut>> /\ Up' = Up /\ Dropped' = Dropped
    BY <1>5, SetsKept, Zenon DEF Goes, Up
  <2>2. CASE trav' = trav
    BY <1>5, <2>1, <2>2, Kept
  <2>3. "retire" \in Owners \ {"persist"} /\ "unplug" \in Owners \ {"persist"}
    BY DEF Owners
  <2>4. Messages
    BY DEF FaultInv
  <2>5. CASE (trav # << >> /\ trav' = Tail(trav))
             \/ trav' = Append(trav, Traversal("disconnect", "retire", c))
    BY <1>5, <2>1, <2>3, <2>4, <2>5, MessagesGo
  <2>6. CASE trav' = Append(trav, Traversal("reconnect", "unplug", c))
    <3>1. Faulty \subseteq Left' \/ ~Up'
      BY <1>4, <1>5, <2>1
    <3> QED BY <1>5, <2>1, <2>3, <2>4, <2>6, <3>1, MessagesGo
  <2> QED BY <1>5, <2>2, <2>5, <2>6
<1>6. CASE RetireDetached(c)
  <2>1. Goes(c)
    BY <1>0, <1>6, Zenon DEF RetireDetached, Goes, RetireTypes, childvars, logvars, chvars, jobvars,
                      storevars
  <2>2. trav # << >> /\ trav' = Tail(trav)
    BY <1>6, Zenon DEF RetireDetached, Over, GoOn
  <2> QED BY <1>2, <1>3, <1>5, <2>1, <2>2, GoesKept
<1>7. CASE RetirePaused(c)
  <2>1. Goes(c)
    BY <1>0, <1>7, Zenon DEF RetirePaused, Goes, RetireTypes, childvars, logvars, chvars, jobvars,
                      routines, storevars
  <2>2. trav' = Append(trav, Traversal("disconnect", "retire", c))
    BY <1>7 DEF RetirePaused, Traverse
  <2> QED BY <1>2, <1>3, <1>5, <2>1, <2>2, GoesKept
<1>8. CASE RetireDestroy(c)
  <2>1. job' = job
    BY <1>0, <1>1, <1>8 DEF RetireDestroy, JobTypes
  <2>2. Goes(c)
    BY <1>0, <1>8, <2>1 DEF RetireDestroy, Goes, RetireTypes, ChildTypes, logvars, chvars,
                            routines, storevars
  <2>3. trav # << >> /\ trav' = Tail(trav)
    BY <1>8, Zenon DEF RetireDestroy, Over, GoOn
  <2> QED BY <1>2, <1>3, <1>5, <2>2, <2>3, GoesKept
<1>9. CASE RetireResume(c)
  <2>1. Goes(c)
    BY <1>0, <1>9, Zenon DEF RetireResume, Goes, RetireTypes, childvars, logvars, chvars, jobvars,
                      storevars
  <2>2. trav' = trav
    BY <1>9 DEF RetireResume
  <2> QED BY <1>2, <1>3, <1>5, <2>1, <2>2, GoesKept
<1>10. CASE CloseChild(c)
  <2>1. Goes(c)
    BY <1>0, <1>3, <1>10 DEF CloseChild, Goes, ChildTypes, logvars, chvars, jobvars, routines,
                             storevars
  <2>2. trav' = trav \/ trav' = Append(trav, Traversal("reconnect", "unplug", c))
    BY <1>10 DEF CloseChild, Unplug, Traverse
  <2> QED BY <1>2, <1>3, <1>5, <2>1, <2>2, GoesKept
<1> QED BY <1>6, <1>7, <1>8, <1>9, <1>10

(* The steps of a self-shutdown: the channels are frozen all along.        *)
LEMMA ShutdownKept ==
    ASSUME OneFails, SetFacts, TypeOK, TypeOK', FaultInv,
           ShutdownStart \/ ShutdownDetached \/ ShutdownAborted \/ ShutdownClosed
    PROVE  FaultInv'
PROOF
<1>0. shut \in Shuts /\ JobTypes
  BY DEF TypeOK, RoutineTypes
<1>1. ~Up /\ ~Up'
  BY <1>0 DEF ShutdownStart, ShutdownDetached, ShutdownAborted, ShutdownClosed, NextOf, Up, Shuts
<1>2. job' = job
  <2>1. \A c \in Children : job[c] = "none"
    BY DEF FaultInv, Whole
  <2> QED BY <1>0, <2>1 DEF ShutdownStart, ShutdownDetached, ShutdownAborted, ShutdownClosed,
                            jobvars, JobTypes
<1>3. UNCHANGED <<cstate, csync, logging, logged, data, writers, logs, mode, io, retire, online,
                  update, persist, info, store, taken>>
  BY DEF ShutdownStart, ShutdownDetached, ShutdownAborted, ShutdownClosed, childvars, logvars,
         chvars, storevars
<1>4. Dropped' = Dropped /\ Left' = Left
  BY <1>3, SetsKept
<1>5. Whole' /\ Covered'
  BY <1>2, <1>3, <1>4, Kept
<1>6. Fates' /\ Recorded' /\ Saving' /\ Down' /\ Channels'
  BY <1>1, <1>3, <1>4, Zenon DEF FaultInv, Fates, Recorded, Saving, Down, Channels, Steady
<1>7. Messages'
  <2>1. \/ trav' = trav
        \/ trav # << >> /\ trav' = Tail(trav)
        \/ \E left \in SUBSET Children :
             \/ trav' = Append(trav, TraversalOf(left))
             \/ trav # << >> /\ trav' = Append(Tail(trav), TraversalOf(left))
    <3>1. CASE ShutdownStart
      BY <3>1, Zenon DEF ShutdownStart
    <3>2. CASE ShutdownDetached
      BY <1>0, <3>2, Zenon DEF ShutdownDetached, Over, Shuts
    <3>3. CASE ShutdownAborted \/ ShutdownClosed
      BY <3>3 DEF ShutdownAborted, ShutdownClosed, Over, GoOn
    <3> QED BY <3>1, <3>2, <3>3
  <2>2. 1 \in Children /\ "shutdown" \in Owners \ {"persist"} /\ Messages
    BY ChildrenAssumption DEF Children, Owners, FaultInv
  <2>3. CASE trav' = trav
    <3>1. \A t : Message(t) => Message(t)'
      BY <1>1, <1>3, <1>4, MessageKept
    <3>2. \A i \in 1..Len(trav) : Message(trav[i])
      BY <2>2 DEF Messages
    <3>3. ASSUME NEW i \in 1..Len(trav) PROVE Message(trav[i])'
      <4>1. Message(trav[i])
        BY <3>2
      <4> QED BY <2>3, <3>1, <4>1 DEF Message
    <3> QED BY <2>2, <2>3, <3>3 DEF Messages
  <2>4. CASE trav # << >> /\ trav' = Tail(trav)
    BY <1>1, <1>3, <1>4, <2>2, <2>4, MessagesGo
  <2>5. ASSUME NEW left \in SUBSET Children,
               \/ trav' = Append(trav, TraversalOf(left))
               \/ trav # << >> /\ trav' = Append(Tail(trav), TraversalOf(left))
        PROVE  Messages'
    <3>1. PICK op \in {"disconnect", "reconnect", "detach", "abort"}, c \in Children :
            TraversalOf(left) = Traversal(op, "shutdown", c)
      BY <2>2, FirstIn DEF TraversalOf
    <3> QED BY <1>1, <1>3, <1>4, <2>2, <2>5, <3>1, MessagesGo
  <2> QED BY <2>1, <2>3, <2>4, <2>5
<1> QED BY <1>5, <1>6, <1>7 DEF FaultInv

-----------------------------------------------------------------------------
(* A core handles a message of a traversal.  A child is taken off the      *)
(* channel only if it has left, and its log is then on the channel; the    *)
(* mode of the channel changes only for the persist call under way.        *)
LEMMA HopKept ==
    ASSUME OneFails, TypeOK, TypeOK', FaultInv, NEW k \in Cores, NEW i \in 1..Len(trav),
           \/ DetachDevice(i, k) \/ DisconnectDetached(i, k) \/ SetIoMode(i, k)
           \/ ReconnectAll(i, k) \/ ReconnectIoLogs(i, k) \/ AbortFrozen(i, k)
    PROVE  FaultInv'
PROOF
<1>0. TravOK(trav) /\ IosOK(io) /\ ChildTypes /\ ChannelTypes /\ trav[i] \in Traversals
  <2>1. TravOK(trav) /\ IosOK(io) /\ ChildTypes /\ ChannelTypes
    BY Types DEF TypeOK
  <2> QED BY <2>1 DEF TravOK
<1>1. /\ Message(trav[i]) /\ Messages /\ Visits(i, k)
      /\ UNCHANGED <<csync, dev, logging, logged, data, retire, online, update, shut, job, persist,
                     info, store, taken>>
  BY Zenon DEF FaultInv, Messages, DetachDevice, DisconnectDetached, SetIoMode, ReconnectAll,
         ReconnectIoLogs, AbortFrozen, childvars, logvars, routines, jobvars, storevars
<1>2. cstate' = cstate
  <2>1. CASE ReconnectAll(i, k)
    <3>1. "handle" \notin Events
      BY DEF OneFails
    <3>2. cstate' = [c \in Children |-> cstate[c]]
      BY <2>1, <3>1, Zenon DEF ReconnectAll
    <3> QED BY <1>0, <3>2 DEF ChildTypes
  <2> QED BY <2>1 DEF DetachDevice, DisconnectDetached, SetIoMode, ReconnectIoLogs, AbortFrozen,
                      childvars
<1>3. Dropped' = Dropped /\ Left' = Left /\ Up' = Up
  BY <1>1, <1>2, SetsKept DEF Up
<1>4. Whole' /\ Fates' /\ Recorded'
  BY <1>1, <1>2, <1>3, Kept
<1>5. RebuildingIn(cstate) = {} /\ LogsIn(logging, cstate) = logging
  <2>1. 1 \in Children
    BY ChildrenAssumption DEF Children
  <2> QED BY <2>1, NoRebuild DEF FaultInv, LogsIn
<1>6. Covered'
  <2>1. \A w \in Writes : io'[w] = io[w] \/ (io'[w].st # "sub" /\ io'[w].st # "acked")
    <3>1. CASE SetIoMode(i, k)
      BY <1>0, <3>1 DEF SetIoMode, IosOK, Ios
    <3>2. CASE AbortFrozen(i, k)
      BY <3>2 DEF AbortFrozen, NewIo
    <3> QED BY <3>1, <3>2, Zenon DEF DetachDevice, DisconnectDetached, ReconnectAll, ReconnectIoLogs
  <2> QED BY <1>1, <1>3, <2>1, Zenon DEF FaultInv, Covered, Has
<1>7. CASE trav[i].op \in {"Freeze", "Normal"}
  <2>1. SetIoMode(i, k) /\ trav[i].own = "persist"
    BY <1>1, <1>7 DEF DetachDevice, DisconnectDetached, ReconnectAll, ReconnectIoLogs,
                      AbortFrozen, Message
  <2>2. /\ mode' = [mode EXCEPT ![k] = trav[i].op] /\ UNCHANGED <<writers, logs>>
        /\ trav[i].at = k
    BY <2>1 DEF SetIoMode, Visits
  <2>3. /\ mode'[k] = trav[i].op /\ \A m \in Cores : m # k => mode'[m] = mode[m]
    BY <1>0, <2>2, Zenon DEF ChannelTypes
  <2>4. \/ /\ persist.st = "freezing" /\ trav[i].op = "Freeze"
           /\ \A m \in Cores : m < k => mode[m] = "Freeze"
        \/ persist.st = "thawing" /\ trav[i].op = "Normal"
    BY <1>1, <2>1, <2>2, Zenon DEF Message
  <2>5. Up
    BY <2>4, ZenonT(30) DEF FaultInv, Saving
  <2>6. Channels'
    BY <1>1, <1>3, <2>2, Kept
  <2>7. Saving' /\ Down'
    BY <1>1, <1>2, <1>3, <2>4, <2>5, Zenon DEF FaultInv, Saving, Down, Steady
  <2>8. \A t : Message(t) => Message(t)'
    BY <1>1, <1>3, <2>3, <2>4, Zenon DEF Message
  <2>9. ASSUME NEW t, t = trav[i] PROVE Message([t EXCEPT !.at = k + 1])'
    <3> DEFINE s == [t EXCEPT !.at = k + 1]
    <3>1. s.op = trav[i].op /\ s.own = "persist" /\ s.at = k + 1
      BY <1>0, <2>1, <2>9 DEF Traversals
    <3> HIDE DEF s
    <3>2. s.op = "Freeze" => \A m \in Cores : m < s.at => mode'[m] = "Freeze"
      <4> SUFFICES ASSUME s.op = "Freeze", NEW m \in Cores, m < k + 1 PROVE mode'[m] = "Freeze"
        BY <3>1, Zenon
      <4>1. m < k \/ m = k
        BY DEF Cores
      <4> QED BY <2>3, <2>4, <3>1, <4>1, Zenon
    <3>3. Message(s)'
      BY <1>1, <1>7, <2>4, <3>1, <3>2, Zenon DEF Message
    <3> QED BY <3>3 DEF s
  <2>10. Messages'
    BY <1>0, <1>1, <2>8, <2>9, MessageMoved
  <2> QED BY <1>4, <1>6, <2>6, <2>7, <2>10 DEF FaultInv
<1>8. CASE trav[i].op \notin {"Freeze", "Normal"}
  <2>1. mode' = mode /\ ~SetIoMode(i, k)
    BY <1>8 DEF DetachDevice, DisconnectDetached, SetIoMode, ReconnectAll, ReconnectIoLogs,
                AbortFrozen, chvars
  <2>2. Saving' /\ Down'
    BY <1>1, <1>2, <1>3, <2>1, Kept
  <2>3. \A t : Message(t) => Message(t)'
    BY <1>1, <1>3, <2>1, MessageKept
  <2>4. ASSUME NEW t, t = trav[i] PROVE Message([t EXCEPT !.at = k + 1])'
    <3> DEFINE s == [t EXCEPT !.at = k + 1]
    <3>1. s.op = t.op /\ s.own = t.own /\ s.child = t.child /\ Message(t)
      BY <1>0, <1>1, <2>4 DEF Traversals
    <3>2. t.own # "persist"
      BY <1>1, <1>8, <2>4, Zenon DEF Message
    <3> HIDE DEF s
    <3>3. Message(s)'
      BY <1>3, <3>1, <3>2, Zenon DEF Message
    <3> QED BY <3>3 DEF s
  <2>5. Messages'
    BY <1>0, <1>1, <2>3, <2>4, MessageMoved
  <2>6. Channels'
    <3>1. Left \subseteq logging
      BY Zenon DEF Left
    <3>2. logs' = logs \/ logs' = [logs EXCEPT ![k] = logging]
      BY <1>2, <1>5, <2>1 DEF DetachDevice, DisconnectDetached, ReconnectAll, ReconnectIoLogs,
                              AbortFrozen, chvars
    <3>3. \A m \in Cores, c \in Left : c \in logs[m] => c \in logs'[m]
      BY <1>0, <3>1, <3>2 DEF ChannelTypes
    <3>4. CASE writers' = writers
      BY <1>3, <3>3, <3>4, Zenon DEF FaultInv, Channels
    <3>5. CASE writers' # writers /\ Up
      <4>1. logs' = [logs EXCEPT ![k] = logging]
        BY <1>2, <1>5, <2>1, <3>5 DEF DetachDevice, DisconnectDetached, ReconnectAll,
                                      ReconnectIoLogs, AbortFrozen, chvars
      <4>2. \A m \in Cores : m # k => writers'[m] = writers[m]
        BY <1>0, <2>1, <3>5 DEF DetachDevice, DisconnectDetached, ReconnectAll, ReconnectIoLogs,
                                AbortFrozen, ChannelTypes, chvars
      <4>3. \A c \in Children : c \notin writers'[k] => c \in Left
        <5>1. CASE DetachDevice(i, k)
          <6>1. trav[i].child \in Left
            BY <1>1, <3>5, <5>1, Zenon DEF DetachDevice, Message
          <6>2. writers'[k] = writers[k] \ {trav[i].child}
            BY <1>0, <5>1, ZenonT(30) DEF DetachDevice, ChannelTypes
          <6> QED BY <3>5, <6>1, <6>2, Zenon DEF FaultInv, Channels
        <5>2. CASE ReconnectAll(i, k)
          <6>1. Faulty \subseteq Left
            BY <1>1, <3>5, <5>2, Zenon DEF ReconnectAll, Message
          <6>2. writers'[k] = {c \in Children : IsHealthy(c)}
            <7>1. "handle" \notin Events
              BY DEF OneFails
            <7>2. writers' = [writers EXCEPT ![k] = {c \in Children : IsHealthy(c)}]
              BY <1>5, <5>2, <7>1, Zenon DEF ReconnectAll
            <7> QED BY <1>0, <7>2 DEF ChannelTypes
          <6>3. \A c \in Steady : IsHealthy(c)
            BY <3>5, Zenon DEF FaultInv, Fates, Whole, Steady, IsHealthy
          <6> QED BY <6>1, <6>2, <6>3, Zenon DEF Steady
        <5> QED BY <2>1, <3>5, <5>1, <5>2 DEF DisconnectDetached, ReconnectIoLogs, AbortFrozen, chvars
      <4>4. \A c \in Left : c \in logs'[k]
        BY <1>0, <3>1, <4>1 DEF ChannelTypes
      <4> QED BY <1>3, <3>3, <3>5, <4>2, <4>3, <4>4, Zenon DEF FaultInv, Channels
    <3> QED BY <1>3, <3>4, <3>5, Zenon DEF Channels
  <2> QED BY <1>4, <1>6, <2>2, <2>5, <2>6 DEF FaultInv
<1> QED BY <1>7, <1>8

-----------------------------------------------------------------------------
(* A nexus in service, with all its children.                              *)
LEMMA InitFault == OneFails /\ Init => FaultInv
PROOF
<1> SUFFICES ASSUME OneFails, Init PROVE FaultInv
  OBVIOUS
<1>1. Joined = Children
  BY DEF Joined, OneFails
<1>2. Whole /\ Fates
  BY <1>1 DEF Init, Whole, Fates, Steady
<1>3. Recorded
  <2>1. info.dss = FALSE
    BY DEF Init
  <2> QED BY <1>1, <2>1 DEF Init, Recorded, Steady
<1>4. Saving /\ Down
  BY ZenonT(30) DEF Init, Saving, Down, Idle, Up
<1>5. Messages
  BY DEF Init, Messages
<1>6. Channels
  BY <1>1, Zenon DEF Init, Channels
<1>7. Covered
  BY Zenon DEF Init, Covered, NewIo
<1> QED BY <1>2, <1>3, <1>4, <1>5, <1>6, <1>7 DEF FaultInv

(* Every step keeps the invariant.                                         *)
LEMMA NextFault ==
    OneFails /\ SetFacts /\ TypeOK /\ TypeOK' /\ FaultInv /\ [Next]_vars => FaultInv'
PROOF
<1> SUFFICES ASSUME OneFails, SetFacts, TypeOK, TypeOK', FaultInv, [Next]_vars PROVE FaultInv'
  OBVIOUS
<1>1. CASE IoStep
  <2> PICK w \in Writes :
        \/ \E k \in Cores : SubmitRequest(w, k)
        \/ \E c \in Children : CompleteOk(w, c) \/ CompleteError(w, c)
        \/ SubmitRequest(w, io[w].core)
    BY <1>1, Zenon DEF IoStep, Submit, Resubmit
  <2>1. io[w].core \in Cores
    BY DEF TypeOK, IoTypes, Ios
  <2> QED BY <2>1, SubmitKept, CompleteOkKept, CompleteErrorKept
<1>2. CASE ChildStep
  <2>1. Whole
    BY DEF FaultInv
  <2> PICK c \in Children :
        \/ AdminFailed(c) \/ PersistLock("retire", c)
        \/ RetireDetached(c) \/ RetirePaused(c) \/ RetireDestroy(c) \/ RetireResume(c)
        \/ CloseChild(c)
    BY <1>2, <2>1, NoRebuild DEF ChildStep
  <2> QED BY AdminKept, LockKept, RetireKept
<1>3. CASE NexusStep
  BY <1>3, HopKept, ModifyKept, SavedKept, FailedKept, DoneKept, RepublishKept, ShutdownKept
     DEF NexusStep, Hop
<1>4. CASE UNCHANGED vars
  <2>1. Dropped' = Dropped /\ Left' = Left
    BY <1>4, SetsKept DEF vars
  <2> QED BY <1>4, <2>1, Kept, ZenonT(30) DEF vars, FaultInv
<1> QED BY <1>1, <1>2, <1>3, <1>4 DEF Next

-----------------------------------------------------------------------------
(* The library's theorems on finite sets and on well-founded relations,    *)
(* for the lemmas below and for no other.                                  *)
Sets == INSTANCE FiniteSetTheorems
Orders == INSTANCE WellFoundedInduction

(* They speak of the same finite sets, and of the same cardinality.        *)
LEMMA SameSets ==
    ASSUME NEW S
    PROVE  (Sets!IsFiniteSet(S) <=> IsFiniteSet(S)) /\ Sets!Cardinality(S) = Cardinality(S)
BY DEF Sets!IsFiniteSet, IsFiniteSet, Sets!Cardinality, Cardinality

(* A set of naturals that is not empty has a least element.                *)
LEMMA LeastOf ==
    ASSUME NEW S \in SUBSET Nat, S # {}
    PROVE  \E x \in S : \A y \in S : x <= y
PROOF
<1> DEFINE R == {ss \in Nat \X Nat : ss[1] < ss[2]}
<1>1. Orders!IsWellFoundedOn(R, Nat)
  BY Orders!NatLessThanWellFounded DEF Orders!OpToRel
<1>2. \E x \in S : \A y \in S : ~(<<y, x>> \in R)
  <2> HIDE DEF R
  <2> QED BY <1>1, Orders!WFMin, Zenon
<1> PICK x \in S : \A y \in S : ~(<<y, x>> \in R)
  BY <1>2
<1>3. \A y \in S : x <= y
  <2> TAKE y \in S
  <2>1. x \in Nat /\ y \in Nat
    OBVIOUS
  <2>2. ~(y < x)
    BY <2>1, Zenon
  <2> QED BY <2>1, <2>2
<1> QED BY <1>3

(* Taking one element out of more than one leaves an element.              *)
LEMMA MoreThanOne ==
    ASSUME NEW S, IsFiniteSet(S), NEW c, Cardinality(S) > 1
    PROVE  S \ {c} # {}
PROOF
<1> SUFFICES ASSUME S \subseteq {c} PROVE FALSE
  OBVIOUS
<1>1. IsFiniteSet({c}) /\ Cardinality({c}) = 1
  BY Sets!FS_Singleton, SameSets
<1>2. Cardinality(S) <= Cardinality({c})
  BY <1>1, Sets!FS_Subset, SameSets
<1>3. Cardinality(S) \in Nat
  BY Sets!FS_CardinalityType, SameSets
<1> QED BY <1>1, <1>2, <1>3

(* A finite set with at most one element has no two of them.               *)
LEMMA NotMoreThanOne ==
    ASSUME NEW S, IsFiniteSet(S), Cardinality(S) <= 1, NEW c \in S, NEW d \in S
    PROVE  c = d
PROOF
<1> SUFFICES ASSUME c # d PROVE FALSE
  OBVIOUS
<1>1. IsFiniteSet({c, d}) /\ Cardinality({c, d}) = 2
  <2>1. IsFiniteSet({c}) /\ Cardinality({c}) = 1
    BY Sets!FS_Singleton, SameSets, Zenon
  <2>2. IsFiniteSet({c} \union {d}) /\ Cardinality({c} \union {d}) = Cardinality({c}) + 1
    <3>1. Sets!IsFiniteSet({c}) /\ d \notin {c}
      BY <2>1, SameSets
    <3>2. Sets!IsFiniteSet({c} \union {d}) /\ Sets!Cardinality({c} \union {d}) = Sets!Cardinality({c}) + 1
      BY <3>1, Sets!FS_AddElement, Zenon
    <3> QED BY <3>2, SameSets
  <2>3. {c} \union {d} = {c, d}
    OBVIOUS
  <2> QED BY <2>1, <2>2, <2>3
<1>2. Cardinality({c, d}) <= Cardinality(S)
  BY Sets!FS_Subset, SameSets
<1>3. Cardinality(S) \in Nat
  BY Sets!FS_CardinalityType, SameSets
<1> QED BY <1>1, <1>2, <1>3

(* The children are finitely many, and numbered.                           *)
LEMMA SetFactsHold == SetFacts
PROOF
<1> SUFFICES ASSUME NEW S \in SUBSET Children
             PROVE  /\ S # {} => \E c \in S : \A d \in S : c <= d
                    /\ Cardinality(S) > 1 => \A c : S \ {c} # {}
                    /\ Cardinality(S) <= 1 => \A c, d \in S : c = d
  BY DEF SetFacts
<1>1. IsFiniteSet(Children) /\ Children \subseteq Nat
  BY Sets!FS_Interval, SameSets, ChildrenAssumption DEF Children
<1>2. IsFiniteSet(S) /\ S \in SUBSET Nat
  BY <1>1, Sets!FS_Subset, SameSets, Zenon
<1>3. S # {} => \E c \in S : \A d \in S : c <= d
  BY <1>2, LeastOf
<1>4. Cardinality(S) > 1 => \A c : S \ {c} # {}
  BY <1>2, MoreThanOne
<1>5. Cardinality(S) <= 1 => \A c, d \in S : c = d
  BY <1>2, NotMoreThanOne
<1> QED BY <1>3, <1>4, <1>5

(* The variables of the write path have their types: only a write that is  *)
(* submitted is with children, and a traversal of the channels that is     *)
(* over is waited for.                                                     *)
THEOREM TypeCorrect == Spec => []TypeOK
PROOF
<1>1. TypeOK /\ [Next]_vars => TypeOK'
  BY SetFactsHold, NextOK
<1> QED BY <1>1, InitOK, PTL DEF Spec

(* child_retire_persist keeps a healthy child in the store's record,       *)
(* through any order of failures, rebuilds, failed calls of the store and  *)
(* republishing.                                                           *)
THEOREM SomeHealthyRecordedHolds == Spec => []SomeHealthyRecorded
PROOF
<1>1. TypeOK /\ SomeHealthy /\ [Next]_vars => SomeHealthy'
  BY SetFactsHold, NextHealthy
<1>2. SomeHealthy => SomeHealthyRecorded
  BY DEF SomeHealthy, SomeHealthyRecorded
<1> QED BY <1>1, <1>2, TypeCorrect, InitHealthy, PTL DEF Spec

(* The invariant of a nexus of which at most one child fails, whatever the *)
(* store answers and whenever the control plane gives the nexus away.      *)
THEOREM FaultInvariance ==
    ASSUME OneFails
    PROVE  Spec => []FaultInv
PROOF
<1>1. Init => FaultInv
  BY InitFault
<1>2. TypeOK /\ TypeOK' /\ FaultInv /\ [Next]_vars => FaultInv'
  BY SetFactsHold, NextFault
<1> QED BY <1>1, <1>2, TypeCorrect, PTL DEF Spec

(* A write that was acknowledged is on every child the store has as        *)
(* healthy and on every child a republished nexus was given: the retire    *)
(* routine records a failed child before any channel goes on without it.   *)
THEOREM AckedIsKeptHolds ==
    ASSUME OneFails
    PROVE  Spec => []AckedIsKept
PROOF
<1>1. TypeOK /\ FaultInv => AckedIsKept
  <2> SUFFICES ASSUME TypeOK, FaultInv PROVE AckedIsKept
    OBVIOUS
  <2>1. store.healthy \subseteq Children /\ taken \subseteq Children
    BY DEF TypeOK, StoreTypes, Records
  <2> QED BY <2>1 DEF FaultInv, Covered, Has, Dropped, AckedIsKept, AckedOnHealthy, AckedOnTaken,
                      Acked
<1> QED BY <1>1, FaultInvariance, TypeCorrect, PTL

(* What was acknowledged without the failed child is in its I/O log, from  *)
(* the moment it is faulted: a rebuild from the log would miss nothing.    *)
THEOREM MissedIsLoggedHolds ==
    ASSUME OneFails
    PROVE  Spec => []MissedIsLogged
PROOF
<1>1. TypeOK /\ FaultInv => MissedIsLogged
  <2> SUFFICES ASSUME TypeOK, FaultInv PROVE MissedIsLogged
    OBVIOUS
  <2>1. logging \subseteq Children
    BY DEF TypeOK, LogTypes
  <2> QED BY <2>1 DEF FaultInv, Covered, Has, MissedIsLogged, Acked
<1> QED BY <1>1, FaultInvariance, TypeCorrect, PTL

(* A child that is open and in sync, from which others would be rebuilt,   *)
(* has every acknowledged write.                                           *)
THEOREM HealthyHasAckedHolds ==
    ASSUME OneFails
    PROVE  Spec => []HealthyHasAcked
PROOF
<1>1. FaultInv => HealthyHasAcked
  BY DEF FaultInv, Covered, Has, Dropped, Recorded, HealthyHasAcked, IsHealthy, Acked
<1> QED BY <1>1, FaultInvariance, PTL
=============================================================================
