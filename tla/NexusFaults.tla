----------------------------- MODULE NexusFaults -----------------------------
(***************************************************************************)
(* The steps of the argument that a nexus with one failing child keeps     *)
(* what it acknowledged: for any number of children, cores and writes, and *)
(* whatever the store and the control plane do, what was acknowledged is   *)
(* on every child from which the nexus may be put together again, and what *)
(* the failed child missed is in its log.                                  *)
(*                                                                         *)
(* The argument follows the failed child.  It is a writer of every channel *)
(* until the channels are frozen and the store has taken it off its        *)
(* record; if the store does not, the channels stay frozen.  So a write is *)
(* submitted without the child only after the record lost it (Left), and   *)
(* then the channel has the child's log.                                   *)
(***************************************************************************)
EXTENDS NexusTypes

(* What the provers may take on a leaf: thirty seconds each.              *)
USE SMTT(30), ZenonT(30)

\* At most one child fails and none is added or brought back; no device refuses
\* an I/O at submission, and a handle can always be had.
OneFails ==
    /\ Events \subseteq {"admin", "store", "republish"}
    /\ Added = {}
    /\ \A c, d \in Faulty : c = d

Steady == Children \ Faulty
Up == shut.st = "no"

\* The children on which neither the store nor a republished nexus counts, and
\* of which the nexus will not tell the store otherwise.
Dropped == {c \in Children : c \notin store.healthy /\ c \notin info.healthy /\ c \notin taken}

\* The child whose retire routine has got past its persist call.
Left ==
    {c \in Faulty \intersect logging :
        /\ cstate[c] # "Open" /\ retire[c] \notin {"persist", "saving"}
        /\ c \in Dropped \/ Steady = {}}

\* No child is ever out of sync, and there are no rebuilds.
Whole ==
    \A c \in Children :
        csync[c] = "Synced" /\ job[c] = "none" /\ online[c] = "no" /\ update[c] = "no"

\* The child that fails, and those that do not.
Fates ==
    /\ \A c \in Steady : retire[c] = "no" /\ (Up => cstate[c] = "Open" /\ dev[c] = "open")
    /\ \A c \in Children : retire[c] # "no" => cstate[c] # "Open" /\ c \in logging
    /\ \A c \in Children :
        \/ retire[c] \in {"detach", "pausing", "paused", "resuming"}
        \/ dev[c] # "open"
        => c \in Left \/ ~Up

\* The records in memory and in the store.
Recorded ==
    /\ Steady \subseteq info.healthy /\ Steady \subseteq store.healthy
    /\ \A c \in Children : cstate[c] = "Open" => c \in info.healthy /\ c \in store.healthy
    /\ \A c \in Children : retire[c] = "persist" => c \in info.healthy
    /\ taken # {} => store.dss = TRUE
    /\ Up => info.dss = FALSE

\* The persist call: while the record is being saved every channel is frozen.
Saving ==
    /\ persist.st = "idle" => \A c \in Children : retire[c] # "saving"
    /\ persist.st # "idle" =>
        /\ Up /\ persist.own = "retire" /\ retire[persist.child] = "saving"
    /\ persist.st = "freezing" => persist.child \in info.healthy
    /\ persist.st = "saving" =>
        persist.child \notin info.healthy /\ \A k \in Cores : mode[k] = "Freeze"
    /\ persist.st = "thawing" => persist.child \in Dropped \/ Steady = {}

\* Once the nexus is to shut itself down its channels are frozen for good.
Down ==
    ~Up => /\ persist.st = "idle"
           /\ \A k \in Cores : mode[k] = "Freeze"
           /\ \A c \in Children : retire[c] \notin {"persist", "saving"}
           /\ \A c \in Faulty : cstate[c] # "Open"

\* What a traversal under way may do, and that one persist call is under way.
Message(t) ==
    /\ t.op \in {"Freeze", "Normal"} <=> t.own = "persist"
    /\ t.own = "persist" =>
        \/ /\ persist.st = "freezing" /\ t.op = "Freeze"
           /\ \A k \in Cores : k < t.at => mode[k] = "Freeze"
        \/ persist.st = "thawing" /\ t.op = "Normal"
    /\ t.op = "detach" => t.child \in Left \/ ~Up
    /\ t.op = "reconnect" => Faulty \subseteq Left \/ ~Up
Messages ==
    /\ \A i \in 1..Len(trav) : Message(trav[i])
    /\ \A i, j \in 1..Len(trav) : trav[i].own = "persist" /\ trav[j].own = "persist" => i = j

\* A child is off a channel only once it has left, and then its log is on.
Channels ==
    Up => \A k \in Cores, c \in Children : c \notin writers[k] => c \in Left /\ c \in logs[k]

\* A write that no child has failed so far is with a child, on it, or in the log
\* of a child that nobody counts on.
Has(w, c) == w \in data[c] \/ (c \in Dropped /\ w \in logged[c])
Covered ==
    \A w \in Writes, c \in Children :
        /\ io[w].st = "sub" /\ ~io[w].bad => c \in io[w].sent \/ Has(w, c)
        /\ io[w].st = "acked" => Has(w, c)

FaultInv ==
    Whole /\ Fates /\ Recorded /\ Saving /\ Down /\ Messages /\ Channels /\ Covered

-----------------------------------------------------------------------------
(* What a step leaves alone.                                               *)
LEMMA SetsKept ==
    UNCHANGED <<store, info, taken>> =>
        /\ Dropped' = Dropped
        /\ UNCHANGED <<logging, cstate, retire>> => Left' = Left
PROOF
  BY DEF Dropped, Left, Steady

(* A step that lets no child come back.                                    *)
LEMMA Kept ==
    ASSUME FaultInv, Dropped \subseteq Dropped', Left \subseteq Left'
    PROVE  /\ UNCHANGED <<csync, job, online, update>> => Whole'
           /\ UNCHANGED <<retire, cstate, dev, logging, shut>> => Fates'
           /\ UNCHANGED <<info, store, taken, cstate, retire, shut>> => Recorded'
           /\ UNCHANGED <<persist, retire, info, mode, shut>> => Saving'
           /\ UNCHANGED <<shut, persist, mode, retire, cstate>> => Down'
           /\ UNCHANGED <<trav, persist, mode, shut>> => Messages'
           /\ UNCHANGED <<shut, writers, logs>> => Channels'
           /\ UNCHANGED <<io, data, logged>> => Covered'
PROOF
<1> USE DEF FaultInv
<1>1. UNCHANGED <<csync, job, online, update>> => Whole'
  BY DEF Whole
<1>2. UNCHANGED <<retire, cstate, dev, logging, shut>> => Fates'
  BY DEF Fates, Up, Steady
<1>3. UNCHANGED <<info, store, taken, cstate, retire, shut>> => Recorded'
  BY DEF Recorded, Up, Steady
<1>4. UNCHANGED <<persist, retire, info, mode, shut>> => Saving'
  BY DEF Saving, Up, Steady
<1>5. UNCHANGED <<shut, persist, mode, retire, cstate>> => Down'
  BY DEF Down, Up
<1>6. UNCHANGED <<trav, persist, mode, shut>> => Messages'
  BY DEF Messages, Message, Up
<1>7. UNCHANGED <<shut, writers, logs>> => Channels'
  BY DEF Channels, Up
<1>8. UNCHANGED <<io, data, logged>> => Covered'
  BY DEF Covered, Has
<1> QED BY <1>1, <1>2, <1>3, <1>4, <1>5, <1>6, <1>7, <1>8

(* Nothing is brought back and nothing is rebuilt.                         *)
LEMMA NoRebuild ==
    ASSUME OneFails, Whole, NEW c \in Children
    PROVE  /\ ~OnlineChild(c) /\ ~RestartRebuild(c) /\ ~StartRebuild(c) /\ ~StartRebuildFails(c)
           /\ ~StopIoLog(c) /\ (\A w \in Writes : ~CopySegment(c, w)) /\ ~JobEnds(c)
           /\ ~RebuildUpdate(c) /\ ~PersistLock("update", c)
           /\ RebuildingIn(cstate) = {} /\ ~UpdateQueued(c)
           /\ \A w, k : ~SubmitRefused(w, k, c)
PROOF
<1>1. "online" \notin Events /\ "stop" \notin Events /\ "submit" \notin Events
  BY DEF OneFails
<1>2. job[c] = "none" /\ online[c] = "no" /\ update[c] = "no"
  BY DEF Whole
<1>3. ~OnlineChild(c) /\ ~RestartRebuild(c) /\ \A w, k : ~SubmitRefused(w, k, c)
  BY <1>1, Zenon DEF OnlineChild, RestartRebuild, SubmitRefused
<1>4. ~StartRebuild(c) /\ ~StartRebuildFails(c) /\ ~StopIoLog(c)
  BY <1>2 DEF StartRebuild, StartRebuildFails, StopIoLog
<1>5. (\A w \in Writes : ~CopySegment(c, w)) /\ ~JobEnds(c) /\ ~UpdateQueued(c)
  BY <1>2 DEF CopySegment, JobEnds, UpdateQueued
<1>6. ~RebuildUpdate(c) /\ ~PersistLock("update", c)
  BY <1>2, <1>5 DEF RebuildUpdate, PersistLock
<1>7. RebuildingIn(cstate) = {}
  BY DEF RebuildingIn, Whole
<1> QED BY <1>3, <1>4, <1>5, <1>6, <1>7

(* The children other than the one that fails never do.                    *)
LEMMA TheOther ==
    ASSUME OneFails, NEW c \in Faulty, NEW d \in Children, d # c
    PROVE  d \in Steady
PROOF
  BY DEF OneFails, Steady

-----------------------------------------------------------------------------
(* A step of the I/O path that faults no child only has to keep Covered.   *)
LEMMA IoKept ==
    ASSUME FaultInv, Covered',
           UNCHANGED <<childvars, logging, chvars, trav, retire, routines, jobvars, storevars>>
    PROVE  FaultInv'
PROOF
<1>1. Dropped' = Dropped /\ Left' = Left
  BY SetsKept DEF storevars, childvars
<1> QED BY <1>1, Kept DEF FaultInv, childvars, chvars, routines, jobvars, storevars

(* A write is submitted: the children that are not writers of the channel  *)
(* get it in their log, and if there is no writer at all it fails.         *)
LEMMA SubmitKept ==
    ASSUME OneFails, TypeOK, TypeOK', FaultInv, NEW w \in Writes, NEW k \in Cores,
           SubmitRequest(w, k)
    PROVE  FaultInv'
PROOF
<1>0. IosOK(io) /\ IosOK(io)' /\ LogTypes /\ ChannelTypes
  BY Types DEF TypeOK
<1>1. CASE FreezeSubmission(w, k)
  <2>1. io'[w].st = "frozen" /\ \A v \in Writes : v # w => io'[v] = io[v]
    BY <1>0, <1>1 DEF FreezeSubmission, NewIo, IosOK
  <2>2. UNCHANGED <<data, logged>> /\ Dropped' = Dropped
    BY <1>1, SetsKept DEF FreezeSubmission, logvars, storevars
  <2>3. Covered'
    BY <2>1, <2>2 DEF FaultInv, Covered, Has
  <2> QED BY <1>1, <2>3, IoKept DEF FreezeSubmission, logvars
<1>2. CASE SubmitAll(w, k)
  <2>1. Up
    <3>1. mode[k] # "Freeze"
      BY <1>2 DEF SubmitAll
    <3> QED BY <3>1 DEF FaultInv, Down
  <2>2. data' = data /\ Dropped' = Dropped /\ \A c \in Children : logged[c] \subseteq logged'[c]
    BY <1>0, <1>2, SetsKept DEF SubmitAll, LogWrite, LogTypes, storevars
  <2>3. \A v \in Writes : v # w => io'[v] = io[v]
    BY <1>0, <1>2 DEF SubmitAll, Sent, Finished, IosOK
  <2>4. io'[w].st # "acked" /\ (io'[w].st = "sub" => io'[w].sent = writers[k] /\ writers[k] # {})
    BY <1>0, <1>2 DEF SubmitAll, Sent, Finished, NewIo, IosOK
  <2>5. ASSUME NEW c \in Children, io'[w].st = "sub" PROVE c \in io'[w].sent \/ Has(w, c)'
    <3> SUFFICES ASSUME c \notin writers[k] PROVE c \in Dropped /\ w \in logged'[c]
      BY <2>2, <2>4, <2>5 DEF Has
    <3>1. c \in Left /\ c \in logs[k]
      BY <2>1 DEF FaultInv, Channels
    <3>2. w \in logged'[c]
      BY <1>0, <1>2, <3>1 DEF SubmitAll, LogWrite, LogTypes
    <3>3. PICK d \in writers[k] : TRUE
      BY <2>4, <2>5
    <3>4. d \in Children /\ d # c
      BY <1>0, <3>3 DEF ChannelTypes
    <3>5. Steady # {}
      BY <3>1, <3>4, TheOther DEF Left
    <3> QED BY <3>1, <3>2, <3>5 DEF Left
  <2>6. Covered'
    BY <2>2, <2>3, <2>4, <2>5 DEF FaultInv, Covered, Has
  <2> QED BY <1>2, <2>6, IoKept DEF SubmitAll
<1>3. CASE \E c \in Children : SubmitRefused(w, k, c)
  BY <1>3, NoRebuild DEF FaultInv
<1> QED BY <1>1, <1>2, <1>3 DEF SubmitRequest

(* A child answers: the write is on it.                                    *)
LEMMA CompleteOkKept ==
    ASSUME TypeOK, TypeOK', FaultInv, NEW w \in Writes, NEW c \in Children, CompleteOk(w, c)
    PROVE  FaultInv'
PROOF
<1>0. IosOK(io) /\ IosOK(io)' /\ DataTypes
  BY Types DEF TypeOK
<1> DEFINE r == [io[w] EXCEPT !.sent = @ \ {c}, !.ok = TRUE]
<1>1. /\ r.sent = io[w].sent \ {c} /\ r.bad = io[w].bad /\ r.st = "sub" /\ io[w].st = "sub"
      /\ io' = Completed(w, r)
  BY <1>0 DEF CompleteOk, IosOK, Ios
<1> HIDE DEF r
<1>2. \A v \in Writes : v # w => io'[v] = io[v]
  BY <1>0, <1>1 DEF Completed, Finished, IosOK
<1>3. /\ io'[w].st = "sub" => io'[w].sent = io[w].sent \ {c} /\ io'[w].bad = io[w].bad
      /\ io'[w].st = "acked" => io[w].sent \ {c} = {} /\ ~io[w].bad
  BY <1>0, <1>1, Zenon DEF Completed, Finished, IosOK, NewIo
<1>4. /\ w \in data'[c] /\ \A d \in Children : data[d] \subseteq data'[d]
      /\ logged' = logged /\ Dropped' = Dropped
  BY <1>0, SetsKept DEF CompleteOk, DataTypes, storevars, logvars
<1>5. Covered'
  <2> SUFFICES ASSUME NEW v \in Writes, NEW d \in Children
               PROVE  /\ io'[v].st = "sub" /\ ~io'[v].bad => d \in io'[v].sent \/ Has(v, d)'
                      /\ io'[v].st = "acked" => Has(v, d)'
    BY DEF Covered
  <2>1. Has(v, d) => Has(v, d)'
    BY <1>4 DEF Has
  <2>2. CASE v # w
    BY <1>2, <2>1, <2>2 DEF FaultInv, Covered
  <2>3. CASE v = w
    <3>1. d = c => Has(v, d)'
      BY <1>4, <2>3 DEF Has
    <3>2. ~io[w].bad => d \in io[w].sent \/ Has(w, d)
      BY <1>1 DEF FaultInv, Covered
    <3> QED BY <1>3, <2>1, <2>3, <3>1, <3>2
  <2> QED BY <2>2, <2>3
<1> QED BY <1>5, IoKept DEF CompleteOk, logvars

-----------------------------------------------------------------------------
(* What a message may do does not depend on more than this.                *)
LEMMA MessageKept ==
    ASSUME UNCHANGED <<persist, mode>>, Left \subseteq Left', Up' => Up
    PROVE  \A t : Message(t) => Message(t)'
PROOF
  BY DEF Message

(* A traversal starts.                                                     *)
LEMMA MessageSent ==
    ASSUME TravOK(trav), Messages, \A t : Message(t) => Message(t)',
           NEW t \in Traversals, Message(t)', trav' = Append(trav, t),
           t.own # "persist" \/ \A i \in 1..Len(trav) : trav[i].own # "persist"
    PROVE  Messages'
PROOF
<1>1. /\ Len(trav') = Len(trav) + 1 /\ Len(trav) \in Nat
      /\ \A i \in 1..Len(trav') : trav'[i] = IF i = Len(trav) + 1 THEN t ELSE trav[i]
  BY Appended DEF TravOK
<1>2. ASSUME NEW i \in 1..Len(trav') PROVE Message(trav[i])'
  <2>1. CASE i = Len(trav) + 1
    BY <1>1, <2>1 DEF Message
  <2>2. CASE i # Len(trav) + 1
    <3>1. i \in 1..Len(trav) /\ trav'[i] = trav[i]
      BY <1>1, <2>2
    <3>2. \A s : s = trav[i] => Message(s)'
      BY <3>1 DEF Messages
    <3> QED BY <3>1, <3>2 DEF Message
  <2> QED BY <2>1, <2>2
<1>3. ASSUME NEW i \in 1..Len(trav'), NEW j \in 1..Len(trav'),
             trav'[i].own = "persist", trav'[j].own = "persist"
      PROVE  i = j
  BY <1>1, <1>3 DEF Messages
<1> QED BY <1>2, <1>3 DEF Messages

(* The oldest traversal is over, and its routine may start another.        *)
LEMMA MessageOver ==
    ASSUME TravOK(trav), trav # << >>, Messages,
           \A i \in 2..Len(trav) : \A t : t = trav[i] => Message(t)',
           \/ trav' = Tail(trav)
           \/ \E t \in Traversals :
                /\ trav' = Append(Tail(trav), t) /\ Message(t)'
                /\ t.own # "persist" \/ \A i \in 2..Len(trav) : trav[i].own # "persist"
    PROVE  Messages'
PROOF
<1>1. /\ Tail(trav) \in Seq(Traversals) /\ Len(Tail(trav)) = Len(trav) - 1
      /\ Len(trav) \in Nat \ {0}
      /\ \A i \in 1..(Len(trav) - 1) : Tail(trav)[i] = trav[i + 1]
  BY TailOf DEF TravOK
<1>2. ASSUME NEW i \in 1..(Len(trav) - 1), trav'[i] = trav[i + 1] PROVE Message(trav[i])'
  <2>1. i + 1 \in 2..Len(trav)
    BY <1>1
  <2>2. \A t : t = trav[i + 1] => Message(t)'
    BY <2>1
  <2> QED BY <1>2, <2>2 DEF Message
<1>3. CASE trav' = Tail(trav)
  <2>1. Len(trav') = Len(trav) - 1 /\ \A i \in 1..(Len(trav) - 1) : trav'[i] = trav[i + 1]
    BY <1>1, <1>3
  <2>2. \A i, j \in 1..Len(trav') : trav'[i].own = "persist" /\ trav'[j].own = "persist" => i = j
    BY <1>1, <2>1 DEF Messages
  <2> QED BY <1>2, <2>1, <2>2, Zenon DEF Messages
<1>4. ASSUME NEW t \in Traversals, trav' = Append(Tail(trav), t), Message(t)',
             t.own # "persist" \/ \A i \in 2..Len(trav) : trav[i].own # "persist"
      PROVE  Messages'
  <2> DEFINE s == Tail(trav)
             n == Len(trav)
  <2>1. /\ s \in Seq(Traversals) /\ n \in Nat \ {0} /\ Len(s) = n - 1
        /\ \A i \in 1..(n - 1) : s[i] = trav[i + 1]
    BY <1>1
  <2>2. trav' = Append(s, t)
    BY <1>4
  <2> HIDE DEF s, n
  <2>3. /\ Len(trav') = Len(s) + 1
        /\ \A i \in 1..(Len(s) + 1) : trav'[i] = IF i = Len(s) + 1 THEN t ELSE s[i]
    BY <2>1, <2>2, Appended
  <2>4. Len(trav') = n /\ trav'[n] = t
    BY <2>1, <2>3
  <2>5. \A i \in 1..(n - 1) : trav'[i] = trav[i + 1] /\ i + 1 \in 2..n
    BY <2>1, <2>3
  <2>6. ASSUME NEW i \in 1..Len(trav') PROVE Message(trav[i])'
    <3>1. CASE i = n
      BY <1>4, <2>4, <3>1 DEF Message
    <3>2. CASE i # n
      <4>1. i \in 1..(n - 1)
        BY <2>1, <2>4, <3>2
      <4> QED BY <1>2, <2>5, <4>1 DEF n
    <3> QED BY <3>1, <3>2
  <2>7. ASSUME NEW i \in 1..Len(trav'), NEW j \in 1..Len(trav'),
               trav'[i].own = "persist", trav'[j].own = "persist"
        PROVE  i = j
    <3>1. \A m \in 1..(n - 1) : trav'[m] = trav[m + 1] /\ m + 1 \in 1..Len(trav)
      BY <2>1, <2>5 DEF n
    <3>2. CASE i # n /\ j # n
      <4>1. i \in 1..(n - 1) /\ j \in 1..(n - 1)
        BY <2>1, <2>4, <3>2
      <4>2. i + 1 = j + 1
        BY <2>7, <3>1, <4>1, Zenon DEF Messages
      <4> QED BY <4>1, <4>2
    <3>3. CASE t.own # "persist"
      BY <2>4, <2>7, <3>2, <3>3
    <3>4. CASE \A m \in 2..n : trav[m].own # "persist"
      <4>1. \A m \in 1..(n - 1) : trav'[m].own # "persist"
        BY <2>5, <3>4
      <4> QED BY <2>1, <2>4, <2>7, <4>1
    <3> QED BY <1>4, <3>3, <3>4 DEF n
  <2> QED BY <2>6, <2>7 DEF Messages
<1> QED BY <1>3, <1>4

(* A core handles a message.                                               *)
LEMMA MessageMoved ==
    ASSUME TravOK(trav), Messages, NEW k \in Cores, NEW i \in 1..Len(trav), Visits(i, k),
           \A t : Message(t) => Message(t)',
           \A t : t = trav[i] => Message([t EXCEPT !.at = k + 1])'
    PROVE  Messages'
PROOF
<1>1. PICK f : Moved(i, k, f)
  BY Visited
<1>2. ASSUME NEW j \in 1..Len(trav') PROVE Message(trav[j])'
  <2>1. f[j] \in 1..Len(trav) /\ trav'[j] = [trav[f[j]] EXCEPT !.at = IF f[j] = i THEN k + 1 ELSE @]
    BY <1>1 DEF Moved
  <2>2. trav[f[j]] \in Traversals
    BY <2>1 DEF TravOK
  <2>3. CASE f[j] = i
    <3>1. trav'[j] = [trav[i] EXCEPT !.at = k + 1]
      BY <2>1, <2>3
    <3>2. PICK t : t = trav[i]
      OBVIOUS
    <3>3. Message([t EXCEPT !.at = k + 1])' /\ trav'[j] = [t EXCEPT !.at = k + 1]
      BY <3>1, <3>2
    <3> QED BY <3>3 DEF Message
  <2>4. CASE f[j] # i
    <3>1. trav'[j] = trav[f[j]]
      BY <2>1, <2>2, <2>4 DEF Traversals
    <3>2. \A t : t = trav[f[j]] => Message(t)'
      BY <2>1 DEF Messages
    <3> QED BY <3>1, <3>2 DEF Message
  <2> QED BY <2>3, <2>4
<1>3. ASSUME NEW j \in 1..Len(trav'), NEW m \in 1..Len(trav'),
             trav'[j].own = "persist", trav'[m].own = "persist"
      PROVE  j = m
  <2>1. ASSUME NEW n \in 1..Len(trav')
        PROVE  f[n] \in 1..Len(trav) /\ trav'[n].own = trav[f[n]].own
    <3>1. f[n] \in 1..Len(trav) /\ trav'[n] = [trav[f[n]] EXCEPT !.at = IF f[n] = i THEN k + 1 ELSE @]
      BY <1>1 DEF Moved
    <3>2. trav[f[n]] \in Traversals
      BY <3>1 DEF TravOK
    <3> QED BY <3>1, <3>2 DEF Traversals
  <2>2. f[j] = f[m]
    BY <1>3, <2>1 DEF Messages
  <2> QED BY <1>1, <2>2 DEF Moved
<1> QED BY <1>2, <1>3 DEF Messages

-----------------------------------------------------------------------------
(* A child is faulted, and its log started: unless the nexus is going down *)
(* it was in all records if it was open.                                   *)
LEMMA FaultKept ==
    ASSUME OneFails, TypeOK, FaultInv, NEW c \in Faulty, NEW reason \in {"IoError", "Faulted"},
           RetireChildDevice(c, reason),
           UNCHANGED <<csync, dev, mode, routines, jobvars, storevars>>
    PROVE  /\ Whole' /\ Fates' /\ Recorded' /\ Saving' /\ Down' /\ Messages'
           /\ Dropped' = Dropped /\ Left \subseteq Left' /\ logging \subseteq logging'
PROOF
<1>0. TravOK(trav) /\ ChildTypes /\ LogTypes /\ RetireTypes /\ StoreTypes /\ c \in Children
  BY Types, FaultyAssumption DEF TypeOK, Children
<1>1. Dropped' = Dropped
  BY SetsKept DEF storevars
<1>2. CASE UNCHANGED <<cstate, logging, retire, trav>>
  <2>1. Left' = Left
    BY <1>2, SetsKept DEF storevars
  <2> QED BY <1>1, <1>2, <2>1, Kept DEF FaultInv, routines, jobvars, storevars
<1>3. CASE dev[c] # "gone"
  <2>1. HasLog(c)
    BY <1>0, <1>3 DEF HasLog, FaultInv, Whole
  <2>2. /\ logging' = logging \union {c}
        /\ cstate' = [cstate EXCEPT ![c] = IF @ = "Open" THEN reason ELSE @]
        /\ retire' = [retire EXCEPT ![c] = IF cstate[c] = "Open" THEN "persist" ELSE @]
        /\ trav' = trav \/ trav' = Append(trav, Traversal("relog", "relog", c))
    BY <1>3, <2>1 DEF RetireChildDevice, Traverse
  <2>3. /\ \A d \in Children : d # c => cstate'[d] = cstate[d] /\ retire'[d] = retire[d]
        /\ cstate'[c] # "Open"
        /\ cstate[c] = "Open" => retire'[c] = "persist" /\ retire[c] = "no" /\ Up
        /\ cstate[c] # "Open" => cstate'[c] = cstate[c] /\ retire'[c] = retire[c]
    <3>1. cstate[c] = "Open" => retire[c] = "no" /\ Up
      BY <1>0 DEF FaultInv, Fates, Down
    <3> QED BY <1>0, <2>2, <3>1 DEF ChildTypes, RetireTypes
  <2>4. Left \subseteq Left'
    BY <1>0, <1>1, <2>2, <2>3 DEF Left, Steady
  <2>5. Up' = Up /\ UNCHANGED <<persist, info, store, taken, mode, shut>>
    BY DEF Up, routines, storevars
  <2>6. Whole'
    BY <1>1, <2>4, Kept DEF routines, jobvars
  <2>7. Fates'
    <3>1. \A d \in Steady : d \in Children /\ d # c
      BY DEF Steady
    <3>2. \A d \in Steady : retire'[d] = "no" /\ (Up => cstate'[d] = "Open" /\ dev'[d] = "open")
      BY <2>3, <3>1 DEF FaultInv, Fates
    <3>3. \A d \in Children : retire'[d] # "no" => cstate'[d] # "Open" /\ d \in logging'
      BY <2>2, <2>3 DEF FaultInv, Fates
    <3>4. \A d \in Children :
             retire'[d] \in {"detach", "pausing", "paused", "resuming"} \/ dev'[d] # "open"
             => d \in Left' \/ ~Up
      BY <2>3, <2>4 DEF FaultInv, Fates
    <3> QED BY <2>5, <3>2, <3>3, <3>4 DEF Fates, Steady
  <2>8. Recorded'
    <3>1. \A d \in Children : cstate'[d] = "Open" => cstate[d] = "Open"
      BY <2>3
    <3>2. \A d \in Children : retire'[d] = "persist" => retire[d] = "persist" \/ cstate[d] = "Open"
      BY <2>3
    <3> QED BY <2>5, <3>1, <3>2, Zenon DEF FaultInv, Recorded, Steady
  <2>9. Saving'
    <3>1. \A d \in Children : retire'[d] = "saving" <=> retire[d] = "saving"
      BY <2>3
    <3>2. persist.child \in Children
      BY <1>0 DEF StoreTypes, Persists
    <3> QED BY <1>1, <2>5, <3>1, <3>2 DEF FaultInv, Saving, Steady
  <2>10. Down'
    <3>1. ~Up => \A d \in Children : cstate'[d] = cstate[d] /\ retire'[d] = retire[d]
      BY <2>3
    <3>2. Faulty \subseteq Children
      BY FaultyAssumption DEF Children
    <3> QED BY <2>5, <3>1, <3>2, Zenon DEF FaultInv, Down
  <2>11. Messages'
    <3>1. \A t : Message(t) => Message(t)'
      BY <2>4, <2>5, MessageKept
    <3>2. CASE trav' = trav
      BY <1>1, <2>4, <2>5, <3>2, Kept
    <3>3. CASE trav' = Append(trav, Traversal("relog", "relog", c))
      <4> DEFINE t == Traversal("relog", "relog", c)
      <4>1. t \in Traversals /\ t.op = "relog" /\ t.own = "relog"
        BY <1>0, CoresAssumption DEF Traversal, Traversals
      <4> HIDE DEF t
      <4>2. Message(t)'
        BY <4>1 DEF Message
      <4>3. trav' = Append(trav, t)
        BY <3>3 DEF t
      <4> QED BY <1>0, <3>1, <4>1, <4>2, <4>3, MessageSent DEF FaultInv
    <3> QED BY <2>2, <3>2, <3>3
  <2> QED BY <1>1, <2>2, <2>4, <2>6, <2>7, <2>8, <2>9, <2>10, <2>11
<1> QED BY <1>2, <1>3 DEF RetireChildDevice

(* A failed admin command.                                                 *)
LEMMA AdminKept ==
    ASSUME OneFails, TypeOK, FaultInv, NEW c \in Children, AdminFailed(c)
    PROVE  FaultInv'
PROOF
<1>1. /\ Whole' /\ Fates' /\ Recorded' /\ Saving' /\ Down' /\ Messages'
      /\ Dropped' = Dropped /\ Left \subseteq Left' /\ logging \subseteq logging'
  BY FaultKept DEF AdminFailed
<1>2. UNCHANGED <<shut, writers, logs, io, data, logged>>
  BY DEF AdminFailed, routines
<1> QED BY <1>1, <1>2, Kept DEF FaultInv

(* A write fails on a child: it is not acknowledged before it was          *)
(* submitted again.                                                        *)
LEMMA CompleteErrorKept ==
    ASSUME OneFails, TypeOK, TypeOK', FaultInv, NEW w \in Writes, NEW c \in Children,
           CompleteError(w, c)
    PROVE  FaultInv'
PROOF
<1>0. IosOK(io) /\ IosOK(io)' /\ DataTypes /\ LogTypes /\ LogTypes' /\ ChannelTypes
  BY Types DEF TypeOK
<1>1. /\ Whole' /\ Fates' /\ Recorded' /\ Saving' /\ Down' /\ Messages'
      /\ Dropped' = Dropped /\ Left \subseteq Left' /\ logging \subseteq logging'
  BY FaultKept DEF CompleteError
<1> DEFINE r == [io[w] EXCEPT !.sent = @ \ {c}, !.bad = TRUE]
<1>2. r.bad = TRUE /\ io' = Completed(w, r)
  BY <1>0 DEF CompleteError, IosOK, Ios
<1> HIDE DEF r
<1>3. /\ \A v \in Writes : v # w => io'[v] = io[v]
      /\ io'[w].st = "sub" => io'[w].bad
      /\ io'[w].st # "acked" \/ io'[w] = r
  BY <1>0, <1>2 DEF Completed, Finished, NewIo, IosOK
<1>4. io'[w].st # "acked"
  <2>1. r.st = "sub"
    BY <1>0 DEF r, CompleteError, IosOK, Ios
  <2> QED BY <1>3, <2>1
<1>5. \A d \in Children : data[d] \subseteq data'[d] /\ logged[d] \subseteq logged'[d]
  <2>1. data' = data \/ data' = [data EXCEPT ![c] = @ \union {w}]
    BY DEF CompleteError
  <2>2. logged' = logged \/ logged' = LogWrite(w, {c})
    BY DEF CompleteError
  <2> QED BY <1>0, <2>1, <2>2 DEF DataTypes, LogTypes, LogWrite
<1>6. Covered'
  BY <1>1, <1>3, <1>4, <1>5, Zenon DEF FaultInv, Covered, Has
<1>7. Channels'
  <2>1. RebuildingIn(cstate') = {}
    BY <1>1 DEF CompleteError, RebuildingIn, Whole
  <2>2. logs' = logs \/ logs' = [logs EXCEPT ![io[w].core] = logging']
    BY <2>1 DEF CompleteError, LogsIn
  <2>3. \A d \in Children, k \in Cores : d \in logs[k] /\ d \in Left' => d \in logs'[k]
    BY <1>0, <2>2 DEF Left, ChannelTypes
  <2> QED BY <1>1, <2>3 DEF FaultInv, Channels, Up, CompleteError, routines
<1> QED BY <1>1, <1>6, <1>7 DEF FaultInv
=============================================================================
