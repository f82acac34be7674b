----------------------------- MODULE NexusTypes ------------------------------
(***************************************************************************)
(* The steps of two arguments about the write path of a nexus: that its    *)
(* variables have their types, one lemma per group of actions, and that    *)
(* the record of the persistent store always has a healthy child.          *)
(* NexusProofs puts the steps together.                                    *)
(***************************************************************************)
EXTENDS Nexus, TLAPS

(* What the provers may take on a leaf: thirty seconds each.              *)
USE SMTT(30), ZenonT(30)

(* The last element of a sequence that was appended to is the new one.     *)
LEMMA Appended ==
    ASSUME NEW S, NEW s \in Seq(S), NEW t \in S
    PROVE  /\ Append(s, t) \in Seq(S) /\ Len(Append(s, t)) = Len(s) + 1 /\ Len(s) \in Nat
           /\ \A i \in 1..(Len(s) + 1) : Append(s, t)[i] = IF i = Len(s) + 1 THEN t ELSE s[i]
PROOF
  OBVIOUS

(* The tail of a sequence.                                                 *)
LEMMA TailOf ==
    ASSUME NEW S, NEW s \in Seq(S), s # << >>
    PROVE  /\ Tail(s) \in Seq(S) /\ Len(Tail(s)) = Len(s) - 1 /\ Len(s) \in Nat \ {0}
           /\ \A i \in 1..(Len(s) - 1) : Tail(s)[i] = s[i + 1]
           /\ Head(s) = s[1] /\ Head(s) \in S
PROOF
  OBVIOUS

(* An element of a sequence is replaced.                                   *)
LEMMA Replaced ==
    ASSUME NEW S, NEW s \in Seq(S), NEW i \in 1..Len(s), NEW t \in S
    PROVE  /\ [s EXCEPT ![i] = t] \in Seq(S) /\ Len([s EXCEPT ![i] = t]) = Len(s)
           /\ \A j \in 1..Len(s) : [s EXCEPT ![i] = t][j] = IF j = i THEN t ELSE s[j]
PROOF
  OBVIOUS

(* One sequence after another.                                             *)
LEMMA Joint ==
    ASSUME NEW S, NEW a \in Seq(S), NEW b \in Seq(S)
    PROVE  /\ a \o b \in Seq(S) /\ Len(a \o b) = Len(a) + Len(b)
           /\ \A j \in 1..(Len(a) + Len(b)) :
                 (a \o b)[j] = IF j <= Len(a) THEN a[j] ELSE b[j - Len(a)]
PROOF
  OBVIOUS

\* A sequence without one of its elements.
Without(s, i) == SubSeq(s, 1, i - 1) \o SubSeq(s, i + 1, Len(s))

(* The elements behind the one taken out move up.                          *)
LEMMA TakenOut ==
    ASSUME NEW S, NEW s \in Seq(S), NEW i \in 1..Len(s)
    PROVE  /\ Without(s, i) \in Seq(S) /\ Len(Without(s, i)) = Len(s) - 1
           /\ \A j \in 1..(Len(s) - 1) : Without(s, i)[j] = IF j < i THEN s[j] ELSE s[j + 1]
PROOF
<1> DEFINE a == SubSeq(s, 1, i - 1)
           b == SubSeq(s, i + 1, Len(s))
<1>1. Len(s) \in Nat /\ i \in 1..Len(s)
  OBVIOUS
<1>2. a \in Seq(S) /\ Len(a) = i - 1 /\ \A j \in 1..(i - 1) : a[j] = s[j]
  OBVIOUS
<1>3. b \in Seq(S) /\ Len(b) = Len(s) - i /\ \A j \in 1..(Len(s) - i) : b[j] = s[j + i]
  OBVIOUS
<1> HIDE DEF a, b
<1>4. /\ a \o b \in Seq(S) /\ Len(a \o b) = Len(a) + Len(b)
      /\ \A j \in 1..(Len(a) + Len(b)) :
            (a \o b)[j] = IF j <= Len(a) THEN a[j] ELSE b[j - Len(a)]
  BY <1>2, <1>3, Joint, Zenon
<1>5. Len(a) + Len(b) = Len(s) - 1
  BY <1>1, <1>2, <1>3
<1>6. ASSUME NEW j \in 1..(Len(s) - 1) PROVE (a \o b)[j] = IF j < i THEN s[j] ELSE s[j + 1]
  <2>1. CASE j < i
    BY <1>1, <1>2, <1>4, <1>5, <2>1
  <2>2. CASE ~(j < i)
    <3>1. j - Len(a) \in 1..(Len(s) - i) /\ (j - Len(a)) + i = j + 1
      BY <1>1, <1>2, <2>2
    <3>2. b[j - Len(a)] = s[j + 1]
      BY <1>3, <3>1, Zenon
    <3>3. j \in 1..(Len(a) + Len(b)) /\ ~(j <= Len(a))
      BY <1>1, <1>2, <1>5, <2>2
    <3>4. (a \o b)[j] = b[j - Len(a)]
      BY <1>4, <3>3, Zenon
    <3> QED BY <2>2, <3>2, <3>4, Zenon
  <2> QED BY <2>1, <2>2, Zenon
<1>7. Without(s, i) = a \o b
  BY DEF Without, a, b
<1> QED BY <1>4, <1>5, <1>6, <1>7

Owners == {"persist", "retire", "online", "update", "unplug", "shutdown", "relog"}
Ops == {"Freeze", "Normal", "detach", "disconnect", "reconnect", "relog", "abort"}

\* The part of TypeOK about traversals, for any sequence of them.
TravOK(s) ==
    /\ s \in Seq(Traversals)
    /\ \A i \in 1..Len(s) : s[i].at = NumCores + 1 => s[i].own \in Awaited

(* A traversal that starts has the first channel before it.                *)
LEMMA TraversalStarts ==
    ASSUME NEW s, TravOK(s), NEW op \in Ops, NEW own \in Owners, NEW c \in Children
    PROVE  TravOK(Append(s, Traversal(op, own, c)))
PROOF
<1> DEFINE t == Traversal(op, own, c)
           u == Append(s, t)
<1>1. t \in Traversals /\ t.at # NumCores + 1
  BY CoresAssumption DEF Traversal, Traversals, Ops, Owners
<1> HIDE DEF t
<1>2. /\ u \in Seq(Traversals) /\ Len(u) = Len(s) + 1 /\ Len(s) \in Nat
      /\ \A i \in 1..Len(u) : u[i] = IF i = Len(s) + 1 THEN t ELSE s[i]
  BY <1>1, Appended DEF TravOK
<1> HIDE DEF u
<1>4. TravOK(u)
  BY <1>1, <1>2 DEF TravOK
<1> QED BY <1>4 DEF u, t

(* The oldest traversal is over.                                           *)
LEMMA TraversalEnds ==
    ASSUME NEW s, TravOK(s), s # << >>
    PROVE  TravOK(Tail(s))
PROOF
<1>1. /\ Tail(s) \in Seq(Traversals) /\ Len(Tail(s)) = Len(s) - 1 /\ Len(s) \in Nat
      /\ \A i \in 1..(Len(s) - 1) : Tail(s)[i] = s[i + 1]
  BY TailOf DEF TravOK
<1> QED BY <1>1 DEF TravOK

\* What a core that handles a message makes of the traversals: those it leaves
\* are as they were, in their order, and the one it handled is at the next core.
Moved(i, k, f) ==
    /\ f \in [1..Len(trav') -> 1..Len(trav)]
    /\ \A j, m \in 1..Len(trav') : f[j] = f[m] => j = m
    /\ \A j \in 1..Len(trav') :
        /\ trav'[j] = [trav[f[j]] EXCEPT !.at = IF f[j] = i THEN k + 1 ELSE @]
        /\ f[j] = i /\ k = NumCores => trav[i].own \in Awaited

(* A message of a traversal is handled.                                    *)
LEMMA Visited ==
    ASSUME TravOK(trav), NEW i \in 1..Len(trav), NEW k \in Cores, Visits(i, k)
    PROVE  TravOK(trav') /\ \E f : Moved(i, k, f)
PROOF
<1>1. /\ trav \in Seq(Traversals) /\ Len(trav) \in Nat /\ k \in 1..NumCores /\ NumCores \in Nat
      /\ \A j \in 1..Len(trav) : trav[j] \in Traversals
  BY CoresAssumption DEF TravOK, Cores
<1>2. CASE trav' = Without(trav, i)
  <2> DEFINE f == [j \in 1..Len(trav') |-> IF j < i THEN j ELSE j + 1]
  <2>1. /\ trav' \in Seq(Traversals) /\ Len(trav') = Len(trav) - 1
        /\ \A j \in 1..Len(trav') : trav'[j] = IF j < i THEN trav[j] ELSE trav[j + 1]
    BY <1>1, <1>2, TakenOut, Zenon
  <2>2. /\ f \in [1..Len(trav') -> 1..Len(trav)]
        /\ \A j \in 1..Len(trav') : f[j] = (IF j < i THEN j ELSE j + 1) /\ f[j] # i
        /\ \A j, m \in 1..Len(trav') : f[j] = f[m] => j = m
    BY <1>1, <2>1
  <2>3. \A j \in 1..Len(trav') : trav'[j] = trav[f[j]] /\ f[j] \in 1..Len(trav)
    BY <2>1, <2>2
  <2> HIDE DEF f
  <2>4. \A j \in 1..Len(trav') : trav[f[j]] = [trav[f[j]] EXCEPT !.at = IF f[j] = i THEN k + 1 ELSE @]
    BY <1>1, <2>2, <2>3 DEF Traversals
  <2>5. Moved(i, k, f)
    BY <2>2, <2>3, <2>4 DEF Moved
  <2>6. TravOK(trav')
    BY <1>1, <2>1, <2>3, Zenon DEF TravOK
  <2> QED BY <2>5, <2>6
<1>3. CASE /\ trav' = [trav EXCEPT ![i].at = k + 1]
           /\ k = NumCores => trav[i].own \in Awaited
  <2> DEFINE f == [j \in 1..Len(trav') |-> j]
             t == [trav[i] EXCEPT !.at = k + 1]
  <2>1. t \in Traversals /\ t.own = trav[i].own /\ t.at = k + 1
    <3>1. trav[i] \in Traversals /\ k + 1 \in 1..(NumCores + 1)
      BY <1>1
    <3> QED BY <3>1 DEF Traversals
  <2>2. trav' = [trav EXCEPT ![i] = t]
    BY <1>3
  <2> HIDE DEF t
  <2>3. /\ trav' \in Seq(Traversals) /\ Len(trav') = Len(trav)
        /\ \A j \in 1..Len(trav) : trav'[j] = IF j = i THEN t ELSE trav[j]
    BY <1>1, <2>1, <2>2, Replaced
  <2>4. \A j \in 1..Len(trav) : trav'[j] = [trav[j] EXCEPT !.at = IF j = i THEN k + 1 ELSE @]
    BY <1>1, <2>3, Zenon DEF Traversals, t
  <2>5. Moved(i, k, f)
    BY <1>1, <1>3, <2>3, <2>4 DEF Moved
  <2>6. TravOK(trav')
    BY <1>1, <1>3, <2>1, <2>3 DEF TravOK
  <2> QED BY <2>5, <2>6
<1> QED BY <1>2, <1>3, Zenon DEF Visits, Without, Awaited

\* The part of TypeOK about I/Os, for any function that gives them.
IosOK(x) == x \in [Writes -> Ios] /\ \A w \in Writes : x[w].st = "sub" <=> x[w].sent # {}

(* An I/O gets another record.                                             *)
LEMMA IoChanges ==
    ASSUME IosOK(io), NEW w \in Writes, NEW r \in Ios, r.st = "sub" <=> r.sent # {}
    PROVE  IosOK([io EXCEPT ![w] = r])
PROOF
  BY DEF IosOK

(* An I/O is over, or starts again.                                        *)
LEMMA NotSent ==
    ASSUME NEW st \in {"new", "ready", "frozen", "acked", "failed"}, NEW k \in Cores
    PROVE  LET r == [NewIo EXCEPT !.st = st, !.core = k]
           IN  r \in Ios /\ r.st # "sub" /\ r.sent = {}
PROOF
  BY Zenon DEF NewIo, Ios

LEMMA FinishedOK ==
    ASSUME IosOK(io), NEW w \in Writes, NEW st \in {"acked", "failed"}
    PROVE  IosOK(Finished(w, st))
PROOF
<1> DEFINE r == [NewIo EXCEPT !.st = st]
<1>1. 1 \in Cores
  BY CoresAssumption DEF Cores
<1>2. r \in Ios /\ r.st = st /\ r.sent = {}
  BY <1>1, Zenon DEF NewIo, Ios
<1>3. Finished(w, st) = [io EXCEPT ![w] = r]
  BY DEF Finished
<1> HIDE DEF r
<1> QED BY <1>2, <1>3, IoChanges, Zenon

LEMMA SentOK ==
    ASSUME IosOK(io), NEW w \in Writes, NEW k \in Cores, NEW sent \in SUBSET Children,
           NEW bad \in BOOLEAN
    PROVE  IosOK(Sent(w, k, sent, bad))
PROOF
<1>1. CASE sent = {}
  BY <1>1, FinishedOK DEF Sent
<1>2. CASE sent # {}
  <2> DEFINE r == [st |-> "sub", core |-> k, sent |-> sent, ok |-> FALSE, bad |-> bad]
  <2>1. r \in Ios /\ r.st = "sub" /\ r.sent # {}
    BY <1>2 DEF Ios
  <2>2. Sent(w, k, sent, bad) = [io EXCEPT ![w] = r]
    BY <1>2 DEF Sent
  <2> HIDE DEF r
  <2> QED BY <2>1, <2>2, IoChanges, Zenon
<1> QED BY <1>1, <1>2

LEMMA CompletedOK ==
    ASSUME IosOK(io), NEW w \in Writes, NEW r \in Ios, r.st = "sub"
    PROVE  IosOK(Completed(w, r))
PROOF
<1>1. r.bad \in BOOLEAN /\ r.ok \in BOOLEAN /\ r.core \in Cores
  BY DEF Ios
<1>2. CASE r.sent # {}
  <2>1. Completed(w, r) = [io EXCEPT ![w] = r]
    BY <1>2 DEF Completed
  <2> QED BY <1>2, <2>1, IoChanges, Zenon
<1>3. CASE r.sent = {} /\ ~r.bad
  <2>1. Completed(w, r) = Finished(w, "acked")
    BY <1>3 DEF Completed
  <2> QED BY <2>1, FinishedOK
<1>4. CASE r.sent = {} /\ r.bad /\ r.ok
  <2> DEFINE q == [NewIo EXCEPT !.st = "ready", !.core = r.core]
  <2>1. Completed(w, r) = [io EXCEPT ![w] = q]
    BY <1>4 DEF Completed
  <2>2. q \in Ios /\ q.st # "sub" /\ q.sent = {}
    BY <1>1, NotSent, Zenon
  <2> HIDE DEF q
  <2> QED BY <2>1, <2>2, IoChanges, Zenon
<1>5. CASE r.sent = {} /\ r.bad /\ ~r.ok
  <2>1. Completed(w, r) = Finished(w, "failed")
    BY <1>5 DEF Completed
  <2> QED BY <2>1, FinishedOK
<1> QED BY <1>1, <1>2, <1>3, <1>4, <1>5

(* A group of variables that a step leaves alone keeps its types.          *)
LEMMA Frames ==
    /\ ChildTypes /\ UNCHANGED childvars => ChildTypes'
    /\ LogTypes /\ UNCHANGED logvars => LogTypes'
    /\ DataTypes /\ UNCHANGED data => DataTypes'
    /\ ChannelTypes /\ UNCHANGED chvars => ChannelTypes'
    /\ TraversalTypes /\ UNCHANGED trav => TraversalTypes'
    /\ IoTypes /\ UNCHANGED io => IoTypes'
    /\ RetireTypes /\ UNCHANGED retire => RetireTypes'
    /\ RoutineTypes /\ UNCHANGED routines => RoutineTypes'
    /\ JobTypes /\ UNCHANGED jobvars => JobTypes'
    /\ StoreTypes /\ UNCHANGED storevars => StoreTypes'
PROOF
<1>1. /\ ChildTypes /\ UNCHANGED childvars => ChildTypes'
      /\ LogTypes /\ UNCHANGED logvars => LogTypes'
      /\ DataTypes /\ UNCHANGED data => DataTypes'
      /\ ChannelTypes /\ UNCHANGED chvars => ChannelTypes'
  BY Zenon DEF ChildTypes, LogTypes, DataTypes, ChannelTypes, childvars, logvars, chvars
<1>2. /\ TraversalTypes /\ UNCHANGED trav => TraversalTypes'
      /\ IoTypes /\ UNCHANGED io => IoTypes'
      /\ RetireTypes /\ UNCHANGED retire => RetireTypes'
  BY Zenon DEF TraversalTypes, IoTypes, RetireTypes
<1>3. RoutineTypes /\ UNCHANGED routines => RoutineTypes'
  BY Zenon DEF RoutineTypes, routines
<1>4. /\ JobTypes /\ UNCHANGED jobvars => JobTypes'
      /\ StoreTypes /\ UNCHANGED storevars => StoreTypes'
  BY Zenon DEF JobTypes, StoreTypes, jobvars, storevars
<1> QED BY <1>1, <1>2, <1>3, <1>4

(* The types of the traversals and of the I/Os, in the words of the lemmas. *)
LEMMA Types ==
    /\ TravOK(trav) <=> TraversalTypes
    /\ TravOK(trav)' <=> TraversalTypes'
    /\ IosOK(io) <=> IoTypes
    /\ IosOK(io)' <=> IoTypes'
PROOF
  BY DEF TravOK, TraversalTypes, IosOK, IoTypes

(* A child fails.                                                          *)
LEMMA RetireOK ==
    ASSUME TypeOK, NEW c \in Children, NEW reason \in ChildStates,
           RetireChildDevice(c, reason), UNCHANGED <<csync, dev>>
    PROVE  ChildTypes' /\ logging' \subseteq Children /\ RetireTypes' /\ TraversalTypes'
PROOF
<1>1. ChildTypes /\ LogTypes /\ RetireTypes /\ TravOK(trav)
  BY Types DEF TypeOK
<1>2. CASE dev[c] = "gone"
  BY <1>1, <1>2, Types DEF RetireChildDevice, ChildTypes, LogTypes, RetireTypes, TravOK
<1>3. CASE dev[c] # "gone"
  <2>1. TravOK(Append(trav, Traversal("relog", "relog", c)))
    BY <1>1, TraversalStarts DEF Ops, Owners
  <2>2. trav' = trav \/ trav' = Append(trav, Traversal("relog", "relog", c))
    BY <1>3 DEF RetireChildDevice, Traverse
  <2>3. TraversalTypes'
    BY <1>1, <2>1, <2>2, Types, Zenon
  <2>4. /\ cstate' = [cstate EXCEPT ![c] = IF @ = "Open" THEN reason ELSE @]
        /\ logging' = IF HasLog(c) THEN logging \union {c} ELSE logging
        /\ retire' = [retire EXCEPT ![c] = IF cstate[c] = "Open" THEN "persist" ELSE @]
    BY <1>3 DEF RetireChildDevice
  <2>5. ChildTypes' /\ logging' \subseteq Children
    BY <1>1, <2>4 DEF ChildTypes, LogTypes
  <2>6. RetireTypes'
    BY <1>1, <2>4 DEF RetireTypes
  <2> QED BY <2>3, <2>5, <2>6
<1> QED BY <1>2, <1>3

(* The steps of an I/O.                                                    *)
LEMMA IoStepOK == TypeOK /\ IoStep => TypeOK'
PROOF
<1> SUFFICES ASSUME TypeOK, IoStep PROVE TypeOK'
  OBVIOUS
<1>0. IosOK(io) /\ LogTypes /\ DataTypes /\ ChannelTypes
  BY Types DEF TypeOK
<1>1. ASSUME NEW w \in Writes, NEW k \in Cores, FreezeSubmission(w, k) PROVE TypeOK'
  <2> DEFINE r == [NewIo EXCEPT !.st = "frozen", !.core = k]
  <2>1. r \in Ios /\ r.st # "sub" /\ r.sent = {}
    BY NotSent, Zenon
  <2>2. io' = [io EXCEPT ![w] = r]
    BY <1>1 DEF FreezeSubmission
  <2> HIDE DEF r
  <2>3. IoTypes'
    BY <1>0, <2>1, <2>2, IoChanges, Types, Zenon
  <2> QED BY <1>1, <2>3, Frames DEF FreezeSubmission, TypeOK
<1>2. ASSUME NEW w \in Writes, NEW k \in Cores, SubmitAll(w, k) PROVE TypeOK'
  <2>1. writers[k] \in SUBSET Children
    BY <1>0 DEF ChannelTypes
  <2>2. IoTypes'
    BY <1>0, <1>2, <2>1, SentOK, Types, Zenon DEF SubmitAll
  <2>3. LogTypes'
    BY <1>0, <1>2 DEF SubmitAll, LogWrite, LogTypes
  <2> QED BY <1>2, <2>2, <2>3, Frames DEF SubmitAll, TypeOK
<1>3. ASSUME NEW w \in Writes, NEW k \in Cores, NEW c \in Children, SubmitRefused(w, k, c)
      PROVE  TypeOK'
  <2>1. {d \in writers[k] : Before(k, d, c)} \in SUBSET Children
    BY <1>0 DEF ChannelTypes
  <2>2. IoTypes'
    BY <1>0, <1>3, <2>1, SentOK, Types, Zenon DEF SubmitRefused
  <2>3. "IoError" \in ChildStates /\ RetireChildDevice(c, "IoError") /\ UNCHANGED <<csync, dev>>
    BY <1>3 DEF ChildStates, SubmitRefused
  <2>4. ChildTypes' /\ logging' \subseteq Children /\ RetireTypes' /\ TraversalTypes'
    BY <2>3, RetireOK
  <2>5. ChannelTypes'
    BY <1>0, <1>3, <2>4 DEF SubmitRefused, LogsIn, ChannelTypes, LogTypes
  <2>6. LogTypes'
    BY <1>0, <1>3, <2>4 DEF SubmitRefused, LogWrite, LogTypes
  <2> QED BY <1>3, <2>2, <2>4, <2>5, <2>6, Frames DEF SubmitRefused, TypeOK
<1>4. ASSUME NEW w \in Writes, NEW c \in Children, CompleteOk(w, c) PROVE TypeOK'
  <2> DEFINE r == [io[w] EXCEPT !.sent = @ \ {c}, !.ok = TRUE]
  <2>1. r \in Ios /\ r.st = "sub"
    BY <1>0, <1>4, Zenon DEF CompleteOk, IosOK, Ios
  <2>2. io' = Completed(w, r)
    BY <1>4 DEF CompleteOk
  <2> HIDE DEF r
  <2>3. IoTypes'
    BY <1>0, <2>1, <2>2, CompletedOK, Types
  <2>4. DataTypes'
    BY <1>0, <1>4 DEF CompleteOk, DataTypes
  <2> QED BY <1>4, <2>3, <2>4, Frames DEF CompleteOk, TypeOK
<1>5. ASSUME NEW w \in Writes, NEW c \in Children, CompleteError(w, c) PROVE TypeOK'
  <2> DEFINE r == [io[w] EXCEPT !.sent = @ \ {c}, !.bad = TRUE]
  <2>1. r \in Ios /\ r.st = "sub" /\ io[w].core \in Cores
    BY <1>0, <1>5, Zenon DEF CompleteError, IosOK, Ios
  <2>2. io' = Completed(w, r)
    BY <1>5 DEF CompleteError
  <2> HIDE DEF r
  <2>3. IoTypes'
    BY <1>0, <2>1, <2>2, CompletedOK, Types
  <2>4. DataTypes'
    <3>1. data' = data \/ data' = [data EXCEPT ![c] = @ \union {w}]
      BY <1>5 DEF CompleteError
    <3> QED BY <1>0, <3>1 DEF DataTypes
  <2>5. "IoError" \in ChildStates /\ RetireChildDevice(c, "IoError") /\ UNCHANGED <<csync, dev>>
    BY <1>5 DEF ChildStates, CompleteError
  <2>6. ChildTypes' /\ logging' \subseteq Children /\ RetireTypes' /\ TraversalTypes'
    BY <2>5, RetireOK
  <2>7. ChannelTypes'
    BY <1>0, <1>5, <2>1, <2>6 DEF CompleteError, LogsIn, ChannelTypes, LogTypes
  <2>8. LogTypes'
    BY <1>0, <1>5, <2>6 DEF CompleteError, LogWrite, LogTypes
  <2> QED BY <1>5, <2>3, <2>4, <2>6, <2>7, <2>8, Frames DEF CompleteError, TypeOK
<1>6. \A w \in Writes : io[w].core \in Cores
  BY <1>0 DEF IosOK, Ios
<1> QED BY <1>1, <1>2, <1>3, <1>4, <1>5, <1>6 DEF IoStep, Submit, Resubmit, SubmitRequest

(* The steps of the routines that retire a child, and of devices.          *)
LEMMA RetireStepOK ==
    ASSUME TypeOK, NEW c \in Children,
           \/ AdminFailed(c) \/ (\E own \in {"retire", "update"} : PersistLock(own, c))
           \/ RetireDetached(c) \/ RetirePaused(c) \/ RetireDestroy(c) \/ RetireResume(c)
           \/ CloseChild(c)
    PROVE  TypeOK'
PROOF
<1>0. /\ TravOK(trav) /\ ChildTypes /\ LogTypes /\ RetireTypes /\ RoutineTypes /\ JobTypes
      /\ StoreTypes
  BY Types DEF TypeOK
<1>1. CASE AdminFailed(c)
  <2>1. "Faulted" \in ChildStates /\ RetireChildDevice(c, "Faulted") /\ UNCHANGED <<csync, dev>>
    BY <1>1 DEF ChildStates, AdminFailed
  <2>2. ChildTypes' /\ logging' \subseteq Children /\ RetireTypes' /\ TraversalTypes'
    BY <2>1, RetireOK
  <2>3. LogTypes' /\ UNCHANGED chvars
    BY <1>0, <1>1, <2>2 DEF AdminFailed, LogTypes, chvars
  <2> QED BY <1>1, <2>2, <2>3, Frames DEF AdminFailed, TypeOK
<1>2. CASE \E own \in {"retire", "update"} : PersistLock(own, c)
  <2> PICK own \in {"retire", "update"} : PersistLock(own, c)
    BY <1>2
  <2>1. TraversalTypes'
    BY <1>0, TraversalStarts, Types DEF PersistLock, Traverse, Ops, Owners
  <2>2. StoreTypes'
    BY <1>0 DEF PersistLock, Persists, StoreTypes
  <2>3. \/ retire' = [retire EXCEPT ![c] = "saving"] /\ update' = update
        \/ update' = [update EXCEPT ![c] = "saving"] /\ retire' = retire
    BY DEF PersistLock
  <2>4. RetireTypes'
    BY <1>0, <2>3 DEF RetireTypes
  <2>5. RoutineTypes'
    <3>1. update' \in [Children -> {"no", "persist", "saving", "error"}]
      BY <1>0, <2>3 DEF RoutineTypes
    <3> QED BY <1>0, <3>1, Zenon DEF PersistLock, RoutineTypes
  <2> QED BY <2>1, <2>2, <2>4, <2>5, Frames DEF PersistLock, TypeOK
<1>3. CASE RetireDetached(c)
  <2>1. TraversalTypes'
    BY <1>0, <1>3, TraversalEnds, Types, Zenon DEF RetireDetached, Over, GoOn
  <2>2. RetireTypes'
    BY <1>0, <1>3 DEF RetireDetached, RetireTypes
  <2>3. RoutineTypes'
    <3>1. pausers' \subseteq Children
      BY <1>0, <1>3 DEF RetireDetached, RoutineTypes
    <3> QED BY <1>0, <1>3, <3>1, Zenon DEF RetireDetached, RoutineTypes
  <2> QED BY <1>3, <2>1, <2>2, <2>3, Frames DEF RetireDetached, TypeOK
<1>4. CASE RetirePaused(c)
  <2>1. TraversalTypes'
    BY <1>0, <1>4, TraversalStarts, Types DEF RetirePaused, Traverse, Ops, Owners
  <2>2. RetireTypes'
    BY <1>0, <1>4 DEF RetirePaused, RetireTypes
  <2> QED BY <1>4, <2>1, <2>2, Frames DEF RetirePaused, TypeOK
<1>5. CASE RetireDestroy(c)
  <2>1. TraversalTypes'
    BY <1>0, <1>5, TraversalEnds, Types, Zenon DEF RetireDestroy, Over, GoOn
  <2>2. ChildTypes'
    BY <1>0, <1>5 DEF RetireDestroy, ChildTypes
  <2>3. JobTypes'
    BY <1>0, <1>5 DEF RetireDestroy, JobTypes
  <2>4. RetireTypes'
    BY <1>0, <1>5 DEF RetireDestroy, RetireTypes
  <2> QED BY <1>5, <2>1, <2>2, <2>3, <2>4, Frames DEF RetireDestroy, TypeOK
<1>6. CASE RetireResume(c)
  <2>1. RetireTypes'
    BY <1>0, <1>6 DEF RetireResume, RetireTypes
  <2>2. RoutineTypes'
    <3>1. pausers' \subseteq Children
      BY <1>0, <1>6 DEF RetireResume, RoutineTypes
    <3>2. frozen' \in BOOLEAN
      BY <1>6, Zenon DEF RetireResume
    <3> QED BY <1>0, <1>6, <3>1, <3>2, Zenon DEF RetireResume, RoutineTypes
  <2> QED BY <1>6, <2>1, <2>2, Frames DEF RetireResume, TypeOK
<1>7. CASE CloseChild(c)
  <2>1. TravOK(Append(trav, Traversal("reconnect", "unplug", c)))
    BY <1>0, TraversalStarts DEF Ops, Owners
  <2>2. TraversalTypes'
    BY <1>0, <1>7, <2>1, Types, Zenon DEF CloseChild, Unplug, Traverse
  <2>3. ChildTypes'
    BY <1>0, <1>7 DEF CloseChild, ChildStates, ChildTypes
  <2> QED BY <1>7, <2>2, <2>3, Frames DEF CloseChild, TypeOK
<1> QED BY <1>1, <1>2, <1>3, <1>4, <1>5, <1>6, <1>7

(* The steps of a child that comes back and of its rebuild.                *)
LEMMA RebuildStepOK ==
    ASSUME TypeOK, NEW c \in Children,
           \/ OnlineChild(c) \/ RestartRebuild(c) \/ StartRebuild(c) \/ StartRebuildFails(c)
           \/ StopIoLog(c) \/ (\E w \in Writes : CopySegment(c, w)) \/ JobEnds(c)
           \/ RebuildUpdate(c)
    PROVE  TypeOK'
PROOF
<1>0. /\ TravOK(trav) /\ ChildTypes /\ LogTypes /\ DataTypes /\ RoutineTypes /\ JobTypes
  BY Types DEF TypeOK
<1>a. {"Open", "Closed", "Faulted"} \subseteq ChildStates
  BY DEF ChildStates
<1>b. ASSUME online' \in [Children -> {"no", "opened", "added", "connecting"}],
             UNCHANGED <<update, shut, nstate, pausers, frozen>>
      PROVE  RoutineTypes'
  BY <1>0, <1>b, ZenonT(30) DEF RoutineTypes
<1>1. CASE OnlineChild(c)
  <2>1. ChildTypes'
    BY <1>0, <1>1, <1>a DEF OnlineChild, ChildTypes
  <2>2. RoutineTypes'
    <3>1. online' \in [Children -> {"no", "opened", "added", "connecting"}]
      BY <1>0, <1>1 DEF OnlineChild, RoutineTypes
    <3> QED BY <1>1, <1>b, <3>1, ZenonT(30) DEF OnlineChild
  <2> QED BY <1>1, <2>1, <2>2, Frames, Zenon DEF OnlineChild, TypeOK
<1>2. CASE NewRebuild(c)
  <2>1. TraversalTypes'
    BY <1>0, <1>2, TraversalStarts, Types, Zenon DEF NewRebuild, Traverse, Ops, Owners
  <2>2. JobTypes'
    <3>1. job' = [job EXCEPT ![c] = "created"] /\ todo' = todo
      BY <1>2, Zenon DEF NewRebuild
    <3>2. PICK s \in Children : src' = [src EXCEPT ![c] = s]
      BY <1>2, Zenon DEF NewRebuild, Sources
    <3> QED BY <1>0, <3>1, <3>2 DEF JobTypes
  <2>3. RoutineTypes'
    <3>1. online' \in [Children -> {"no", "opened", "added", "connecting"}]
      BY <1>0, <1>2, Zenon DEF NewRebuild, RoutineTypes
    <3> QED BY <1>2, <1>b, <3>1, Zenon DEF NewRebuild
  <2> QED BY <1>2, <2>1, <2>2, <2>3, Frames DEF NewRebuild, TypeOK
<1>3. CASE StartRebuildFails(c)
  <2>1. TravOK(Append(trav, Traversal("reconnect", "unplug", c)))
    BY <1>0, TraversalStarts DEF Ops, Owners
  <2>2. PICK to \in {"Faulted", "Closed"} : Closed(c, to)
    BY <1>3, Zenon DEF StartRebuildFails
  <2>3. TraversalTypes'
    BY <1>0, <2>1, <2>2, Types, ZenonT(30) DEF Closed, Unplug, Traverse
  <2>4. ChildTypes'
    BY <1>0, <1>3, <1>a, <2>2 DEF Closed, Gone, ChildTypes, StartRebuildFails
  <2>5. RoutineTypes'
    <3>1. online' \in [Children -> {"no", "opened", "added", "connecting"}]
      BY <1>0, <1>3, ZenonT(30) DEF StartRebuildFails, RoutineTypes
    <3> QED BY <1>3, <1>b, <3>1, Zenon DEF StartRebuildFails
  <2> QED BY <1>3, <2>3, <2>4, <2>5, Frames, Zenon DEF StartRebuildFails, TypeOK
<1>4. CASE StopIoLog(c)
  <2>1. TraversalTypes'
    BY <1>0, <1>4, TraversalEnds, Types, Zenon DEF StopIoLog, Over, GoOn
  <2>2. JobTypes'
    <3>1. job' \in [Children -> {"none", "created", "running", "completed", "failed", "stopped"}]
      BY <1>0, <1>4 DEF StopIoLog, JobTypes
    <3>2. todo' \in [Children -> SUBSET Writes] /\ src' \in [Children -> Children]
      BY <1>0, <1>4 DEF StopIoLog, JobTypes, LogTypes
    <3> QED BY <3>1, <3>2 DEF JobTypes
  <2>3. LogTypes'
    BY <1>0, <1>4 DEF StopIoLog, LogTypes
  <2>4. RoutineTypes'
    <3>1. online' \in [Children -> {"no", "opened", "added", "connecting"}]
      BY <1>0, <1>4 DEF StopIoLog, RoutineTypes
    <3> QED BY <1>4, <1>b, <3>1 DEF StopIoLog
  <2> QED BY <1>4, <2>1, <2>2, <2>3, <2>4, Frames DEF StopIoLog, TypeOK
<1>5. CASE \E w \in Writes : CopySegment(c, w)
  <2> PICK w \in Writes : CopySegment(c, w)
    BY <1>5
  <2>1. DataTypes'
    BY <1>0, Zenon DEF CopySegment, DataTypes
  <2>2. JobTypes'
    BY <1>0 DEF CopySegment, JobTypes
  <2> QED BY <2>1, <2>2, Frames, Zenon DEF CopySegment, TypeOK
<1>6. CASE JobEnds(c)
  <2>1. PICK st \in {"completed", "failed", "stopped"} : job' = [job EXCEPT ![c] = st]
    BY <1>6, Zenon DEF JobEnds
  <2>2. JobTypes'
    BY <1>0, <1>6, <2>1 DEF JobEnds, JobTypes
  <2> QED BY <1>6, <2>2, Frames, Zenon DEF JobEnds, TypeOK
<1>7. CASE RebuildUpdate(c)
  <2>1. TravOK(Append(trav, Traversal("reconnect", "update", c)))
    BY <1>0, TraversalStarts DEF Ops, Owners
  <2>2. TraversalTypes'
    BY <1>0, <1>7, <2>1, Types, ZenonT(30) DEF RebuildUpdate, RemoveJob, Traverse
  <2>3. JobTypes'
    <3>1. job' = job \/ job' = [job EXCEPT ![c] = "none"]
      BY <1>7 DEF RebuildUpdate, RemoveJob
    <3> QED BY <1>0, <1>7, <3>1 DEF RebuildUpdate, JobTypes
  <2>4. ChildTypes'
    <3>1. dev' = dev \/ dev' = Gone(c)
      BY <1>7 DEF RebuildUpdate, childvars
    <3>2. cstate' = cstate \/ cstate' = [cstate EXCEPT ![c] = "Faulted"]
      BY <1>7 DEF RebuildUpdate, childvars
    <3>3. csync' = csync \/ csync' = [csync EXCEPT ![c] = "Synced"]
      BY <1>7 DEF RebuildUpdate, childvars
    <3>4. dev' \in [Children -> {"open", "closing", "gone"}]
      BY <1>0, <3>1 DEF ChildTypes, Gone
    <3>5. cstate' \in [Children -> ChildStates]
      BY <1>0, <1>a, <3>2 DEF ChildTypes
    <3>6. csync' \in [Children -> {"Synced", "OutOfSync"}]
      BY <1>0, <3>3 DEF ChildTypes
    <3> QED BY <3>4, <3>5, <3>6 DEF ChildTypes
  <2>5. RoutineTypes'
    <3>1. update' = update \/ update' = [update EXCEPT ![c] = "persist"]
      BY <1>7 DEF RebuildUpdate
    <3>2. update' \in [Children -> {"no", "persist", "saving", "error"}]
      BY <1>0, <3>1 DEF RoutineTypes
    <3> QED BY <1>0, <1>7, <3>2, ZenonT(30) DEF RebuildUpdate, RoutineTypes
  <2> QED BY <1>7, <2>2, <2>3, <2>4, <2>5, Frames DEF RebuildUpdate, TypeOK
<1> QED BY <1>1, <1>2, <1>3, <1>4, <1>5, <1>6, <1>7 DEF StartRebuild, RestartRebuild

(* A core handles a message of a traversal.                                *)
LEMMA HopOK ==
    ASSUME TypeOK, NEW k \in Cores, NEW i \in 1..Len(trav),
           \/ DetachDevice(i, k) \/ DisconnectDetached(i, k) \/ SetIoMode(i, k)
           \/ ReconnectAll(i, k) \/ ReconnectIoLogs(i, k) \/ AbortFrozen(i, k)
    PROVE  TypeOK'
PROOF
<1>0. IosOK(io) /\ TravOK(trav) /\ ChildTypes /\ LogTypes /\ ChannelTypes
  BY Types DEF TypeOK
<1>v. TraversalTypes'
  <2>1. Visits(i, k)
    BY DEF DetachDevice, DisconnectDetached, SetIoMode, ReconnectAll, ReconnectIoLogs, AbortFrozen
  <2> QED BY <1>0, <2>1, Visited, Types
<1>1. CASE DetachDevice(i, k)
  <2>1. ChannelTypes'
    BY <1>0, <1>1, ZenonT(30) DEF DetachDevice, LogsIn, ChannelTypes, LogTypes
  <2> QED BY <1>1, <1>v, <2>1, Frames, Zenon DEF DetachDevice, TypeOK
<1>2. CASE DisconnectDetached(i, k)
  BY <1>2, <1>v, Frames DEF DisconnectDetached, TypeOK
<1>3. CASE SetIoMode(i, k)
  <2>1. ChannelTypes'
    BY <1>0, <1>3 DEF SetIoMode, ChannelTypes
  <2>2. IosOK(io)'
    <3>1. ASSUME NEW w \in Writes, io[w].st = "frozen"
          PROVE  [io[w] EXCEPT !.st = "ready"] \in Ios /\ io[w].sent = {}
      BY <1>0, <3>1 DEF IosOK, Ios
    <3>2. io' = [w \in Writes |->
                   IF trav[i].op = "Normal" /\ io[w].st = "frozen" /\ io[w].core = k
                   THEN [io[w] EXCEPT !.st = "ready"] ELSE io[w]]
      BY <1>3 DEF SetIoMode
    <3>3. \A w \in Writes : \/ io'[w] = io[w]
                            \/ io[w].st = "frozen" /\ io'[w] = [io[w] EXCEPT !.st = "ready"]
      BY <3>2
    <3>4. \A w \in Writes : io'[w] \in Ios
      BY <1>0, <3>1, <3>3, Zenon DEF IosOK
    <3>5. \A w \in Writes : io'[w].st = "sub" <=> io'[w].sent # {}
      BY <1>0, <3>1, <3>3, ZenonT(30) DEF IosOK, Ios
    <3>6. io' \in [Writes -> Ios]
      BY <3>2, <3>4
    <3> QED BY <3>5, <3>6 DEF IosOK
  <2> QED BY <1>3, <1>v, <2>1, <2>2, Frames, Types DEF SetIoMode, TypeOK
<1>4. CASE ReconnectAll(i, k)
  <2>1. PICK failed \in SUBSET Faulty :
          LET healthy == {c \in Children : IsHealthy(c)}
              rebuilding == IF healthy \subseteq failed THEN {} ELSE RebuildingIn(cstate)
          IN /\ readers' = [readers EXCEPT ![k] = healthy \ failed]
             /\ writers' = [writers EXCEPT ![k] = (healthy \union rebuilding) \ failed]
             /\ cstate' = [c \in Children |-> IF c \in failed THEN "CantOpen" ELSE cstate[c]]
    BY <1>4, Zenon DEF ReconnectAll
  <2>2. ChildTypes'
    BY <1>0, <1>4, <2>1, Zenon DEF ChildStates, ChildTypes, ReconnectAll
  <2>3. readers' \in [Cores -> SUBSET Children] /\ writers' \in [Cores -> SUBSET Children]
    BY <1>0, <2>1, Zenon DEF RebuildingIn, ChannelTypes
  <2>4. logs' \in [Cores -> SUBSET Children]
    BY <1>0, <1>4, Zenon DEF ReconnectAll, LogsIn, ChannelTypes, LogTypes
  <2>5. ChannelTypes'
    BY <1>0, <1>4, <2>3, <2>4, Zenon DEF ReconnectAll, ChannelTypes
  <2> QED BY <1>4, <1>v, <2>2, <2>5, Frames, Zenon DEF ReconnectAll, TypeOK
<1>5. CASE ReconnectIoLogs(i, k)
  <2>1. ChannelTypes'
    BY <1>0, <1>5, Zenon DEF ReconnectIoLogs, LogsIn, ChannelTypes, LogTypes
  <2> QED BY <1>5, <1>v, <2>1, Frames, Zenon DEF ReconnectIoLogs, TypeOK
<1>6. CASE AbortFrozen(i, k)
  <2>1. IosOK(io)'
    <3> DEFINE r == [NewIo EXCEPT !.st = "failed"]
    <3>1. 1 \in Cores
      BY CoresAssumption DEF Cores
    <3>2. r \in Ios /\ r.st # "sub" /\ r.sent = {}
      BY <3>1, Zenon DEF NewIo, Ios
    <3>3. io' = [w \in Writes |-> IF io[w].st = "frozen" /\ io[w].core = k THEN r ELSE io[w]]
      BY <1>6 DEF AbortFrozen
    <3> HIDE DEF r
    <3> QED BY <1>0, <3>2, <3>3, Zenon DEF IosOK
  <2> QED BY <1>6, <1>v, <2>1, Frames, Types DEF AbortFrozen, TypeOK
<1> QED BY <1>1, <1>2, <1>3, <1>4, <1>5, <1>6

\* What the proofs use of numbers and of finite sets.
SetFacts ==
    \A S \in SUBSET Children :
        /\ S # {} => \E c \in S : \A d \in S : c <= d
        /\ Cardinality(S) > 1 => \A c : S \ {c} # {}
        /\ Cardinality(S) <= 1 => \A c, d \in S : c = d

(* The steps of a persist call.                                            *)
LEMMA PersistOK ==
    ASSUME TypeOK, PersistModify \/ PersistSaved \/ PersistFailed \/ PersistDone \/ Republish
    PROVE  TypeOK'
PROOF
<1>0. /\ TravOK(trav) /\ persist \in Persists /\ info \in Records /\ store \in Records
      /\ persist.child \in Children /\ RetireTypes /\ RoutineTypes /\ JobTypes /\ StoreTypes
  BY Types DEF TypeOK, StoreTypes, Persists
<1>1. Idle \in Persists
  BY ChildrenAssumption DEF Idle, Persists, Children
<1>2. CASE PersistModify
  <2>1. trav # << >>
    BY <1>2 DEF PersistModify, Over
  <2>2. TravOK(Tail(trav)) /\ TravOK(Append(Tail(trav), Traversal("Normal", "persist", persist.child)))
    BY <1>0, <2>1, TraversalEnds, TraversalStarts, Zenon DEF Ops, Owners
  <2>3. TraversalTypes'
    BY <1>2, <2>2, Types, Zenon DEF PersistModify, GoOn, GoOnWith
  <2>4. persist' \in Persists
    <3>1. \/ persist' = [persist EXCEPT !.st = "thawing"]
          \/ persist' = [persist EXCEPT !.st = "saving", !.expect = info.healthy]
          \/ persist' = [persist EXCEPT !.st = "saving"]
      BY <1>2 DEF PersistModify
    <3>2. info.healthy \in SUBSET Children
      BY <1>0 DEF Records
    <3> QED BY <1>0, <3>1, <3>2, Zenon DEF Persists
  <2>5. info' \in Records
    <3>1. \/ info' = info
          \/ info' = [info EXCEPT !.healthy = @ \ {persist.child}]
          \/ info' = [info EXCEPT !.healthy = @ \union {persist.child}]
      BY <1>2 DEF PersistModify
    <3> QED BY <1>0, <3>1 DEF Records
  <2>6. StoreTypes'
    BY <1>0, <1>2, <2>4, <2>5 DEF PersistModify, StoreTypes
  <2> QED BY <1>2, <2>3, <2>6, Frames DEF PersistModify, TypeOK
<1>3. CASE PersistSaved
  <2>1. TraversalTypes'
    BY <1>0, <1>3, TraversalStarts, Types DEF PersistSaved, Traverse, Ops, Owners
  <2>2. persist' = [persist EXCEPT !.st = "thawing"]
    BY <1>3 DEF PersistSaved
  <2>3. persist' \in Persists
    BY <1>0, <2>2 DEF Persists
  <2>4. StoreTypes'
    BY <1>0, <1>3, <2>3 DEF PersistSaved, StoreTypes
  <2> QED BY <1>3, <2>1, <2>4, Frames DEF PersistSaved, TypeOK
<1>4. CASE PersistFailed
  <2>1. StoreTypes'
    <3>1. info' = info \/ info' = [info EXCEPT !.dss = store.dss]
      BY <1>4 DEF PersistFailed
    <3>2. store' = store \/ store' = info
      BY <1>4 DEF PersistFailed
    <3>3. info' \in Records /\ store' \in Records
      BY <1>0, <3>1, <3>2 DEF Records
    <3> QED BY <1>0, <1>1, <1>4, <3>3 DEF PersistFailed, StoreTypes
  <2>2. RetireTypes'
    BY <1>0, <1>4 DEF PersistFailed, RetireTypes
  <2>3. RoutineTypes'
    <3>1. shut' = shut \/ shut' = [shut EXCEPT !.st = "queued"]
      BY <1>4 DEF PersistFailed
    <3>2. shut' \in Shuts
      BY <1>0, <3>1 DEF RoutineTypes, Shuts
    <3>3. update' \in [Children -> {"no", "persist", "saving", "error"}]
      BY <1>0, <1>4 DEF PersistFailed, RoutineTypes
    <3> QED BY <1>0, <1>4, <3>2, <3>3, Zenon DEF PersistFailed, RoutineTypes
  <2> QED BY <1>4, <2>1, <2>2, <2>3, Frames DEF PersistFailed, TypeOK
<1>5. CASE PersistDone
  <2>1. trav # << >>
    BY <1>5, Zenon DEF PersistDone, Over
  <2>2. /\ TravOK(Append(Tail(trav), Traversal("detach", "retire", persist.child)))
        /\ TravOK(Append(Tail(trav), Traversal("reconnect", "update", persist.child)))
    BY <1>0, <2>1, TraversalEnds, TraversalStarts, Zenon DEF Ops, Owners
  <2>3. TraversalTypes'
    BY <1>5, <2>2, Types, Zenon DEF PersistDone, GoOnWith
  <2>4. \/ /\ retire' = [retire EXCEPT ![persist.child] = "detach"]
           /\ update' = update /\ job' = job
        \/ /\ update' = [update EXCEPT ![persist.child] = "no"]
           /\ job' = [job EXCEPT ![persist.child] = "none"] /\ retire' = retire
    BY <1>5 DEF PersistDone
  <2>5. RetireTypes'
    BY <1>0, <2>4 DEF RetireTypes
  <2>6. JobTypes'
    BY <1>0, <1>5, <2>4 DEF PersistDone, JobTypes
  <2>7. RoutineTypes'
    <3>1. update' \in [Children -> {"no", "persist", "saving", "error"}]
      BY <1>0, <2>4 DEF RoutineTypes
    <3> QED BY <1>0, <1>5, <3>1, Zenon DEF PersistDone, RoutineTypes
  <2>8. StoreTypes'
    BY <1>0, <1>1, <1>5 DEF PersistDone, StoreTypes
  <2> QED BY <1>5, <2>3, <2>5, <2>6, <2>7, <2>8, Frames DEF PersistDone, TypeOK
<1>6. CASE Republish
  <2>1. store' = [store EXCEPT !.dss = TRUE] /\ taken' = store.healthy
    BY <1>6 DEF Republish
  <2>2. store' \in Records /\ taken' \subseteq Children
    BY <1>0, <2>1, Zenon DEF Records
  <2>3. StoreTypes'
    BY <1>0, <1>6, <2>2 DEF Republish, StoreTypes
  <2> QED BY <1>6, <2>3, Frames DEF Republish, TypeOK
<1> QED BY <1>2, <1>3, <1>4, <1>5, <1>6

(* The first of some children.                                             *)
LEMMA FirstIn ==
    ASSUME SetFacts, NEW S \in SUBSET Children, S # {}
    PROVE  First(S) \in S /\ \A d \in S : First(S) <= d
PROOF
  BY DEF SetFacts, First

(* The steps of a self-shutdown.                                           *)
LEMMA ShutdownOK ==
    ASSUME SetFacts, TypeOK,
           ShutdownStart \/ ShutdownDetached \/ ShutdownAborted \/ ShutdownClosed
    PROVE  TypeOK'
PROOF
<1>0. TravOK(trav) /\ shut \in Shuts /\ ChildTypes /\ RoutineTypes /\ JobTypes
  BY Types DEF TypeOK, RoutineTypes
<1>1. ASSUME NEW left \in SUBSET Children, NEW s, TravOK(s)
      PROVE  NextOf(left) \in Shuts /\ TravOK(Append(s, TraversalOf(left)))
  <2>1. NextOf(left) \in Shuts
    BY DEF NextOf, Shuts
  <2>2. 1 \in Children
    BY ChildrenAssumption DEF Children
  <2>3. left # {} => First(left) \in Children
    BY FirstIn
  <2>4. CASE left = {}
    BY <1>1, <2>1, <2>2, <2>4, TraversalStarts DEF TraversalOf, Ops, Owners
  <2>5. CASE left # {}
    BY <1>1, <2>1, <2>3, <2>5, TraversalStarts, Zenon DEF TraversalOf, Ops, Owners
  <2> QED BY <2>1, <2>4, <2>5
<1>r. ASSUME shut' \in Shuts, nstate' \in {"Open", "ShuttingDown", "Shutdown"},
             UNCHANGED <<online, update, pausers, frozen>>
      PROVE  RoutineTypes'
  BY <1>0, <1>r, Zenon DEF RoutineTypes
<1>2. CASE ShutdownStart
  <2> DEFINE left == {c \in Children : dev[c] # "gone"}
  <2>1. left \in SUBSET Children /\ shut' = NextOf(left) /\ trav' = Append(trav, TraversalOf(left))
    BY <1>2 DEF ShutdownStart
  <2> HIDE DEF left
  <2>2. shut' \in Shuts /\ TraversalTypes'
    BY <1>0, <1>1, <2>1, Types
  <2>3. RoutineTypes'
    BY <1>2, <1>r, <2>2 DEF ShutdownStart
  <2> QED BY <1>2, <2>2, <2>3, Frames DEF ShutdownStart, TypeOK
<1>3. CASE ShutdownDetached
  <2> DEFINE left == shut.left \ {First(shut.left)}
  <2>1. /\ left \in SUBSET Children /\ shut' = NextOf(left)
        /\ trav # << >> /\ trav' = Append(Tail(trav), TraversalOf(left))
    BY <1>0, <1>3, Zenon DEF ShutdownDetached, Over, Shuts
  <2> HIDE DEF left
  <2>2. TravOK(Tail(trav))
    BY <1>0, <2>1, TraversalEnds
  <2>3. shut' \in Shuts /\ TraversalTypes'
    BY <1>1, <2>1, <2>2, Types
  <2>4. ChildTypes'
    BY <1>0, <1>3, Zenon DEF ShutdownDetached, ChildTypes
  <2>5. RoutineTypes'
    <3>1. nstate' \in {"Open", "ShuttingDown", "Shutdown"}
      BY <1>0, <1>3, Zenon DEF ShutdownDetached, RoutineTypes
    <3> QED BY <1>3, <1>r, <2>3, <3>1, Zenon DEF ShutdownDetached
  <2> QED BY <1>3, <2>3, <2>4, <2>5, Frames, Zenon DEF ShutdownDetached, TypeOK
<1>4. CASE ShutdownAborted
  <2>1. TraversalTypes'
    BY <1>0, <1>4, TraversalEnds, Types DEF ShutdownAborted, Over, GoOn
  <2>2. shut' \in Shuts
    BY <1>0, <1>4 DEF ShutdownAborted, Shuts
  <2>3. ChildTypes'
    BY <1>0, <1>4 DEF ShutdownAborted, ChildTypes
  <2>4. JobTypes'
    BY <1>0, <1>4 DEF ShutdownAborted, JobTypes
  <2>5. RoutineTypes'
    <3>1. nstate' \in {"Open", "ShuttingDown", "Shutdown"}
      BY <1>0, <1>4 DEF ShutdownAborted, RoutineTypes
    <3> QED BY <1>4, <1>r, <2>2, <3>1 DEF ShutdownAborted
  <2> QED BY <1>4, <2>1, <2>3, <2>4, <2>5, Frames DEF ShutdownAborted, TypeOK
<1>5. CASE ShutdownClosed
  <2>1. shut' \in Shuts
    BY <1>0, <1>5 DEF ShutdownClosed, Shuts
  <2>2. RoutineTypes'
    <3>1. nstate' \in {"Open", "ShuttingDown", "Shutdown"}
      BY <1>0, <1>5 DEF ShutdownClosed, RoutineTypes
    <3> QED BY <1>5, <1>r, <2>1, <3>1 DEF ShutdownClosed
  <2> QED BY <1>5, <2>2, Frames DEF ShutdownClosed, TypeOK
<1> QED BY <1>2, <1>3, <1>4, <1>5

(* A nexus in service.                                                     *)
LEMMA InitOK == Init => TypeOK
PROOF
<1> SUFFICES ASSUME Init PROVE TypeOK
  OBVIOUS
<1>1. 1 \in Cores /\ 1 \in Children
  BY CoresAssumption, ChildrenAssumption DEF Cores, Children
<1>2. NewIo \in Ios /\ NewIo.st = "new" /\ NewIo.sent = {}
  BY <1>1, Zenon DEF NewIo, Ios
<1>3. Idle \in Persists
  BY <1>1 DEF Idle, Persists
<1>4. Joined \subseteq Children
  BY DEF Joined
<1>5. StoreTypes
  BY <1>3, <1>4 DEF Init, Records, StoreTypes
<1>6. TraversalTypes
  BY DEF Init, TraversalTypes
<1>7. IoTypes
  BY <1>2, ZenonT(30) DEF Init, IoTypes
<1>8. ChildTypes
  BY DEF Init, ChildStates, ChildTypes
<1>9. LogTypes /\ DataTypes
  BY DEF Init, LogTypes, DataTypes
<1>10. ChannelTypes
  BY <1>4 DEF Init, ChannelTypes
<1>11. RetireTypes
  BY DEF Init, RetireTypes
<1>12. RoutineTypes
  <2>1. frozen \in BOOLEAN
    BY Zenon DEF Init
  <2>2. shut \in Shuts
    BY Zenon DEF Init, Shuts
  <2>3. online \in [Children -> {"no", "opened", "added", "connecting"}]
    BY DEF Init
  <2>4. update \in [Children -> {"no", "persist", "saving", "error"}]
    BY DEF Init
  <2> QED BY <2>1, <2>2, <2>3, <2>4, Zenon DEF Init, RoutineTypes
<1>13. JobTypes
  BY DEF Init, JobTypes
<1> QED BY <1>5, <1>6, <1>7, <1>8, <1>9, <1>10, <1>11, <1>12, <1>13 DEF TypeOK

(* Every step keeps the types.                                             *)
LEMMA NextOK == SetFacts /\ TypeOK /\ [Next]_vars => TypeOK'
PROOF
<1> SUFFICES ASSUME SetFacts, TypeOK, [Next]_vars PROVE TypeOK'
  OBVIOUS
<1>1. CASE IoStep
  BY <1>1, IoStepOK
<1>2. CASE ChildStep
  BY <1>2, RetireStepOK, RebuildStepOK DEF ChildStep
<1>3. CASE NexusStep
  BY <1>3, HopOK, PersistOK, ShutdownOK DEF NexusStep, Hop
<1>4. CASE UNCHANGED vars
  BY <1>4, Frames DEF vars, childvars, logvars, chvars, routines, jobvars, storevars, TypeOK
<1> QED BY <1>1, <1>2, <1>3, <1>4 DEF Next

-----------------------------------------------------------------------------
(* The record in the store always has a healthy child.  The argument needs *)
(* the record in memory as well, of which the store gets copies.           *)
SomeHealthy == info.healthy # {} /\ store.healthy # {}

(* A nexus in service has a child that takes part in I/O.                  *)
LEMMA InitHealthy == Init => SomeHealthy
PROOF
<1>1. Joined # {}
  BY AddedAssumption, ZenonT(30) DEF Joined, Children
<1> QED BY <1>1 DEF Init, SomeHealthy

(* No other step than those of persist touches the records.                *)
LEMMA RecordsKept ==
    ASSUME TypeOK, Next
    PROVE  \/ UNCHANGED <<info, store>>
           \/ PersistModify \/ PersistSaved \/ PersistFailed \/ Republish
PROOF
<1>1. CASE IoStep
  <2> PICK w \in Writes :
        \/ \E k : SubmitRequest(w, k)
        \/ \E c \in Children : CompleteOk(w, c) \/ CompleteError(w, c)
    BY <1>1, Zenon DEF IoStep, Submit, Resubmit
  <2>1. ASSUME NEW k, SubmitRequest(w, k) PROVE UNCHANGED storevars
    BY <2>1, ZenonT(30) DEF SubmitRequest, FreezeSubmission, SubmitAll, SubmitRefused
  <2>2. ASSUME NEW c, CompleteOk(w, c) \/ CompleteError(w, c) PROVE UNCHANGED storevars
    BY <2>2, Zenon DEF CompleteOk, CompleteError
  <2> QED BY <2>1, <2>2 DEF storevars
<1>2. CASE ChildStep
  <2> PICK c \in Children :
        \/ \E own \in {"retire", "update"} : PersistLock(own, c)
        \/ AdminFailed(c) \/ RetireDetached(c) \/ RetirePaused(c) \/ RetireDestroy(c)
        \/ RetireResume(c) \/ CloseChild(c)
        \/ OnlineChild(c) \/ RestartRebuild(c) \/ StartRebuild(c) \/ StartRebuildFails(c)
        \/ StopIoLog(c) \/ (\E w \in Writes : CopySegment(c, w))
        \/ JobEnds(c) \/ RebuildUpdate(c)
    BY <1>2 DEF ChildStep
  <2>1. CASE \E own \in {"retire", "update"} : PersistLock(own, c)
    BY <2>1, ZenonT(30) DEF PersistLock
  <2>2. CASE \/ AdminFailed(c) \/ RetireDetached(c) \/ RetirePaused(c) \/ RetireDestroy(c)
             \/ RetireResume(c) \/ CloseChild(c)
    BY <2>2, ZenonT(30) DEF AdminFailed, RetireDetached, RetirePaused, RetireDestroy, RetireResume,
                CloseChild, storevars
  <2>3. CASE \/ OnlineChild(c) \/ RestartRebuild(c) \/ StartRebuild(c) \/ StartRebuildFails(c)
             \/ StopIoLog(c) \/ (\E w \in Writes : CopySegment(c, w))
             \/ JobEnds(c) \/ RebuildUpdate(c)
    BY <2>3, Zenon DEF OnlineChild, RestartRebuild, StartRebuild, NewRebuild, StartRebuildFails,
                StopIoLog, CopySegment, JobEnds, RebuildUpdate, storevars
  <2> QED BY <2>1, <2>2, <2>3
<1>3. CASE NexusStep
  <2>1. CASE \E k \in Cores : Hop(k)
    BY <2>1 DEF Hop, DetachDevice, DisconnectDetached, SetIoMode, ReconnectAll,
                ReconnectIoLogs, AbortFrozen, storevars
  <2>2. CASE ShutdownStart \/ ShutdownDetached \/ ShutdownAborted \/ ShutdownClosed \/ PersistDone
    BY <2>2 DEF ShutdownStart, ShutdownDetached, ShutdownAborted, ShutdownClosed, PersistDone,
                storevars
  <2> QED BY <1>3, <2>1, <2>2 DEF NexusStep
<1> QED BY <1>1, <1>2, <1>3 DEF Next

(* A child is only taken out of the record in memory if there is another;  *)
(* the store gets that record, or keeps its own, whether the call          *)
(* succeeds, fails, or fails after the store has done what was asked.      *)
LEMMA NextHealthy == SetFacts /\ TypeOK /\ SomeHealthy /\ [Next]_vars => SomeHealthy'
PROOF
<1> SUFFICES ASSUME SetFacts, TypeOK, SomeHealthy, [Next]_vars PROVE SomeHealthy'
  OBVIOUS
<1>0. info \in Records /\ store \in Records
  BY DEF TypeOK, StoreTypes
<1>1. CASE UNCHANGED <<info, store>>
  BY <1>1 DEF SomeHealthy
<1>2. CASE PersistModify
  <2>1. CASE Cardinality(info.healthy) > 1 /\ info' = [info EXCEPT !.healthy = @ \ {persist.child}]
    <3>1. info.healthy \in SUBSET Children
      BY <1>0 DEF Records
    <3>2. info.healthy \ {persist.child} # {}
      BY <2>1, <3>1 DEF SetFacts
    <3> QED BY <1>0, <1>2, <2>1, <3>2 DEF PersistModify, Records, SomeHealthy
  <2>2. CASE info' = info \/ info' = [info EXCEPT !.healthy = @ \union {persist.child}]
    BY <1>0, <1>2, <2>2 DEF PersistModify, Records, SomeHealthy
  <2> QED BY <1>2, <2>1, <2>2 DEF PersistModify
<1>3. CASE PersistSaved
  BY <1>3 DEF PersistSaved, SomeHealthy
<1>4. CASE PersistFailed
  <2>1. info' = info \/ info' = [info EXCEPT !.dss = store.dss]
    BY <1>4 DEF PersistFailed
  <2>2. store' = store \/ store' = info
    BY <1>4 DEF PersistFailed
  <2> QED BY <1>0, <2>1, <2>2 DEF Records, SomeHealthy
<1>5. CASE Republish
  <2>1. store' = [store EXCEPT !.dss = TRUE] /\ info' = info
    BY <1>5 DEF Republish
  <2> QED BY <1>0, <2>1 DEF Records, SomeHealthy
<1>6. CASE UNCHANGED vars
  BY <1>6 DEF vars, SomeHealthy
<1> QED BY <1>1, <1>2, <1>3, <1>4, <1>5, <1>6, RecordsKept
=============================================================================
