------------------------------ MODULE Reservation ------------------------------
(***************************************************************************)
(* NVMe reservations on a replica (nexus_child.rs): before a nexus uses a  *)
(* remote child it registers its key with the namespace, acquires the      *)
(* reservation, preempting the holder if its policy says so, and checks    *)
(* that it holds it.  Nexuses on several hosts may do so at the same time, *)
(* for the same replica; every command is a step of its own, answered by   *)
(* the target that exports the replica.                                    *)
(*                                                                         *)
(* Keys of different hosts differ, as the control plane chooses them.      *)
(***************************************************************************)
EXTENDS Naturals, FiniteSets

CONSTANTS
    Hosts,      \* hosts with a nexus on the replica
    KeysOf,     \* KeysOf[h]: the keys the nexuses on h are given, not "none"
    Types,      \* reservation types that are asked for
    MaxAcquires \* MaxAcquires[h]: bound on the acquisitions of h

VARIABLES
    reg,        \* target: the key each host is registered with, or "none"
    ns,         \* target: holder, key and type of the reservation
    host,       \* reservation_acquire on each host: where it is and its parameters
    acquires    \* acquisitions so far

resvVars == <<reg, ns, host, acquires>>

AllRegs == {"WriteExclusiveAllRegs", "ExclusiveAccessAllRegs"}
AllKeys == UNION {KeysOf[h] : h \in Hosts}
NoHolder == [holder |-> "none", key |-> "none", type |-> "none"]

\* NexusNvmeParams: an explicit preempt key goes with the ArgKey policy only
\* (reservations_valid).
Params(h) ==
    {p \in [key : KeysOf[h], type : Types, policy : {"ArgKey", "Holder"},
            preempt : {"none"} \cup (AllKeys \ KeysOf[h])] :
        p.policy = "Holder" => p.preempt = "none"}

NoParams(h) == [key |-> "none", type |-> "none", policy |-> "ArgKey", preempt |-> "none"]
Report == [holder : Hosts \cup {"none"}, key : AllKeys \cup {"none"}, type : Types \cup {"none"}]

ResvInit ==
    /\ reg = [h \in Hosts |-> "none"]
    /\ ns = NoHolder
    /\ host = [h \in Hosts |-> [pc |-> "idle", args |-> NoParams(h), seen |-> NoHolder,
                                res |-> "none", alone |-> TRUE]]
    /\ acquires = [h \in Hosts |-> 0]

-----------------------------------------------------------------------------
(* The target (external: lib/nvmf of SPDK).                                *)

IsHolder(h) == ns.holder # "none" /\ (h = ns.holder \/ (ns.type \in AllRegs /\ reg[h] # "none"))

\* Registrants R are removed.  A reservation of all registrants passes to
\* another one, any other ends with its holder.
Removed(R) ==
    LET left == {g \in Hosts \ R : reg[g] # "none"} IN
    /\ reg' = [g \in Hosts |-> IF g \in R THEN "none" ELSE reg[g]]
    /\ \/ ns.holder \notin R /\ ns' = ns
       \/ ns.holder \in R /\ (ns.type \notin AllRegs \/ left = {}) /\ ns' = NoHolder
       \/ /\ ns.holder \in R /\ ns.type \in AllRegs
          /\ \E g \in left : ns' = [ns EXCEPT !.holder = g]

\* REGISTER with REPLACE_KEY, ignoring the existing key: the key of the
\* reservation itself stays what it was.
Register(h, key) == reg' = [reg EXCEPT ![h] = key] /\ UNCHANGED ns

\* ACQUIRE: ok if there is no holder, or the host holds this type already.
AcquireOk(h, key, type) ==
    /\ reg[h] = key
    /\ IF ns.holder = "none" THEN ns' = [holder |-> h, key |-> key, type |-> type]
       ELSE IsHolder(h) /\ ns.type = type /\ UNCHANGED ns
    /\ UNCHANGED reg
AcquireConflict(h, key, type) ==
    /\ reg[h] # key \/ (ns.holder # "none" /\ ~(IsHolder(h) /\ ns.type = type))
    /\ UNCHANGED <<reg, ns>>

\* PREEMPT: removes the registrants with the given key, and takes over the
\* reservation if that was its key.
With(key) == {g \in Hosts : reg[g] = key}
PreemptOk(h, key, prkey, type) ==
    /\ reg[h] = key
    /\ \/ /\ ns.holder = "none"
          /\ Removed(With(prkey))
       \/ /\ ns.holder = h /\ ns.type \notin AllRegs /\ ns.key = prkey
          /\ ns' = [ns EXCEPT !.type = type]
          /\ UNCHANGED reg
       \/ /\ ns.holder \notin {h, "none"} /\ ns.type \notin AllRegs /\ ns.key = prkey
          /\ reg' = [g \in Hosts |-> IF g \in With(prkey) THEN "none" ELSE reg[g]]
          /\ ns' = [holder |-> h, key |-> key, type |-> type]
       \/ /\ ns.holder # "none" /\ ns.type \notin AllRegs /\ ns.key # prkey
          /\ Removed(With(prkey))
       \/ /\ ns.holder # "none" /\ ns.type \in AllRegs /\ With(prkey) # {}
          /\ Removed(With(prkey))
PreemptConflict(h, key, prkey) ==
    /\ reg[h] # key \/ (ns.holder # "none" /\ ns.type \in AllRegs /\ With(prkey) = {})
    /\ UNCHANGED <<reg, ns>>

\* RELEASE of a reservation of the given type.
ReleaseOk(h, key, type) ==
    /\ reg[h] = key
    /\ ns.holder = "none" \/ ns.type = type
    /\ ns' = IF IsHolder(h) THEN NoHolder ELSE ns
    /\ UNCHANGED reg
ReleaseConflict(h, key, type) ==
    /\ reg[h] # key \/ (ns.holder # "none" /\ ns.type # type)
    /\ UNCHANGED <<reg, ns>>

\* REPORT: a holder with the key it is registered with now.
Reported(r) ==
    IF ns.holder = "none" THEN r = NoHolder
    ELSE \E g \in Hosts : IsHolder(g) /\ r = [holder |-> g, key |-> reg[g], type |-> ns.type]

-----------------------------------------------------------------------------
(* The nexus.                                                              *)

\* Host h goes on at pc; every other acquisition under way is not alone.
Goes(h, pc) ==
    host' = [g \in Hosts |-> IF g = h THEN [host[h] EXCEPT !.pc = pc]
                             ELSE [host[g] EXCEPT !.alone = FALSE]]
Fails(h) ==
    host' = [g \in Hosts |-> IF g = h THEN [host[h] EXCEPT !.pc = "idle", !.res = "err"]
                             ELSE [host[g] EXCEPT !.alone = FALSE]]
At(h, pc) == host[h].pc = pc
Args(h) == host[h].args

\* Mutant: a failed acquisition clears the reservation.
ResvAcquireClears(h, pc) ==
    \/ AcquireOk(h, Args(h).key, Args(h).type) /\ Goes(h, pc)
    \/ /\ reg[h] # Args(h).key \/ (ns.holder # "none" /\ ~(IsHolder(h) /\ ns.type = Args(h).type))
       /\ ns' = NoHolder /\ UNCHANGED reg
       /\ Fails(h)

\* resv_acquire without and with a key to preempt.
ResvAcquire(h, pc) ==
    \/ AcquireOk(h, Args(h).key, Args(h).type) /\ Goes(h, pc)
    \/ AcquireConflict(h, Args(h).key, Args(h).type) /\ Fails(h)
ResvPreempt(h, prkey, pc) ==
    \/ PreemptOk(h, Args(h).key, prkey, Args(h).type) /\ Goes(h, pc)
    \/ PreemptConflict(h, Args(h).key, prkey) /\ Fails(h)

\* reservation_acquire starts with registering the key, under either policy.
ReservationAcquire(h, p) ==
    /\ At(h, "idle")
    /\ acquires[h] < MaxAcquires[h]
    /\ acquires' = [acquires EXCEPT ![h] = @ + 1]
    /\ Register(h, p.key)
    /\ host' = [g \in Hosts |->
          IF g = h THEN [pc |-> IF p.policy = "ArgKey" THEN "argkey" ELSE "report",
                         args |-> p, seen |-> NoHolder, res |-> "none", alone |-> TRUE]
          ELSE [host[g] EXCEPT !.alone = FALSE]]

\* reservation_acquire_argkey preempts the key it was given, if any.
AcquireArgKey(h) ==
    /\ At(h, "argkey")
    /\ IF Args(h).preempt = "none" THEN ResvAcquire(h, "check")
       ELSE ResvPreempt(h, Args(h).preempt, "check")
    /\ UNCHANGED acquires

\* reservation_preempt_holder asks who the holder is (resv_holder).
ResvHolder(h) ==
    /\ At(h, "report")
    /\ \E r \in Report :
          /\ Reported(r)
          /\ host' = [g \in Hosts |-> IF g = h THEN [host[h] EXCEPT !.pc = "decide", !.seen = r]
                                      ELSE [host[g] EXCEPT !.alone = FALSE]]
    /\ UNCHANGED <<reg, ns, acquires>>

Mine(h) == host[h].seen = [holder |-> h, key |-> Args(h).key, type |-> Args(h).type]

\* After PREEMPT: a host that preempted itself to change the type registers again.
AfterPreempt(h) ==
    IF host[h].seen.type # Args(h).type /\ host[h].seen.holder = h THEN "again" ELSE "acquire"

\* What follows depends on the holder that was reported.
PreemptHolder(h) ==
    LET seen == host[h].seen
        wanted == Args(h).type
    IN
    /\ At(h, "decide")
    /\ \/ seen.holder = "none" /\ ResvAcquire(h, "check")
       \/ seen.holder # "none" /\ Mine(h) /\ Goes(h, "check") /\ UNCHANGED <<reg, ns>>
       \/ /\ seen.holder # "none" /\ ~Mine(h) /\ seen.type \notin AllRegs
          /\ ResvPreempt(h, seen.key, AfterPreempt(h))
       \/ /\ seen.type \in AllRegs /\ ~Mine(h) /\ wanted \notin AllRegs
          /\ \/ ReleaseOk(h, Args(h).key, seen.type) /\ Goes(h, "acquire")
             \/ ReleaseConflict(h, Args(h).key, seen.type) /\ Fails(h)
       \/ /\ seen.type \in AllRegs /\ ~Mine(h) /\ wanted \in AllRegs
          /\ Goes(h, "check")
          /\ UNCHANGED <<reg, ns>>
    /\ UNCHANGED acquires

\* The key in the report may not be the one of the reservation, so preempting
\* it may have done no more than remove the holder: acquire.
AcquireAfter(h) ==
    /\ At(h, "acquire")
    /\ ResvAcquire(h, "check")
    /\ UNCHANGED acquires

\* A host that preempted itself may have removed its own registration.
RegisterAgain(h) ==
    /\ At(h, "again")
    /\ Register(h, Args(h).key)
    /\ Goes(h, "acquire")
    /\ UNCHANGED acquires

\* resv_check_holder.
Accepts(h, r) ==
    /\ r.type = Args(h).type \/ {r.type, Args(h).type} \subseteq AllRegs
    /\ Args(h).type \in AllRegs \/ (r.holder = h /\ r.key = Args(h).key)

ResvCheckHolder(h) ==
    /\ At(h, "check")
    /\ \E r \in Report :
          /\ Reported(r)
          /\ host' = [g \in Hosts |->
                IF g = h THEN [host[h] EXCEPT !.pc = "idle", !.res = IF Accepts(h, r) THEN "ok" ELSE "err"]
                ELSE [host[g] EXCEPT !.alone = FALSE]]
    /\ UNCHANGED <<reg, ns, acquires>>

HostStep(h) ==
    \/ \E p \in Params(h) : ReservationAcquire(h, p)
    \/ AcquireArgKey(h) \/ ResvHolder(h) \/ PreemptHolder(h)
    \/ AcquireAfter(h) \/ RegisterAgain(h) \/ ResvCheckHolder(h)

ResvNext == \E h \in Hosts : HostStep(h)
ResvSpec == ResvInit /\ [][ResvNext]_resvVars

-----------------------------------------------------------------------------
\* A host that runs alone under the Holder policy gets the reservation, whoever
\* holds it, with whatever type and key.
AloneSucceeds ==
    \A h \in Hosts : At(h, "idle") /\ host[h].res = "err" /\ Args(h).policy = "Holder" => ~host[h].alone

\* Hosts that contend for the same type under the Holder policy do not all lose:
\* when nobody is acquiring any more, one of those that began has been told it
\* holds the reservation.
SomeoneWins ==
    LET began == {h \in Hosts : acquires[h] > 0} IN
    /\ began # {} /\ \A h \in Hosts : At(h, "idle")
    /\ \A g, h \in began : Args(h).policy = "Holder" /\ Args(g).type = Args(h).type
    => \E h \in began : host[h].res = "ok"

\* Who was told it holds a restricted reservation still does, unless another
\* host has started to acquire it since.
KeepsUntilOthers ==
    \A h \in Hosts :
        At(h, "idle") /\ host[h].res = "ok" /\ Args(h).type \notin AllRegs /\ host[h].alone
        => ns.holder = h /\ ns.type = Args(h).type

\* Reservations serve their purpose: one who is alone gets it, one of several
\* does, and who has it keeps it until another comes.
ReservationIsSound == AloneSucceeds /\ SomeoneWins /\ KeepsUntilOthers
=============================================================================
