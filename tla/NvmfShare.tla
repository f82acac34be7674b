------------------------------ MODULE NvmfShare ------------------------------
(***************************************************************************)
(* A bdev shared over NVMe-oF (subsys/nvmf/subsystem.rs, core/bdev.rs, and *)
(* nexus_share.rs for a nexus): the life of its subsystem under share,     *)
(* unshare, property updates and the reset of a nexus after a keep-alive   *)
(* timeout, with the hosts that connect and go.                            *)
(*                                                                         *)
(* SPDK runs the state changes of a subsystem one after the other from a   *)
(* queue and calls back; the request that asked goes on when its future is *)
(* polled.  In between the next change may already have run.  Requests for *)
(* a nexus are serialised by its lock; those for a replica come from two   *)
(* versions of the API with locks of their own.                            *)
(***************************************************************************)
EXTENDS Naturals, Sequences, FiniteSets

CONSTANTS Hosts,      \* host NQNs
          HostSets,   \* lists of allowed hosts that requests come with
          Ctrlrs,     \* numbers of the connections of hosts
          Requesters, \* gRPC requests in flight
          MaxShareOps,\* bound on requests, for a nexus and for a replica
          MaxConnects,\* bound on connections, likewise
          MaxFaults   \* bound on calls that fail and on hosts that time out

VARIABLES target,     \* "nexus" or "replica"
          ss,         \* the subsystem of the bdev
          changes_q,  \* state changes queued in SPDK
          asks,       \* the requests
          hostOf,     \* the host of each controller, "none" when not connected
          link,       \* its connection: "up", "leaving" with a stop of the subsystem,
                      \* or "lost" with the namespace
          initiators, \* Nexus::initiators
          marked,     \* the persisted `shared` of a nexus
          reset,      \* where reset_all_children() is
          nexusOpen,  \* NexusState: Open or Reconfiguring
          ops, connects, faults,
          leaked,     \* ghost: a share failed and left its subsystem behind
          revived,    \* ghost: a resume restarted a subsystem under an unshare
          wide,       \* ghost: controllers that came while any host was allowed, or
                      \* that could not be disconnected
          missed,     \* ghost: hosts whose disconnect found no namespace
          doubled,    \* ghost: hosts that had two controllers at once
          asked,      \* ghost: hosts of the last share or update to succeed alone
          overlap     \* ghost: since then requests failed or ran at once

shareVars == <<target, ss, changes_q, asks, hostOf, link, initiators, marked, reset, nexusOpen,
               ops, connects, faults, leaked, revived, wide, missed, doubled, asked, overlap>>

Gone == [state |-> "none", ns |-> FALSE, any |-> FALSE, hosts |-> {}, listeners |-> {}]
Idle == [op |-> "none", pc |-> "idle", hosts |-> {}, todo |-> {}, alone |-> TRUE]

ShareInit ==
  /\ target \in {"nexus", "replica"}
  /\ ss = Gone /\ changes_q = << >>
  /\ asks = [r \in Requesters |-> Idle]
  /\ hostOf = [k \in Ctrlrs |-> "none"] /\ link = [k \in Ctrlrs |-> "up"]
  /\ initiators = {} /\ marked = FALSE /\ reset = "no" /\ nexusOpen = TRUE
  /\ ops = 0 /\ connects = 0 /\ faults = 0
  /\ leaked = FALSE /\ revived = FALSE /\ wide = {} /\ missed = {} /\ doubled = {}
  /\ asked = {} /\ overlap = FALSE

-----------------------------------------------------------------------------
(* Requests.                                                               *)

\* Bdev::shared(): the target has claimed the bdev.
Shared == ss.ns

\* NvmfSubsystem::nqn_lookup().
NqnLookup == ss.state # "none"

\* is_shared()
IsShared == Shared \/ NqnLookup

Fails == faults < MaxFaults /\ faults' = faults + 1
Works == UNCHANGED faults

GoOn(r, pc) == asks' = [asks EXCEPT ![r].pc = pc]

\* The request ends.  A success that had the bdev to itself is what the hosts
\* are to be afterwards.
EndAsk(r, good) ==
  /\ asks' = [asks EXCEPT ![r] = Idle]
  /\ overlap' = ~(asks[r].alone /\ good)
  /\ asked' = IF asks[r].alone /\ good THEN asks[r].hosts ELSE asked

hostVars == <<hostOf, initiators, reset, nexusOpen, connects, wide, missed, doubled>>
keptVars == <<target, hostVars, link>>
unlinkVars == <<target, hostVars>>

\* A request comes: share (update when the bdev is shared already), unshare.
Asks(r, op, hosts) ==
  /\ ops < MaxShareOps[target] /\ asks[r] = Idle
  /\ target = "nexus" => \A q \in Requesters : asks[q] = Idle
  /\ op = "unshare" => hosts = {}
  /\ ops' = ops + 1
  /\ asks' = [q \in Requesters |->
       IF q # r THEN [asks[q] EXCEPT !.alone = asks[q] = Idle]
       ELSE [op |-> IF op = "share" /\ Shared THEN "update" ELSE op,
             pc |-> IF op = "share" /\ target = "nexus" /\ ~Shared THEN "mark" ELSE "create",
             hosts |-> hosts, todo |-> {},
             alone |-> \A p \in Requesters \ {r} : asks[p] = Idle]]
  /\ UNCHANGED <<keptVars, ss, changes_q, marked, faults, leaked, revived, asked, overlap>>

\* Mutant: the marker is written once the share is up.
MarkSharedAfter(r) ==
  /\ asks[r].pc = "mark" /\ GoOn(r, "create")
  /\ UNCHANGED <<keptVars, ss, changes_q, marked, ops, faults, leaked, revived, asked, overlap>>

\* share_nvmf() of a nexus persists shared = true before the share goes live,
\* and does not share when it cannot.
MarkSharedFirst(r) ==
  /\ asks[r].pc = "mark"
  /\ \/ Works /\ marked' = TRUE /\ GoOn(r, "create") /\ UNCHANGED <<asked, overlap>>
     \/ Fails /\ EndAsk(r, FALSE) /\ UNCHANGED marked
  /\ UNCHANGED <<keptVars, ss, changes_q, ops, leaked, revived>>

\* try_from_with(): refused for a claimed bdev, and for a subsystem that is
\* there; a namespace that cannot be added takes the new subsystem with it.
CreateRefused(r) ==
  /\ asks[r].op = "share" /\ asks[r].pc = "create"
  /\ IF IsShared THEN Works ELSE Fails
  /\ EndAsk(r, FALSE)
  /\ UNCHANGED <<keptVars, ss, changes_q, marked, ops, leaked, revived>>

\* Setting the serial number, model, controller ids, ANA reporting or an allowed
\* host fails: the error goes up, the subsystem stays.
PropertyFails(r) ==
  /\ asks[r].op = "share" /\ asks[r].pc = "create" /\ ~IsShared /\ Fails
  /\ \E ns \in BOOLEAN :
       ss' = [Gone EXCEPT !.state = "inactive", !.ns = ns, !.any = ns /\ asks[r].hosts = {}]
  /\ leaked' = TRUE
  /\ EndAsk(r, FALSE)
  /\ UNCHANGED <<keptVars, changes_q, marked, ops, revived>>

\* Bdev::share_nvmf(): the subsystem is made, takes its namespace and its hosts
\* and asks for its first listener.
MakeSubsystem(r) ==
  /\ asks[r].op = "share" /\ asks[r].pc = "create" /\ ~IsShared /\ Works
  /\ ss' = [state |-> "inactive", ns |-> TRUE, any |-> asks[r].hosts = {},
            hosts |-> asks[r].hosts, listeners |-> {}]
  /\ GoOn(r, "listen")
  /\ UNCHANGED <<keptVars, changes_q, marked, ops, leaked, revived, asked, overlap>>

Queue(r, op) == changes_q' = Append(changes_q, [op |-> op, by |-> r])

\* add_listener(): without a listener start() gives up and leaves the subsystem.
TcpListener(r) ==
  /\ asks[r].pc = "listen"
  /\ \/ /\ Works
        /\ ss' = IF NqnLookup THEN [ss EXCEPT !.listeners = @ \cup {"tcp"}] ELSE ss
        /\ IF target = "nexus" THEN GoOn(r, "rdma") /\ UNCHANGED changes_q
                               ELSE GoOn(r, "queued") /\ Queue(r, "start")
        /\ UNCHANGED <<leaked, asked, overlap>>
     \/ Fails /\ leaked' = NqnLookup /\ EndAsk(r, FALSE) /\ UNCHANGED <<ss, changes_q>>
  /\ UNCHANGED <<keptVars, marked, ops, revived>>

\* The RDMA listener of a nexus is a bonus: start() goes on without it.
RdmaListener(r) ==
  /\ asks[r].pc = "rdma"
  /\ \/ Works /\ ss' = IF NqnLookup THEN [ss EXCEPT !.listeners = @ \cup {"rdma"}] ELSE ss
     \/ Fails /\ UNCHANGED ss
  /\ GoOn(r, "queued") /\ Queue(r, "start")
  /\ UNCHANGED <<keptVars, marked, ops, leaked, revived, asked, overlap>>

\* spdk_nvmf_subsystem_remove_ns() and spdk_nvmf_subsystem_destroy(): refused
\* but for an inactive subsystem; what is queued is answered with an error.
Destroyed == IF ss.state = "inactive" THEN Gone ELSE [ss EXCEPT !.ns = FALSE]

\* shutdown_unsafe()
ShutdownUnsafe ==
  /\ ss' = IF NqnLookup THEN Destroyed ELSE ss
  /\ link' = [k \in Ctrlrs |-> IF hostOf[k] = "none" THEN "up" ELSE "lost"]
  /\ revived' = (revived \/ ss.state \in {"active", "paused"})

\* The end of start(): a subsystem that did not start is destroyed.
Started(r) ==
  /\ asks[r].op = "share" /\ asks[r].pc \in {"ok", "failed"}
  /\ IF asks[r].pc = "failed" THEN ShutdownUnsafe ELSE UNCHANGED <<ss, link, revived>>
  /\ EndAsk(r, asks[r].pc = "ok")
  /\ UNCHANGED <<unlinkVars, changes_q, marked, ops, faults, leaked>>

\* unshare(): nothing to do, or the subsystem is told to stop.
Unshares(r) ==
  /\ asks[r].op = "unshare" /\ asks[r].pc = "create"
  /\ \/ NqnLookup /\ GoOn(r, "queued") /\ Queue(r, "stop") /\ UNCHANGED <<asked, overlap>>
     \/ /\ ~NqnLookup /\ UNCHANGED changes_q
        /\ IF target = "nexus" THEN GoOn(r, "unmark") /\ UNCHANGED <<asked, overlap>>
                               ELSE EndAsk(r, TRUE)
  /\ UNCHANGED <<keptVars, ss, marked, ops, faults, leaked, revived>>

\* stop_for_destroy() after the stop: an error goes up, else the subsystem goes.
Stopped(r) ==
  /\ asks[r].op = "unshare" /\ asks[r].pc \in {"ok", "failed"}
  /\ IF asks[r].pc = "ok" THEN ShutdownUnsafe ELSE UNCHANGED <<ss, link, revived>>
  /\ IF asks[r].pc = "ok" /\ target = "nexus"
       THEN GoOn(r, "unmark") /\ UNCHANGED <<asked, overlap>>
       ELSE EndAsk(r, asks[r].pc = "ok")
  /\ UNCHANGED <<unlinkVars, changes_q, marked, ops, faults, leaked>>

\* unshare_nexus_internal(): the marker is cleared, best effort, when the
\* subsystem is really gone.
ClearMarker(r) ==
  /\ asks[r].pc = "unmark"
  /\ marked' \in IF NqnLookup THEN {marked} ELSE {FALSE, marked}
  /\ EndAsk(r, TRUE)
  /\ UNCHANGED <<keptVars, ss, changes_q, ops, faults, leaked, revived>>

\* update_properties() of a subsystem that is there: any host when none is
\* named, and then the old hosts stay; else the new ones are added, the others
\* are to go one by one.
UpdateBegins(r) ==
  /\ asks[r].op = "update" /\ asks[r].pc = "create"
  /\ LET h == asks[r].hosts IN
     IF Shared /\ NqnLookup
       THEN /\ ss' = [ss EXCEPT !.any = h = {}, !.hosts = @ \cup h]
            /\ asks' = [asks EXCEPT ![r].pc = "disconnect",
                                    ![r].todo = IF h = {} THEN {} ELSE ss.hosts \ h]
            /\ UNCHANGED <<asked, overlap>>
       ELSE EndAsk(r, FALSE) /\ UNCHANGED ss
  /\ UNCHANGED <<keptVars, changes_q, marked, ops, faults, leaked, revived>>

\* The controllers of a host go, with their disconnect events.
HostGone(h) ==
  /\ hostOf' = [k \in Ctrlrs |-> IF hostOf[k] = h /\ link[k] = "up" THEN "none" ELSE hostOf[k]]
  /\ initiators' = IF hostOf' # hostOf THEN initiators \ {h} ELSE initiators

\* disallow_host() and disconnect_host() of one host that is to go; a host that
\* is not registered any more, or the call, fails and the rest is left undone.
DisallowHost(r) ==
  /\ asks[r].pc = "disconnect"
  /\ \E h \in asks[r].todo :
       \/ /\ h \in ss.hosts /\ Works
          /\ ss' = [ss EXCEPT !.hosts = @ \ {h}]
          /\ HostGone(h)
          /\ asks' = [asks EXCEPT ![r].todo = @ \ {h}]
          /\ UNCHANGED <<asked, overlap, wide>>
       \/ /\ IF h \in ss.hosts THEN Fails ELSE Works
          /\ ss' = [ss EXCEPT !.hosts = @ \ {h}]
          /\ wide' = wide \cup {k \in Ctrlrs : hostOf[k] = h}
          /\ EndAsk(r, FALSE) /\ UNCHANGED <<hostOf, initiators>>
  /\ UNCHANGED <<target, link, reset, nexusOpen, connects, missed, doubled, changes_q, marked,
                 ops, leaked, revived>>

\* The update has returned.
UpdateDone(r) ==
  /\ asks[r].pc = "disconnect" /\ asks[r].todo = {}
  /\ EndAsk(r, NqnLookup)
  /\ UNCHANGED <<keptVars, ss, changes_q, marked, ops, faults, leaked, revived>>

-----------------------------------------------------------------------------
(* State changes.                                                          *)

\* The states a change leads to; the pause of a subsystem that is stopped fails,
\* a resume starts it.
Leads(op) == CASE op = "start" -> "active" [] op = "stop" -> "inactive"
               [] op = "pause" -> "paused" [] op = "resume" -> "active"

Possible(op) == NqnLookup /\ (op = "pause" => ss.state = "active")

\* state_change_cb(): the future that asked is told.
Tell(by, outcome) ==
  IF by = "reset"
    THEN /\ reset' = IF reset = "pausing" THEN outcome ELSE "resumed"
         /\ UNCHANGED asks
    ELSE asks' = [asks EXCEPT ![by].pc = outcome] /\ UNCHANGED reset

\* change_state(): SPDK runs the change at the head of its queue.  A stop takes
\* the connections with it.
ChangeState ==
  /\ changes_q # << >> /\ changes_q' = Tail(changes_q)
  /\ LET c == Head(changes_q) IN
     \/ /\ Possible(c.op) /\ Works
        /\ ss' = [ss EXCEPT !.state = Leads(c.op)]
        /\ link' = [k \in Ctrlrs |-> IF c.op = "stop" /\ hostOf[k] # "none" /\ link[k] = "up"
                                       THEN "leaving" ELSE link[k]]
        /\ Tell(c.by, "ok")
     \/ /\ IF Possible(c.op) THEN Fails ELSE Works
        /\ Tell(c.by, "failed") /\ UNCHANGED <<ss, link>>
  /\ UNCHANGED <<target, hostOf, initiators, nexusOpen, connects, wide, missed, doubled, marked,
                 ops, leaked, revived, asked, overlap>>

-----------------------------------------------------------------------------
(* Hosts.                                                                  *)

\* HostConnect: a host that is allowed connects to an active subsystem;
\* host_connect_nexus() notes it.
HostConnect(k, h) ==
  /\ connects < MaxConnects[target] /\ connects' = connects + 1
  /\ ss.state = "active" /\ ss.ns /\ (ss.any \/ h \in ss.hosts)
  /\ hostOf[k] = "none" /\ \A q \in Ctrlrs : q < k => hostOf[q] # "none"
  /\ hostOf' = [hostOf EXCEPT ![k] = h]
  /\ initiators' = IF target = "nexus" THEN initiators \cup {h} ELSE initiators
  /\ wide' = IF ss.any THEN wide \cup {k} ELSE wide \ {k}
  /\ doubled' = IF \E q \in Ctrlrs : hostOf[q] = h
                  THEN doubled \cup {h} ELSE doubled
  /\ missed' = missed \ {h}
  /\ UNCHANGED <<target, link, ss, changes_q, asks, marked, reset, nexusOpen, ops, faults, leaked,
                 revived, asked, overlap>>

\* HostDisconnect: rm_initiator(), when the namespace still leads to the nexus.
HostDisconnect(k) ==
  /\ hostOf[k] # "none"
  /\ hostOf' = [hostOf EXCEPT ![k] = "none"]
  /\ link' = [link EXCEPT ![k] = "up"]
  /\ IF link[k] # "lost" THEN initiators' = initiators \ {hostOf[k]} /\ UNCHANGED missed
                         ELSE missed' = missed \cup {hostOf[k]} /\ UNCHANGED initiators
  /\ UNCHANGED <<target, ss, changes_q, asks, marked, reset, nexusOpen, ops, connects, faults,
                 leaked, revived, wide, doubled, asked, overlap>>

\* initiator_keep_alive_timeout(): the host is forgotten; when it was the last
\* and the nexus is open its children are to be reset.
KeepAliveTimeout(k) ==
  /\ hostOf[k] # "none" /\ link[k] = "up" /\ Fails
  /\ initiators' = initiators \ {hostOf[k]}
  /\ LET resets == target = "nexus" /\ initiators' = {} /\ nexusOpen IN
     /\ reset' = IF resets THEN "begin" ELSE reset
     /\ nexusOpen' = IF resets THEN FALSE ELSE nexusOpen
  /\ UNCHANGED <<target, ss, changes_q, asks, hostOf, link, marked, ops, connects, leaked, revived,
                 wide, missed, doubled, asked, overlap>>

resetKept == <<target, hostOf, link, initiators, connects, wide, missed, doubled, asks, marked, ops,
               faults, leaked, revived, asked, overlap, ss>>

\* reset_all_children() pauses the nexus: without a subsystem it has nothing to
\* wait for.
ResetPauses ==
  /\ reset = "begin"
  /\ IF NqnLookup THEN reset' = "pausing" /\ Queue("reset", "pause")
                  ELSE reset' = "ok" /\ UNCHANGED changes_q
  /\ UNCHANGED <<resetKept, nexusOpen>>

\* The pause failed: reset_all_children() returns there and then.
ResetGivesUp ==
  /\ reset = "failed" /\ reset' = "no"
  /\ UNCHANGED <<resetKept, nexusOpen, changes_q>>

\* The controllers of the children have answered; the nexus is resumed.
ResetResumes ==
  /\ reset = "ok"
  /\ IF NqnLookup THEN reset' = "resuming" /\ Queue("reset", "resume")
                  ELSE reset' = "resumed" /\ UNCHANGED changes_q
  /\ UNCHANGED <<resetKept, nexusOpen>>

\* set_open_state(), whether the resume went well or not.
ResetDone ==
  /\ reset = "resumed" /\ reset' = "no" /\ nexusOpen' = TRUE
  /\ UNCHANGED <<resetKept, changes_q>>

-----------------------------------------------------------------------------
ShareStep(r) ==
  \/ MarkSharedFirst(r) \/ CreateRefused(r) \/ PropertyFails(r) \/ MakeSubsystem(r)
  \/ TcpListener(r) \/ RdmaListener(r) \/ Started(r) \/ Unshares(r) \/ Stopped(r)
  \/ ClearMarker(r) \/ UpdateBegins(r) \/ DisallowHost(r) \/ UpdateDone(r)

ResetStep == ResetPauses \/ ResetGivesUp \/ ResetResumes \/ ResetDone

ShareNext ==
  \/ \E r \in Requesters, op \in {"share", "unshare"}, hosts \in HostSets : Asks(r, op, hosts)
  \/ \E r \in Requesters : ShareStep(r)
  \/ ChangeState
  \/ \E k \in Ctrlrs, h \in Hosts : HostConnect(k, h)
  \/ \E k \in Ctrlrs : HostDisconnect(k) \/ KeepAliveTimeout(k)
  \/ ResetStep

\* Futures are polled and SPDK works off its queue; clients and hosts come and
\* go as they like.
ShareFairness ==
  /\ \A r \in Requesters : WF_shareVars(ShareStep(r))
  /\ WF_shareVars(ChangeState) /\ WF_shareVars(ResetStep)

ShareSpec == ShareInit /\ [][ShareNext]_shareVars /\ ShareFairness

-----------------------------------------------------------------------------
(* Properties.                                                             *)

Quiet == /\ \A r \in Requesters : asks[r] = Idle
         /\ changes_q = << >> /\ reset = "no"

\* "note that we destroy it on failure to ensure the state is not in limbo":
\* when nothing is under way a subsystem that is there serves, unless a share
\* failed before start() came to its state change, a resume won the race with
\* an unshare, or two requests were at it at once.
NoLimbo == Quiet /\ NqnLookup /\ ss.state # "active" => leaked \/ revived \/ overlap

\* A nexus that hosts can write to is persisted as shared, so that a crash is
\* followed by the recovery of a shared nexus; unshare_nexus_internal() clears
\* the marker when the subsystem is really gone.
ReachableIsMarked == target = "nexus" /\ ss.state = "active" => marked

\* set_allowed_hosts(): after a share or an update that had the bdev to itself
\* the hosts registered are those of the request; an update that names none
\* allows any.
HostsAsAsked ==
  Quiet /\ ~overlap /\ Shared => IF asked = {} THEN ss.any ELSE ~ss.any /\ ss.hosts = asked

\* "It also disallows and disconnects any previously registered host": when
\* requests are over the hosts connected are allowed, but those that came while
\* any host was and those whose disconnection failed: nothing tries it again.
ConnectedIsAllowed ==
  Quiet /\ ~overlap /\ Shared =>
    \A k \in Ctrlrs : \/ hostOf[k] = "none" \/ link[k] # "up" \/ k \in wide
                      \/ ss.any \/ hostOf[k] \in ss.hosts

\* What is shared serves, is recorded, and serves those whom it was last shared
\* with.
ShareIsSound == NoLimbo /\ ReachableIsMarked /\ HostsAsAsked /\ ConnectedIsAllowed
=============================================================================
