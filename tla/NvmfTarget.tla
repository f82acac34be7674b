----------------------------- MODULE NvmfTarget -----------------------------
(***************************************************************************)
(* The NVMe-oF target (subsys/nvmf/target.rs, transport.rs, mod.rs): the   *)
(* stages that bring it up, driven by futures on the master reactor and by *)
(* the poll groups that each core makes for itself, and the stages that    *)
(* take it down: every subsystem is stopped, every poll group destroyed,   *)
(* then the target.  Requests that are still in flight unshare subsystems  *)
(* while stop_all() walks the list of them.                                *)
(***************************************************************************)
EXTENDS Naturals, Sequences, FiniteSets, SequencesExt

CONSTANTS TgtCores,  \* the cores, one reactor each
          Nqns,      \* subsystems that may be shared
          MaxTgtFaults \* bound on calls that fail

VARIABLES stage,     \* Target::next_state
          creating,  \* cores with a create_poll_group() to run
          pushing,   \* poll groups on their way to the master
          pgs,       \* NVMF_PGS
          count,     \* Target::poll_group_count
          nexts,     \* futures on the master that call next_state()
          transports, listening, rdma,
          future,    \* the long future of the stage: "transport", "discovery", "stop", "none"
          subs,      \* the target's list of subsystems
          serving,   \* those that are started
          iter,      \* stop_all(): the one it stops and the one it holds next
          pgClosing,   \* poll groups told to destroy themselves
          pgClosed,    \* pg_destroy_done() on its way
          alive,     \* the SPDK target exists
          initDone,  \* spdk_subsystem_init_next(): "no", "ok", "error"
          finiDone,  \* spdk_subsystem_fini_next() was called
          panicked, tgtFaults,
          dangling   \* ghost: stop_all() went on to a subsystem that was gone

tgtVars == <<stage, creating, pushing, pgs, count, nexts, transports, listening, rdma, future, subs,
             serving, iter, pgClosing, pgClosed, alive, initDone, finiDone, panicked, tgtFaults, dangling>>

NoIter == [at |-> "none", next |-> "none"]

TgtTypeOK ==
  /\ stage \in {"Init", "AddTransport", "AddListener", "Running", "ShutdownSubsystems",
                "DestroyPgs", "Shutdown", "ShutdownCompleted", "Invalid"}
  /\ creating \subseteq TgtCores /\ pushing \subseteq TgtCores /\ pgs \subseteq TgtCores
  /\ pgClosing \subseteq TgtCores /\ pgClosed \subseteq TgtCores
  /\ count \in 0..Cardinality(TgtCores) /\ nexts \in 0..1
  /\ future \in {"none", "transport", "discovery", "stop", "stopping"}
  /\ ToSet(subs) \subseteq Nqns \cup {"discovery"} /\ serving \subseteq ToSet(subs)
  /\ initDone \in {"no", "ok", "error"}

TgtInit ==
  /\ stage = "Init" /\ creating = {} /\ pushing = {} /\ pgs = {} /\ count = 0 /\ nexts = 0
  /\ transports = {} /\ listening = {} /\ rdma \in BOOLEAN /\ future = "none"
  /\ subs = << >> /\ serving = {} /\ iter = NoIter /\ pgClosing = {} /\ pgClosed = {}
  /\ alive = FALSE /\ initDone = "no" /\ finiDone = FALSE /\ panicked = FALSE
  /\ tgtFaults = 0 /\ dangling = FALSE

TgtFails == tgtFaults < MaxTgtFaults /\ tgtFaults' = tgtFaults + 1

-----------------------------------------------------------------------------
(* Start.                                                                  *)

\* Nvmf::init(), Target::init(), init_poll_groups(): a thread and a future per
\* core; a core for which no thread can be made is passed over.  A target that
\* cannot be created is a panic.
NvmfInit ==
  /\ stage = "Init" /\ ~panicked
  /\ \/ /\ creating' = TgtCores /\ UNCHANGED tgtFaults
        /\ stage' = "AddTransport" /\ alive' = TRUE /\ UNCHANGED panicked
     \/ /\ TgtFails /\ \E c \in TgtCores : creating' = TgtCores \ {c}
        /\ stage' = "AddTransport" /\ alive' = TRUE /\ UNCHANGED panicked
     \/ TgtFails /\ panicked' = TRUE /\ UNCHANGED <<creating, stage, alive>>
  /\ UNCHANGED <<pushing, pgs, count, nexts, transports, listening, rdma, future, subs, serving,
                 iter, pgClosing, pgClosed, initDone, finiDone, dangling>>

\* create_poll_group() on its core.
CreatePollGroup(c) ==
  /\ c \in creating /\ creating' = creating \ {c} /\ pushing' = pushing \cup {c}
  /\ UNCHANGED <<stage, pgs, count, nexts, transports, listening, rdma, future, subs, serving, iter,
                 pgClosing, pgClosed, alive, initDone, finiDone, panicked, tgtFaults, dangling>>

\* Its other half on the master: the last poll group moves the target on.
PollGroupCreated(c) ==
  /\ c \in pushing /\ pushing' = pushing \ {c} /\ pgs' = pgs \cup {c} /\ count' = count + 1
  /\ nexts' = IF count' = Cardinality(TgtCores) THEN nexts + 1 ELSE nexts
  /\ UNCHANGED <<stage, creating, transports, listening, rdma, future, subs, serving, iter, pgClosing,
                 pgClosed, alive, initDone, finiDone, panicked, tgtFaults, dangling>>

\* next_state() with the stage AddTransport: add_transport().
AddTransport ==
  /\ nexts > 0 /\ stage = "AddTransport" /\ nexts' = nexts - 1
  /\ stage' = "AddListener" /\ future' = "transport"
  /\ UNCHANGED <<creating, pushing, pgs, count, transports, listening, rdma, subs, serving, iter,
                 pgClosing, pgClosed, alive, initDone, finiDone, panicked, tgtFaults, dangling>>

\* The outcomes of create_and_add_transports(): TCP must be; RDMA, when it is
\* asked for, is a bonus.
Transports == IF rdma THEN {{"tcp"}, {"tcp", "rdma"}} ELSE {{"tcp"}}

\* listen() on the addresses of the transports; without RDMA the target goes on.
Listen(trs) == IF "rdma" \in trs THEN {{"tcp"}, {"tcp", "rdma"}} ELSE {{"tcp"}}

\* add_transport() goes on: next_state(), listen(), running().  No TCP transport
\* makes the target Invalid and init reports it; an address that cannot be
\* listened on is a panic, whatever the stage is set to.
TransportsAdded ==
  /\ future = "transport"
  /\ \/ /\ \E trs \in Transports : transports' = trs /\ \E on \in Listen(trs) : listening' = on
        /\ stage' = "Running" /\ future' = "discovery" /\ subs' = <<"discovery">>
        /\ UNCHANGED <<initDone, panicked, tgtFaults>>
     \/ /\ TgtFails /\ stage' = "Invalid" /\ future' = "none" /\ initDone' = "error"
        /\ UNCHANGED <<transports, listening, panicked, subs>>
     \/ /\ TgtFails /\ \E trs \in Transports : transports' = trs
        /\ stage' = "Invalid" /\ panicked' = TRUE /\ future' = "none"
        /\ UNCHANGED <<listening, initDone, subs>>
  /\ UNCHANGED <<creating, pushing, pgs, count, nexts, rdma, serving, iter, pgClosing, pgClosed, alive,
                 finiDone, dangling>>

\* running(): the discovery subsystem is started, or is not, and the target is
\* ready.
DiscoveryStarted ==
  /\ future = "discovery" /\ future' = "none" /\ initDone' = "ok"
  /\ \/ serving' = {"discovery"} /\ UNCHANGED tgtFaults
     \/ UNCHANGED serving /\ TgtFails
  /\ UNCHANGED <<stage, creating, pushing, pgs, count, nexts, transports, listening, rdma, subs,
                 iter, pgClosing, pgClosed, alive, finiDone, panicked, dangling>>

-----------------------------------------------------------------------------
(* Subsystems come and go (see NvmfShare); requests that were in flight    *)
(* when the shutdown began still unshare theirs.                           *)

Share(n) ==
  /\ initDone = "ok" /\ stage = "Running" /\ n \notin ToSet(subs)
  /\ subs' = Append(subs, n) /\ serving' = serving \cup {n}
  /\ UNCHANGED <<stage, creating, pushing, pgs, count, nexts, transports, listening, rdma, future,
                 iter, pgClosing, pgClosed, alive, initDone, finiDone, panicked, tgtFaults, dangling>>

Unshare(n) ==
  /\ n \in ToSet(subs) /\ alive /\ initDone = "ok"
  /\ subs' = SelectSeq(subs, LAMBDA x : x # n) /\ serving' = serving \ {n}
  /\ UNCHANGED <<stage, creating, pushing, pgs, count, nexts, transports, listening, rdma, future,
                 iter, pgClosing, pgClosed, alive, initDone, finiDone, panicked, tgtFaults, dangling>>

-----------------------------------------------------------------------------
(* Shutdown.                                                               *)

\* Nvmf::fini(), start_shutdown().
StartShutdown ==
  /\ initDone = "ok" /\ stage = "Running"
  /\ stage' = "ShutdownSubsystems" /\ nexts' = nexts + 1
  /\ UNCHANGED <<creating, pushing, pgs, count, transports, listening, rdma, future, subs, serving,
                 iter, pgClosing, pgClosed, alive, initDone, finiDone, panicked, tgtFaults, dangling>>

\* next_state() with the stage ShutdownSubsystems: stop_subsystems().
StopSubsystems ==
  /\ nexts > 0 /\ stage = "ShutdownSubsystems" /\ nexts' = nexts - 1
  /\ stage' = "DestroyPgs" /\ future' = "stop"
  /\ UNCHANGED <<creating, pushing, pgs, count, transports, listening, rdma, subs, serving, iter,
                 pgClosing, pgClosed, alive, initDone, finiDone, panicked, tgtFaults, dangling>>

\* spdk_nvmf_subsystem_get_next()
After(n) == LET i == SelectInSeq(subs, LAMBDA x : x = n) IN
            IF i = 0 \/ i = Len(subs) THEN "none" ELSE subs[i + 1]

\* NvmfSubsystemIterator::next(): the one it holds, and it holds the one after.
StopNext ==
  \/ /\ future = "stop" /\ future' = "stopping"
     /\ iter' = IF subs = << >> THEN NoIter ELSE [at |-> Head(subs), next |-> After(Head(subs))]
     /\ UNCHANGED <<serving, tgtFaults, dangling>>
  \/ /\ future = "stopping" /\ iter.at # "none" /\ UNCHANGED future
     /\ \/ serving' = serving \ {iter.at} /\ UNCHANGED tgtFaults
        \/ TgtFails /\ UNCHANGED serving
     /\ dangling' = (dangling \/ (iter.next # "none" /\ iter.next \notin ToSet(subs)))
     /\ iter' = IF iter.next = "none" THEN NoIter ELSE [at |-> iter.next, next |-> After(iter.next)]

\* stop_all() in the list.
StopOne ==
  /\ StopNext
  /\ UNCHANGED <<stage, creating, pushing, pgs, count, nexts, transports, listening, rdma, subs,
                 pgClosing, pgClosed, alive, initDone, finiDone, panicked>>

\* stop_all() is through; destroy_all() destroys none and sends next_state().
StopAllDone ==
  /\ future = "stopping" /\ iter.at = "none" /\ future' = "none" /\ nexts' = nexts + 1
  /\ UNCHANGED <<stage, creating, pushing, pgs, count, transports, listening, rdma, subs, serving,
                 iter, pgClosing, pgClosed, alive, initDone, finiDone, panicked, tgtFaults, dangling>>

\* next_state() with the stage DestroyPgs: each poll group is told.
DestroyPgs ==
  /\ nexts > 0 /\ stage = "DestroyPgs" /\ future = "none" /\ nexts' = nexts - 1
  /\ stage' = "Shutdown" /\ pgClosing' = pgs
  /\ UNCHANGED <<creating, pushing, pgs, count, transports, listening, rdma, future, subs, serving,
                 iter, pgClosed, alive, initDone, finiDone, panicked, tgtFaults, dangling>>

\* pg_destroy() on its core.
PgDestroy(c) ==
  /\ c \in pgClosing /\ pgClosing' = pgClosing \ {c} /\ pgClosed' = pgClosed \cup {c}
  /\ UNCHANGED <<stage, creating, pushing, pgs, count, nexts, transports, listening, rdma, future,
                 subs, serving, iter, alive, initDone, finiDone, panicked, tgtFaults, dangling>>

\* shutdown(): no more listening, the target is destroyed.
DestroyTarget == listening' = {} /\ alive' = FALSE /\ stage' = "ShutdownCompleted"

\* Mutant: the first poll group to go takes the target with it.
PgDestroyDoneFirst(c) ==
  /\ c \in pgClosed /\ pgClosed' = pgClosed \ {c} /\ count' = count - 1
  /\ IF stage = "Shutdown" THEN DestroyTarget ELSE UNCHANGED <<listening, alive, stage>>
  /\ UNCHANGED <<creating, pushing, pgs, nexts, transports, rdma, future, subs, serving, iter,
                 pgClosing, initDone, finiDone, panicked, tgtFaults, dangling>>

\* pg_destroy_done() on the master: after the last, shutdown().
PgDestroyDone(c) ==
  /\ c \in pgClosed /\ pgClosed' = pgClosed \ {c} /\ count' = count - 1
  /\ IF count' = 0 THEN DestroyTarget ELSE UNCHANGED <<listening, alive, stage>>
  /\ UNCHANGED <<creating, pushing, pgs, nexts, transports, rdma, future, subs, serving, iter,
                 pgClosing, initDone, finiDone, panicked, tgtFaults, dangling>>

\* destroy_cb(): spdk_subsystem_fini_next().
TargetDestroyed ==
  /\ stage = "ShutdownCompleted" /\ ~finiDone /\ finiDone' = TRUE
  /\ UNCHANGED <<stage, creating, pushing, pgs, count, nexts, transports, listening, rdma, future,
                 subs, serving, iter, pgClosing, pgClosed, alive, initDone, panicked, tgtFaults, dangling>>

-----------------------------------------------------------------------------
TgtStep ==
  \/ NvmfInit \/ AddTransport \/ TransportsAdded \/ DiscoveryStarted
  \/ \E c \in TgtCores : CreatePollGroup(c) \/ PollGroupCreated(c) \/ PgDestroy(c) \/ PgDestroyDone(c)
  \/ StopSubsystems \/ StopOne \/ StopAllDone \/ DestroyPgs \/ TargetDestroyed

TgtNext ==
  /\ ~panicked
  /\ TgtStep \/ StartShutdown \/ \E n \in Nqns : Share(n) \/ Unshare(n)

\* Reactors run their futures and messages.
TgtFairness == WF_tgtVars(~panicked /\ TgtStep)

TgtSpec == TgtInit /\ [][TgtNext]_tgtVars /\ TgtFairness

-----------------------------------------------------------------------------
(* Properties.                                                             *)

\* The engine is told that the target is up once it has a poll group on every
\* core and listens on TCP, and never more listeners than transports.
ReadyIsComplete ==
  initDone = "ok" /\ stage = "Running" =>
    /\ pgs = TgtCores /\ count = Cardinality(TgtCores)
    /\ "tcp" \in listening /\ listening \subseteq transports

\* The target is destroyed after every poll group has answered, and with no
\* subsystem that serves but one that failed to stop, or that stop_all() missed
\* for holding on to one that was gone: connections end before what they run on.
DestroyedLast ==
  stage = "ShutdownCompleted" => /\ pgClosing = {} /\ pgClosed = {} /\ count = 0
                                 /\ (tgtFaults = 0 /\ ~dangling) => serving = {}

\* The target is used only between the end of its start and the beginning of
\* its end.
TargetIsOrdered == TgtTypeOK /\ ReadyIsComplete /\ DestroyedLast
=============================================================================
