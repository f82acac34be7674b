------------------------------- MODULE Engine -------------------------------
(***************************************************************************)
(* The life of the io-engine process: main() and the start-up of the       *)
(* environment on the master core, the tokio thread with the gRPC server   *)
(* and the registration with the control plane, the signal handlers and    *)
(* the ordered shutdown that a signal begins.  The three run concurrently; *)
(* the shutdown is a future of the master that gives way to others at its  *)
(* awaits.  The loops of the reactors are in Reactor.                      *)
(***************************************************************************)
EXTENDS Naturals, FiniteSets

CONSTANTS Nexuses,        \* the nexuses that requests create
          MaxRegisters    \* bound: attempts to register

VARIABLES
  main,       \* the stage of main()
  master,     \* ReactorState of the master core
  remote,     \* the other reactors: "none", "runs", "told" to stop, "stopped"
  signal,     \* SIG_RECEIVED
  critical,   \* signal_trampoline is posted to the init thread
  shut,       \* the stage of do_shutdown()
  collected,  \* the nexuses shutdown_nexuses() has still to destroy
  tokio,      \* the tokio thread: "none", "store", "serves", "failed", "ended"
  grpc,       \* the gRPC server: "none", "serving", "stopped"
  reg,        \* the registration: "none", "register", "waits", "deregister", "done"
  closed,     \* the termination channels that are closed
  known,      \* the control plane takes the node for registered
  stray,      \* a registration that timed out and is still under way
  registers,
  left,       \* ghost: the control plane has taken the deregistration
  nexus,      \* of each nexus: "none", "asked" (request accepted), "open", "clean", "dirty"
  late,       \* ghost: nexuses created after the shutdown collected its list
  signalled,  \* ghost: the stage of main() at the first signal
  code        \* the exit code

engineVars == <<main, master, remote, signal, critical, shut, collected, tokio, grpc, reg, closed,
                known, stray, registers, left, nexus, late, signalled, code>>

MainStages == {"begin", "handlers", "subsystems", "import", "tokio", "run", "loop", "fini", "done"}
ShutStages == {"none", "queued", "nexuses", "pools", "subsystems", "stopped"}

EngineInit ==
  /\ main = "begin" /\ master = "Init" /\ remote = "none" /\ signal = "none" /\ critical = FALSE
  /\ shut = "none" /\ collected = {} /\ tokio = "none" /\ grpc = "none" /\ reg = "none"
  /\ closed = {} /\ known = FALSE /\ stray = FALSE /\ registers = 0 /\ left = FALSE
  /\ nexus = [n \in Nexuses |-> "none"] /\ late = {} /\ signalled = "none" /\ code = 0

mainVars == <<main, master, remote>>
signalVars == <<signal, critical, signalled>>
shutVars == <<shut, collected, nexus, late>>
tokioVars == <<tokio, grpc, reg, known, stray, registers, left>>

-----------------------------------------------------------------------------
(* main() and MayastorEnvironment::init().                                 *)

\* install_signal_handlers(), before there is any reactor or thread.
InstallSignalHandlers ==
  /\ main = "begin" /\ main' = "handlers"
  /\ UNCHANGED <<master, remote, closed, code, signalVars, shutVars, tokioVars>>

\* Reactors::init() creates the init thread; the other cores are launched.
ReactorsInit ==
  /\ main = "handlers" /\ main' = "subsystems"
  /\ remote' = "runs"
  /\ UNCHANGED <<master, closed, code, signalVars, shutVars, tokioVars>>

\* start_rpc(), the end of spdk_subsystem_init().
StartRpc ==
  /\ main = "subsystems" /\ main' = "import"
  /\ UNCHANGED <<master, remote, closed, code, signalVars, shutVars, tokioVars>>

\* import_pools() has created the pools of the configuration file.
PoolsImported ==
  /\ main = "import" /\ main' = "tokio"
  /\ UNCHANGED <<master, remote, closed, code, signalVars, shutVars, tokioVars>>

StartTokioRuntime ==
  /\ main = "tokio" /\ main' = "run"
  /\ tokio' = "store"
  /\ UNCHANGED <<master, remote, closed, code, signalVars, shutVars, grpc, reg, known, stray, registers, left>>

\* init_running() and poll_reactor(): the state is set whatever it was.
PollReactor ==
  /\ main = "run" /\ main' = "loop"
  /\ master' = "Running"
  /\ UNCHANGED <<remote, closed, code, signalVars, shutVars, tokioVars>>

LoopEnds ==
  /\ main = "loop" /\ master = "Shutdown" /\ main' = "fini"
  /\ UNCHANGED <<master, remote, closed, code, signalVars, shutVars, tokioVars>>

\* fini(), and the exit code: internal_aborted() is an error.
MainReturns ==
  /\ main = "fini" /\ main' = "done"
  /\ code' = IF signal = "SIGUSR1" THEN 1 ELSE 0
  /\ UNCHANGED <<master, remote, closed, signalVars, shutVars, tokioVars>>

\* A reactor of another core sees that it is to stop.
RemoteStops ==
  /\ remote = "told" /\ remote' = "stopped"
  /\ UNCHANGED <<main, master, closed, code, signalVars, shutVars, tokioVars>>

-----------------------------------------------------------------------------
(* Signals.                                                                *)

\* mayastor_signal_handler(): the first signal counts.  It is posted to the
\* init thread, if there is one.
SignalHandler(s) ==
  IF signal # "none" THEN UNCHANGED signalVars
  ELSE /\ signal' = s
       /\ critical' = (main \notin {"begin", "handlers"})
       /\ signalled' = main

Terminate ==
  /\ main \notin {"begin", "done"}
  /\ SignalHandler("SIGTERM")
  /\ UNCHANGED <<closed, code, mainVars, shutVars, tokioVars>>

\* The master runs its threads and futures: in block_on() during the start-up,
\* and in its loop.
Polled == main \in {"subsystems", "import"} \/ (main = "loop" /\ master # "Shutdown")

\* mayastor_env_stop()
EnvStop ==
  /\ critical /\ Polled
  /\ critical' = FALSE
  /\ shut' = "queued"
  /\ UNCHANGED <<signal, signalled, collected, nexus, late, closed, code, mainVars, tokioVars>>

-----------------------------------------------------------------------------
(* do_shutdown().                                                          *)

\* Mutant: the nexuses are left to the end of the subsystems.
ShutdownServersOnly ==
  /\ shut = "queued" /\ Polled
  /\ closed' = {"grpc"} \cup (IF reg = "none" THEN {} ELSE {"reg"})
  /\ shut' = "nexuses"
  /\ collected' = {}
  /\ UNCHANGED <<nexus, late, code, mainVars, signalVars, tokioVars>>

\* The servers are told to stop, and the nexuses that exist are collected.
ShutdownServers ==
  /\ shut = "queued" /\ Polled
  /\ closed' = {"grpc"} \cup (IF reg = "none" THEN {} ELSE {"reg"})
  /\ shut' = "nexuses"
  /\ collected' = {n \in Nexuses : nexus[n] = "open"}
  /\ UNCHANGED <<nexus, late, code, mainVars, signalVars, tokioVars>>

\* shutdown_nexuses(): destroy_ext(true) of one nexus, which may fail to save.
ShutdownNexus(n) ==
  /\ shut = "nexuses" /\ n \in collected /\ Polled
  /\ collected' = collected \ {n}
  /\ \E r \in {"clean", "dirty"} : nexus' = [nexus EXCEPT ![n] = r]
  /\ UNCHANGED <<shut, late, closed, code, mainVars, signalVars, tokioVars>>

\* shutdown_snapshot_rebuilds(), export_all() of the pools.
ShutdownPools ==
  /\ shut = "nexuses" /\ collected = {} /\ Polled
  /\ shut' = "pools"
  /\ UNCHANGED <<collected, nexus, late, closed, code, mainVars, signalVars, tokioVars>>

\* spdk_subsystem_fini()
SubsystemFini ==
  /\ shut = "pools" /\ Polled
  /\ shut' = "subsystems"
  /\ UNCHANGED <<collected, nexus, late, closed, code, mainVars, signalVars, tokioVars>>

\* reactors_stop()
ReactorsStop ==
  /\ shut = "subsystems" /\ Polled
  /\ shut' = "stopped"
  /\ master' = "Shutdown"
  /\ remote' = "told"
  /\ UNCHANGED <<main, collected, nexus, late, closed, code, signalVars, tokioVars>>

-----------------------------------------------------------------------------
(* The tokio thread.                                                       *)

Alive == main # "done"

\* The store is connected, and both servers are polled for the first time: the
\* gRPC server binds its socket before the registration starts.
Serve ==
  /\ Alive /\ tokio = "store"
  /\ tokio' = "serves" /\ grpc' = "serving" /\ reg' = "register"
  /\ UNCHANGED <<known, stray, registers, left, closed, code, mainVars, signalVars, shutVars>>

\* The socket is in use: the engine aborts itself.
BindFails ==
  /\ Alive /\ tokio = "store"
  /\ tokio' = "failed"
  /\ SignalHandler("SIGUSR1")
  /\ UNCHANGED <<grpc, reg, known, stray, registers, left, closed, code, mainVars, shutVars>>

\* The select of run(): the channel is closed.
GrpcStops ==
  /\ Alive /\ grpc = "serving" /\ "grpc" \in closed
  /\ grpc' = "stopped"
  /\ UNCHANGED <<tokio, reg, known, stray, registers, left, closed, code, mainVars, signalVars, shutVars>>

\* register(): the answer comes, or not; a request that timed out may still
\* arrive.
Register ==
  /\ Alive /\ reg = "register" /\ registers < MaxRegisters
  /\ registers' = registers + 1
  /\ reg' = "waits"
  /\ \E r \in {"ok", "lost", "late"} :
       /\ known' = (known \/ r = "ok")
       /\ stray' = (stray \/ r = "late")
  /\ UNCHANGED <<tokio, grpc, left, closed, code, mainVars, signalVars, shutVars>>

StrayArrives ==
  /\ stray
  /\ known' = TRUE /\ stray' = FALSE
  /\ UNCHANGED <<tokio, grpc, reg, registers, left, closed, code, mainVars, signalVars, shutVars>>

\* The heart-beat interval.
RegistrationSleeps ==
  /\ Alive /\ reg = "waits" /\ "reg" \notin closed /\ registers < MaxRegisters
  /\ reg' = "register"
  /\ UNCHANGED <<tokio, grpc, known, stray, registers, left, closed, code, mainVars, signalVars, shutVars>>

RegistrationClosed ==
  /\ Alive /\ reg = "waits" /\ "reg" \in closed
  /\ reg' = "deregister"
  /\ UNCHANGED <<tokio, grpc, known, stray, registers, left, closed, code, mainVars, signalVars, shutVars>>

Deregister ==
  /\ Alive /\ reg = "deregister"
  /\ reg' = "done"
  /\ \E r \in {"ok", "lost"} : known' = (known /\ r # "ok") /\ left' = (left \/ r = "ok")
  /\ UNCHANGED <<tokio, grpc, stray, registers, closed, code, mainVars, signalVars, shutVars>>

TokioEnds ==
  /\ Alive /\ tokio = "serves" /\ grpc = "stopped" /\ reg = "done"
  /\ tokio' = "ended"
  /\ UNCHANGED <<grpc, reg, known, stray, registers, left, closed, code, mainVars, signalVars, shutVars>>

\* A request is accepted while the server runs, and its future runs on the
\* master.
Accept(n) ==
  /\ Alive /\ grpc = "serving" /\ nexus[n] = "none"
  /\ nexus' = [nexus EXCEPT ![n] = "asked"]
  /\ UNCHANGED <<shut, collected, late, closed, code, mainVars, signalVars, tokioVars>>

CreateNexus(n) ==
  /\ nexus[n] = "asked" /\ Polled
  /\ nexus' = [nexus EXCEPT ![n] = "open"]
  /\ late' = IF shut \in {"none", "queued"} THEN late ELSE late \cup {n}
  /\ UNCHANGED <<shut, collected, closed, code, mainVars, signalVars, tokioVars>>

-----------------------------------------------------------------------------

MainNext ==
  \/ InstallSignalHandlers \/ ReactorsInit \/ StartRpc \/ PoolsImported \/ StartTokioRuntime
  \/ PollReactor \/ LoopEnds \/ MainReturns

ShutdownStep ==
  \/ EnvStop \/ ShutdownServers \/ ShutdownPools \/ SubsystemFini \/ ReactorsStop
  \/ \E n \in Nexuses : ShutdownNexus(n)

ShutdownNext == ShutdownStep \/ \E n \in Nexuses : CreateNexus(n)

TokioNext ==
  \/ Serve \/ BindFails \/ GrpcStops \/ Register \/ RegistrationSleeps \/ RegistrationClosed
  \/ Deregister \/ TokioEnds

EngineNext ==
  MainNext \/ ShutdownNext \/ TokioNext \/ RemoteStops \/ Terminate \/ StrayArrives
  \/ \E n \in Nexuses : Accept(n)

\* Every thread runs on, and the futures of the master are all polled.
EngineFairness ==
  /\ WF_engineVars(MainNext)
  /\ WF_engineVars(ShutdownStep)

EngineSpec == EngineInit /\ [][EngineNext]_engineVars /\ EngineFairness

-----------------------------------------------------------------------------

\* A nexus that is still open when the process ends was created by a request
\* that came while the shutdown ran; every other was destroyed, and saved.
OpenAtExitIsLate ==
  main = "done" => \A n \in Nexuses : nexus[n] = "open" => n \in late

\* "Check if we had to internally aborted": an engine whose servers failed does
\* not report success, unless it had been asked to stop before.
AbortIsReported ==
  main = "done" /\ tokio = "failed" => code = 1 \/ signal = "SIGTERM"

\* The control plane knows of a node only once its gRPC server has its socket.
KnownIsServed == known \/ stray => grpc # "none"

\* Start-up and exit keep their order: served before known, saved before gone,
\* and an abort is no success.
LifeIsOrdered == OpenAtExitIsLate /\ AbortIsReported /\ KnownIsServed
=============================================================================
