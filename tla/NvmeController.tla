--------------------------- MODULE NvmeController ---------------------------
(***************************************************************************)
(* The life of an NVMe controller of the initiator (bdev/nvmx): created by *)
(* an asynchronous attach, reset, hot removed, faulted by asynchronous     *)
(* events, shut down and destroyed, while I/O channels are opened and      *)
(* closed on the cores.  Every operation on the channels is a traversal    *)
(* that visits the cores one after the other and calls back on the thread  *)
(* that started it, so resets, hot removals and a shutdown overlap freely. *)
(*                                                                         *)
(* A controller is listed under its name and under its identifier.  A name *)
(* can be used again after a destroy: each use is a generation.            *)
(***************************************************************************)
EXTENDS Integers, FiniteSets

CONSTANTS NumCores,  \* the reactors, 1..NumCores
          MaxGens,   \* how many controllers may be created under the name
          Clients,   \* how many tasks may call destroy_device(): 1..Clients
          MaxOps,    \* bound on requests and events from outside
          Events     \* the requests and events that may happen

VARIABLES
  ctl,      \* generation -> the NvmeController
  tmo,      \* generation -> its TimeoutConfig
  chan,     \* generation -> core -> the I/O channel
  trav,     \* generation -> the traversals in flight
  name,     \* the generation listed under the name, 0 if none
  ids,      \* the generations listed under their identifiers
  creator,  \* where the future of create() is
  destroyer,\* task -> where its future of destroy_device() is; 0 is create()
  panic,    \* the assertion or expect() that failed, "" if none
  ops,      \* requests and events so far
  events    \* generation -> what its listeners were told, in number

vars == <<ctl, tmo, chan, trav, name, ids, creator, destroyer, panic, ops, events>>
core == <<ctl, tmo, chan, trav, name, ids>>
futures == <<creator, destroyer>>

Cores == 1..NumCores
Gens == 1..MaxGens
Tasks == 0..Clients
Idle == 0          \* a traversal that is not running
CtlStates == {"None", "New", "Initializing", "Running", "Faulted",
              "Unconfiguring", "Unconfigured", "Dropped"}
Notices == {"AdminCommandCompletionFailed", "AdminQNoticeCtrlFailed",
            "AdminQBroken", "DeviceRemoved"}
NoReset == [phase |-> 0, at |-> Idle, by |-> 0, shutdown |-> FALSE, failed |-> FALSE]
NewTrav == [reset |-> NoReset, hot |-> Idle, hotShut |-> FALSE]
NoTask == [pc |-> "idle", gen |-> 0, at |-> Idle]
NewChan == [st |-> "none", qpair |-> FALSE, ctrl |-> FALSE]
NewCtl == [st |-> "New", resetActive |-> FALSE, ns |-> FALSE, inner |-> FALSE,
           destroying |-> FALSE, failed |-> FALSE, report |-> TRUE, broken |-> 0]
NewTmo == [busy |-> FALSE, attempts |-> 1, cooling |-> FALSE]

Init ==
  /\ ctl = [g \in Gens |-> [NewCtl EXCEPT !.st = "None"]]
  /\ tmo = [g \in Gens |-> NewTmo]
  /\ chan = [g \in Gens |-> [c \in Cores |-> NewChan]]
  /\ trav = [g \in Gens |-> NewTrav]
  /\ name = 0
  /\ ids = {}
  /\ creator = [pc |-> "idle", gen |-> 0]
  /\ destroyer = [p \in Tasks |-> NoTask]
  /\ panic = ""
  /\ ops = 0
  /\ events = [g \in Gens |-> [e \in Notices |-> 0]]

Request(e) == e \in Events /\ ops < MaxOps /\ ops' = ops + 1

(***************************************************************************)
(* The state machine of the controller.                                    *)
(***************************************************************************)
CheckTransition(from, to) ==
  CASE from = "New" -> to = "Initializing"
    [] from = "Initializing" -> to \in {"Running", "Faulted"}
    [] from = "Running" -> to \in {"Unconfiguring", "Faulted"}
    [] from = "Unconfiguring" -> to \in {"Unconfigured", "Faulted"}
    [] from = "Faulted" -> to \in {"Running", "Unconfiguring", "Faulted"}
    [] OTHER -> FALSE

Notify(g, e) == events' = [events EXCEPT ![g][e] = @ + 1]

-----------------------------------------------------------------------------
(***************************************************************************)
(* create(): a New controller is listed as a guard, then the attach is     *)
(* awaited.  The connection can be refused on the spot.                    *)
(***************************************************************************)
CreateStart ==
  /\ creator.pc = "idle"
  /\ name = 0
  /\ \E g \in Gens : /\ ctl[g].st = "None"
                     /\ \A h \in 1..(g - 1) : ctl[h].st # "None"
                     /\ \/ /\ ctl' = [ctl EXCEPT ![g] = NewCtl]
                           /\ name' = g
                           /\ creator' = [pc |-> "attaching", gen |-> g]
                        \/ /\ ctl' = [ctl EXCEPT ![g].st = "Dropped"]
                           /\ UNCHANGED <<name, creator>>
  /\ Request("create")
  /\ UNCHANGED <<tmo, chan, trav, ids, destroyer, panic, events>>

\* The probe poller reports a failed attach.
AttachFails ==
  /\ creator.pc = "attaching"
  /\ creator' = [creator EXCEPT !.pc = "failed"]
  /\ UNCHANGED <<core, destroyer, panic, ops, events>>

\* connected_attached_cb(), with the namespaces it finds.
Attached(active) ==
  /\ creator.pc = "attaching"
  /\ UNCHANGED <<destroyer, ops, events>>
  /\ IF name = 0 \/ ~CheckTransition(ctl[name].st, "Initializing")
       THEN panic' = "attach" /\ UNCHANGED <<core, creator>>
       ELSE /\ ctl' = [ctl EXCEPT ![name].st = IF active THEN "Running" ELSE "Faulted",
                                  ![name].inner = TRUE,
                                  ![name].ns = active]
            /\ ids' = IF active THEN ids \cup {name} ELSE ids
            /\ creator' = [creator EXCEPT !.pc = IF active THEN "attached" ELSE "failed"]
            /\ UNCHANGED <<tmo, chan, trav, name, panic>>

\* The continuation of create() once the attach succeeded.
CreateDone ==
  /\ creator.pc = "attached"
  /\ UNCHANGED <<core, destroyer, ops, events>>
  /\ IF name = 0 \/ ctl[name].st # "Running"
       THEN panic' = "create" /\ UNCHANGED creator
       ELSE creator' = [creator EXCEPT !.pc = "idle"] /\ UNCHANGED panic

-----------------------------------------------------------------------------
(***************************************************************************)
(* shutdown() and destroy_device().  A controller that is still New is     *)
(* unlisted at once, any other is shut down first.  Nothing stops a client *)
(* from destroying a device whose create() is pending.                     *)
(***************************************************************************)
Shutdown(p) ==
  /\ CheckTransition(ctl[name].st, "Unconfiguring")
  /\ ctl' = [ctl EXCEPT ![name].st = "Unconfiguring", ![name].destroying = TRUE]
  /\ destroyer' = [destroyer EXCEPT ![p] = [pc |-> "shutdown", gen |-> name, at |-> 1]]

DestroyStart(p) ==
  /\ destroyer[p].pc = "idle"
  /\ name # 0
  /\ UNCHANGED <<tmo, chan, trav, panic>>
  /\ \/ /\ ctl[name].st = "New"
        /\ destroyer' = [destroyer EXCEPT ![p] = [pc |-> "drop", gen |-> name, at |-> Idle]]
        /\ name' = 0
        /\ Notify(name, "DeviceRemoved")
        /\ UNCHANGED <<ctl, ids>>
     \/ Shutdown(p) /\ UNCHANGED <<name, ids, events>>

ClientDestroys(p) ==
  /\ DestroyStart(p)
  /\ Request("destroy")
  /\ UNCHANGED creator

\* create() removes the controller whose attach failed, if it can.
CreatorDestroys ==
  /\ creator.pc = "failed"
  /\ UNCHANGED ops
  /\ \/ /\ DestroyStart(0)
        /\ creator' = [creator EXCEPT !.pc = "destroy"]
     \/ /\ name # 0 => ctl[name].st \in {"Unconfiguring", "Unconfigured"}
        /\ creator' = [creator EXCEPT !.pc = "idle"]
        /\ UNCHANGED <<core, destroyer, panic, events>>

CreateFailed ==
  /\ creator.pc = "destroy"
  /\ destroyer[0].pc = "idle"
  /\ creator' = [creator EXCEPT !.pc = "idle"]
  /\ UNCHANGED <<core, destroyer, panic, ops, events>>

\* Mutant: the channel keeps its reference to the controller.
ShutdownVisitKeeps(p) ==
  LET g == destroyer[p].gen
      c == destroyer[p].at
  IN /\ destroyer[p].pc = "shutdown"
     /\ c \in Cores
     /\ chan' = IF chan[g][c].st = "open"
                  THEN [chan EXCEPT ![g][c] = [st |-> "shut", qpair |-> FALSE, ctrl |-> TRUE]]
                  ELSE chan
     /\ destroyer' = [destroyer EXCEPT ![p].at = c + 1]
     /\ UNCHANGED <<ctl, tmo, trav, name, ids, creator, panic, ops, events>>

\* _shutdown_channels() on the next core, if it has a channel.
ShutdownVisit(p) ==
  LET g == destroyer[p].gen
      c == destroyer[p].at
  IN /\ destroyer[p].pc = "shutdown"
     /\ c \in Cores
     /\ chan' = IF chan[g][c].st = "open"
                  THEN [chan EXCEPT ![g][c] = [st |-> "shut", qpair |-> FALSE, ctrl |-> FALSE]]
                  ELSE chan
     /\ destroyer' = [destroyer EXCEPT ![p].at = c + 1]
     /\ UNCHANGED <<ctl, tmo, trav, name, ids, creator, panic, ops, events>>

\* _shutdown_channels_done(), which looks the controller up by its name.
ShutdownDone(p) ==
  /\ destroyer[p].pc = "shutdown"
  /\ destroyer[p].at = NumCores + 1
  /\ UNCHANGED <<ops, events>>
  /\ IF name = 0 \/ ~CheckTransition(ctl[name].st, "Unconfigured")
       THEN panic' = "shutdown" /\ UNCHANGED <<core, futures>>
       ELSE /\ ctl' = [ctl EXCEPT ![name].st = "Unconfigured", ![name].ns = FALSE,
                                  ![name].failed = TRUE]
            /\ destroyer' = [destroyer EXCEPT ![p].pc = "remove", ![p].at = Idle]
            /\ UNCHANGED <<tmo, chan, trav, name, ids, creator, panic>>

\* remove_by_name() and the notice to the listeners.
DestroyRemove(p) ==
  /\ destroyer[p].pc = "remove"
  /\ name' = 0
  /\ ids' = ids \ {name}
  /\ Notify(destroyer[p].gen, "DeviceRemoved")
  /\ destroyer' = [destroyer EXCEPT ![p].pc = "drop"]
  /\ UNCHANGED <<ctl, tmo, chan, trav, creator, panic, ops>>

\* Who else holds the Arc of the controller that p is about to drop.
Shared(p) ==
  LET g == destroyer[p].gen IN
  \/ name = g
  \/ g \in ids
  \/ \E c \in Cores : chan[g][c].ctrl
  \/ \E q \in Tasks \ {p} : destroyer[q].pc # "idle" /\ destroyer[q].gen = g

\* The loop around try_unwrap(), and the Drop of the controller.  The loop
\* takes any time: a look-up on another core may hold the controller.
DestroyDrop(p) ==
  LET g == destroyer[p].gen IN
  /\ destroyer[p].pc = "drop"
  /\ ~Shared(p)
  /\ UNCHANGED <<ops, events>>
  /\ IF ctl[g].st \notin {"New", "Unconfigured"}
       THEN panic' = "drop" /\ UNCHANGED <<core, futures>>
       ELSE /\ ctl' = [ctl EXCEPT ![g].st = "Dropped", ![g].inner = FALSE]
            /\ destroyer' = [destroyer EXCEPT ![p] = NoTask]
            /\ UNCHANGED <<tmo, chan, trav, name, ids, creator, panic>>

-----------------------------------------------------------------------------
(***************************************************************************)
(* I/O channels: one per core, opened by the first handle on the core.     *)
(***************************************************************************)
\* A device is found only while its controller is Running.
Lookup == name # 0 /\ ctl[name].st = "Running"

ChannelCreate(g, c) ==
  /\ chan[g][c].st = "none"
  /\ g \in ids
  /\ ctl[g].st = "Running"
  /\ UNCHANGED <<futures, events>>
  /\ Request("channel")
  /\ IF ~ctl[g].ns
       THEN panic' = "namespace" /\ UNCHANGED core
       ELSE /\ Lookup
            /\ chan' = [chan EXCEPT ![g][c] = [st |-> "open", qpair |-> TRUE, ctrl |-> TRUE]]
            /\ UNCHANGED <<ctl, tmo, trav, name, ids, panic>>

ChannelDestroy(g, c) ==
  /\ chan[g][c].st # "none"
  /\ chan' = [chan EXCEPT ![g][c] = NewChan]
  /\ UNCHANGED <<ctl, tmo, trav, name, ids, futures, panic, ops, events>>

-----------------------------------------------------------------------------
(***************************************************************************)
(* Reset: the channels lose their queue pairs in a first traversal and get *)
(* new ones in a second.  `by` is the generation whose TimeoutConfig asked,*)
(* or 0 for a user of the device.                                          *)
(***************************************************************************)
ResetAllowed(g) == ctl[g].st \in {"Running", "Faulted"} /\ ~ctl[g].resetActive

Reset(g, by) ==
  /\ ResetAllowed(g)
  /\ ctl' = [ctl EXCEPT ![g].resetActive = TRUE]
  /\ trav' = [trav EXCEPT ![g].reset = [NoReset EXCEPT !.phase = 1, !.at = 1, !.by = by]]

UserReset ==
  /\ name # 0
  /\ Reset(name, 0)
  /\ Request("reset")
  /\ UNCHANGED <<tmo, chan, name, ids, futures, panic, events>>

\* Mutant: a core without a channel does not let the traversal go on.
ResetDestroyVisitStuck(g) ==
  LET r == trav[g].reset
      c == r.at
  IN /\ r.phase = 1
     /\ c \in Cores
     /\ chan[g][c].st # "none"
     /\ LET shut == r.shutdown \/ chan[g][c].st = "shut" IN
          /\ trav' = [trav EXCEPT ![g].reset.at = c + 1, ![g].reset.shutdown = shut]
          /\ chan' = IF shut THEN chan ELSE [chan EXCEPT ![g][c].qpair = FALSE]
     /\ UNCHANGED <<ctl, tmo, name, ids, futures, panic, ops, events>>

\* _reset_destroy_channels()
ResetDestroyVisit(g) ==
  LET r == trav[g].reset
      c == r.at
  IN /\ r.phase = 1
     /\ c \in Cores
     /\ LET shut == r.shutdown \/ chan[g][c].st = "shut" IN
          /\ trav' = [trav EXCEPT ![g].reset.at = c + 1, ![g].reset.shutdown = shut]
          /\ chan' = IF shut THEN chan ELSE [chan EXCEPT ![g][c].qpair = FALSE]
     /\ UNCHANGED <<ctl, tmo, name, ids, futures, panic, ops, events>>

\* _reset_destroy_channels_done(): nobody is called back when a shutdown
\* was met.
ResetDestroyDone(g) ==
  LET r == trav[g].reset IN
  /\ r.phase = 1
  /\ r.at = NumCores + 1
  /\ trav' = [trav EXCEPT ![g].reset = IF r.shutdown THEN NoReset
                                        ELSE [r EXCEPT !.phase = 2, !.at = 1]]
  /\ UNCHANGED <<ctl, tmo, chan, name, ids, futures, panic, ops, events>>

\* _reset_create_channels(): a channel that cannot be reinitialised ends
\* the traversal.
ResetCreateVisit(g) ==
  LET r == trav[g].reset
      c == r.at
  IN /\ r.phase = 2
     /\ c \in Cores
     /\ \/ /\ chan' = IF chan[g][c].st = "open" THEN [chan EXCEPT ![g][c].qpair = TRUE] ELSE chan
           /\ trav' = [trav EXCEPT ![g].reset.at = c + 1]
        \/ /\ chan[g][c].st = "open"
           /\ chan' = [chan EXCEPT ![g][c].qpair = FALSE]
           /\ trav' = [trav EXCEPT ![g].reset.at = NumCores + 1, ![g].reset.failed = TRUE]
     /\ UNCHANGED <<ctl, tmo, name, ids, futures, panic, ops, events>>

\* TimeoutConfig::reset_cb()
ResetCb(g, failed) ==
  IF failed THEN [tmo EXCEPT ![g].cooling = @ \/ tmo[g].attempts = 0, ![g].busy = FALSE]
            ELSE [tmo EXCEPT ![g].attempts = 1, ![g].busy = FALSE]

\* The assertion that fails when reset r completes: the reset flag of the
\* controller now listed, or the flag of the TimeoutConfig (freed with its
\* controller) that reset_cb() clears.
ResetFailure(r) ==
  CASE name # 0 /\ ~ctl[name].resetActive -> "resetFlag"
    [] r.by # 0 /\ ctl[r.by].st = "Dropped" -> "context"
    [] r.by # 0 /\ ~tmo[r.by].busy -> "exclusive"
    [] OTHER -> ""

\* _complete_reset(), which looks the controller up by its name again.
CompleteReset(g) ==
  LET r == trav[g].reset IN
  /\ r.phase = 2
  /\ r.at = NumCores + 1
  /\ UNCHANGED <<chan, name, ids, futures, ops, events>>
  /\ panic' = ResetFailure(r)
  /\ IF panic' # ""
     THEN UNCHANGED <<ctl, tmo, trav>>
     ELSE /\ ctl' = IF name = 0 THEN ctl
                    ELSE [ctl EXCEPT ![name].resetActive = FALSE,
                                     ![name].st = IF r.failed /\ @ = "Running" THEN "Faulted" ELSE @]
          /\ tmo' = IF r.by = 0 THEN tmo ELSE ResetCb(r.by, r.failed)
          /\ trav' = [trav EXCEPT ![g].reset = NoReset]

-----------------------------------------------------------------------------
(***************************************************************************)
(* Hot removal, and the handling of I/O timeouts.                          *)
(***************************************************************************)
Live(g) == ctl[g].inner     \* the poller and the timeout callback exist

HotRemove(g) ==
  /\ Live(g)
  /\ name # 0
  /\ ctl[name].inner
  /\ trav[name].hot = Idle
  /\ ctl' = [ctl EXCEPT ![name].failed = TRUE]
  /\ trav' = [trav EXCEPT ![name].hot = 1, ![name].hotShut = FALSE]
  /\ Request("hotRemove")
  /\ UNCHANGED <<tmo, chan, name, ids, futures, panic, events>>

HotRemoveVisit(g) ==
  LET c == trav[g].hot IN
  /\ c \in Cores
  /\ LET shut == trav[g].hotShut \/ chan[g][c].st = "shut" IN
       /\ chan' = IF shut THEN chan ELSE [chan EXCEPT ![g][c].qpair = FALSE]
       /\ trav' = [trav EXCEPT ![g].hot = IF c = NumCores THEN Idle ELSE c + 1,
                               ![g].hotShut = shut]
  /\ UNCHANGED <<ctl, tmo, name, ids, futures, panic, ops, events>>

\* reset_controller(), called when a command timed out.
ResetController(g) ==
  LET t == tmo[g]
      attempts == IF t.attempts = 0 /\ ~t.cooling THEN 1 ELSE t.attempts
      asks == attempts > 0 /\ name # 0
      left == IF attempts > 0 THEN attempts - 1 ELSE 0
  IN IF ~t.busy
       THEN tmo' = [tmo EXCEPT ![g].busy = TRUE] /\ UNCHANGED <<ctl, trav>>
       ELSE IF asks /\ ResetAllowed(name)
         THEN Reset(name, g) /\ tmo' = [tmo EXCEPT ![g].attempts = left]
         ELSE tmo' = [tmo EXCEPT ![g].attempts = left, ![g].busy = FALSE] /\ UNCHANGED <<ctl, trav>>

Timeout(g) ==
  /\ Live(g)
  /\ ResetController(g)
  /\ Request("timeout")
  /\ UNCHANGED <<chan, name, ids, futures, panic, events>>

CoolDown(g) ==
  /\ tmo[g].cooling
  /\ tmo' = [tmo EXCEPT ![g].cooling = FALSE]
  /\ UNCHANGED <<ctl, chan, trav, name, ids, futures, panic, ops, events>>

-----------------------------------------------------------------------------
(***************************************************************************)
(* What the admin queue brings: the change of the namespaces, and errors.  *)
(***************************************************************************)
\* populate_namespaces(): without an active namespace the controller is
\* faulted, and who listens is told if it had one.
Populate(g, active) ==
  /\ ctl' = [ctl EXCEPT ![g].ns = active, ![g].st = IF active THEN @ ELSE "Faulted"]
  /\ events' = IF ~active /\ ctl[g].ns
                 THEN [events EXCEPT ![g]["DeviceRemoved"] = @ + 1] ELSE events

\* aer_cb()
NamespaceEvent(g, active) ==
  /\ g \in ids
  /\ Live(g)
  /\ ~ctl[g].failed         \* a failed controller completes nothing
  /\ Request("aer")
  /\ UNCHANGED <<tmo, chan, trav, name, ids, futures>>
  /\ IF ~active /\ ~CheckTransition(ctl[g].st, "Faulted")
       THEN panic' = "aer" /\ UNCHANGED <<ctl, events>>
       ELSE Populate(g, active) /\ UNCHANGED panic

\* report_failed(): the failure of the controller is reported once.
ReportFailed(g) ==
  /\ ctl' = [ctl EXCEPT ![g].report = FALSE]
  /\ IF name = 0 THEN UNCHANGED events ELSE Notify(name, "AdminQNoticeCtrlFailed")

\* adminq_broken_tmo(): the first error starts the clock, and when the time
\* is over the queue is reported as broken, once.
AdminqBroken(g) ==
  /\ ctl' = [ctl EXCEPT ![g].broken = IF @ < 2 THEN @ + 1 ELSE @]
  /\ IF ctl[g].broken = 1 /\ name # 0 THEN Notify(name, "AdminQBroken") ELSE UNCHANGED events

\* start_device_destroy(): the first one to ask gets it.
StartDeviceDestroy(g) == ~ctl[g].destroying

\* nvme_poll_adminq() when the queue reports an error.
AdminqError(g) ==
  /\ Live(g)
  /\ Request("adminq")
  /\ UNCHANGED <<tmo, chan, trav, name, ids, futures>>
  /\ IF StartDeviceDestroy(g)
       THEN IF name = 0
              THEN panic' = "adminq" /\ UNCHANGED <<ctl, events>>
              ELSE /\ ctl' = [ctl EXCEPT ![g].destroying = TRUE]
                   /\ Notify(name, "AdminCommandCompletionFailed")
                   /\ UNCHANGED panic
       ELSE /\ UNCHANGED panic
            /\ IF ctl[g].failed /\ ctl[g].report THEN ReportFailed(g) ELSE AdminqBroken(g)

-----------------------------------------------------------------------------
Traversals ==
  \/ \E p \in Tasks : ShutdownVisit(p) \/ ShutdownDone(p)
  \/ \E g \in Gens : \/ ResetDestroyVisit(g) \/ ResetDestroyDone(g)
                     \/ ResetCreateVisit(g) \/ CompleteReset(g)
                     \/ HotRemoveVisit(g)

Futures ==
  \/ CreateDone \/ CreatorDestroys \/ CreateFailed
  \/ \E p \in Tasks : DestroyRemove(p) \/ DestroyDrop(p)

Attach == AttachFails \/ \E active \in BOOLEAN : Attached(active)

Environment ==
  \/ CreateStart \/ UserReset
  \/ \E p \in Tasks \ {0} : ClientDestroys(p)
  \/ \E g \in Gens : \/ HotRemove(g) \/ Timeout(g) \/ CoolDown(g) \/ AdminqError(g)
                     \/ \E active \in BOOLEAN : NamespaceEvent(g, active)
                     \/ \E c \in Cores : ChannelCreate(g, c) \/ ChannelDestroy(g, c)

Next == panic = "" /\ (Environment \/ Attach \/ Futures \/ Traversals)

Spec == Init /\ [][Next]_vars

(***************************************************************************)
(* The reactors run every message and every future that is ready.          *)
(***************************************************************************)
Fairness ==
  /\ WF_vars(panic = "" /\ Attach)
  /\ WF_vars(panic = "" /\ (CreateDone \/ CreatorDestroys \/ CreateFailed))
  /\ \A p \in Tasks : WF_vars(panic = "" /\ (ShutdownVisit(p) \/ ShutdownDone(p)
                                               \/ DestroyRemove(p) \/ DestroyDrop(p)))
  /\ \A g \in Gens : WF_vars(panic = "" /\ (ResetDestroyVisit(g) \/ ResetDestroyDone(g)
                                              \/ ResetCreateVisit(g) \/ CompleteReset(g)))
FairSpec == Spec /\ Fairness

-----------------------------------------------------------------------------
TypeOK ==
  /\ ctl \in [Gens -> [st : CtlStates, resetActive : BOOLEAN, ns : BOOLEAN, inner : BOOLEAN,
                       destroying : BOOLEAN, failed : BOOLEAN, report : BOOLEAN, broken : 0..2]]
  /\ tmo \in [Gens -> [busy : BOOLEAN, attempts : 0..1, cooling : BOOLEAN]]
  /\ chan \in [Gens -> [Cores -> [st : {"none", "open", "shut"}, qpair : BOOLEAN, ctrl : BOOLEAN]]]
  /\ trav \in [Gens -> [reset : [phase : 0..2, at : 0..(NumCores + 1), by : 0..MaxGens,
                                 shutdown : BOOLEAN, failed : BOOLEAN],
                        hot : 0..NumCores, hotShut : BOOLEAN]]
  /\ name \in 0..MaxGens
  /\ ids \subseteq Gens
  /\ creator \in [pc : {"idle", "attaching", "attached", "failed", "destroy"}, gen : 0..MaxGens]
  /\ destroyer \in [Tasks -> [pc : {"idle", "shutdown", "remove", "drop"},
                              gen : 0..MaxGens, at : 0..(NumCores + 1)]]
  /\ panic \in {"", "attach", "create", "shutdown", "drop", "namespace", "resetFlag",
                "context", "exclusive", "aer", "adminq"}
  /\ ops \in 0..MaxOps

\* A controller that is Unconfigured is out of use: whatever resets, hot
\* removals and openings overlapped its shutdown, no channel still has a
\* queue pair or holds the controller, and no namespace is left.
UnconfiguredIsQuiet ==
  \A g \in Gens : ctl[g].st \in {"Unconfigured", "Dropped"} =>
    /\ ~ctl[g].ns
    /\ \A c \in Cores : ~chan[g][c].qpair /\ ~chan[g][c].ctrl

\* Whoever finds a Running controller can use it: it has its namespace and
\* is listed under both of its keys ("No namespaces in active controller").
RunningIsUsable ==
  \A g \in Gens : ctl[g].st = "Running" => ctl[g].ns /\ name = g /\ g \in ids

\* The reset flag of a controller that nobody is destroying belongs to a
\* reset that is still running and will clear it.
ResetHasOwner ==
  \A g \in Gens : ctl[g].resetActive =>
    \/ trav[g].reset.phase # 0
    \/ ctl[g].st = "Dropped"
    \/ \E p \in Tasks : destroyer[p].gen = g

\* The nexus is told to retire a device through AdminCommandCompletionFailed
\* at most once, by the device itself, and never after the destruction of the
\* device began ("Prevent racing device destroy").
RetiredOnce ==
  [][\A g \in Gens :
       LET told == events[g]["AdminCommandCompletionFailed"] IN
       events'[g]["AdminCommandCompletionFailed"] # told =>
         told = 0 /\ ctl[g].inner /\ ~ctl[g].destroying]_vars

\* Whatever creates, resets, removes and destroys a controller at once, its
\* state, its channels and its flag tell the truth, and so does what the nexus
\* is told of it.
ControllerIsSound == [](TypeOK /\ UnconfiguredIsQuiet /\ RunningIsUsable /\ ResetHasOwner) /\ RetiredOnce

\* A reset of a controller that is not shut down meanwhile ends, and leaves
\* the controller free for the next reset.
ResetEnds ==
  \A g \in Gens : ctl[g].resetActive ~>
    \/ ~ctl[g].resetActive
    \/ ctl[g].st \in {"Unconfiguring", "Unconfigured", "Dropped"}
    \/ panic # ""
=============================================================================
