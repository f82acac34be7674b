------------------------------- MODULE BdevUri -------------------------------
(***************************************************************************)
(* Block devices that are created and destroyed by their URI.  A URI is    *)
(* parsed into the template of a driver; creating the template adds a bdev *)
(* to the list of SPDK and gives it the URI as an alias, destroying it     *)
(* unregisters the bdev and waits until everyone who has it open has let   *)
(* go.  The requests of the bdev service hold no lock: they are futures of *)
(* one reactor, which interleave where they wait, and one request may run  *)
(* others (an FTL bdev creates and destroys the two it sits on).           *)
(* Sizes are counted in sectors of 512 bytes; a uuid of 0 is one that SPDK *)
(* made up.                                                                *)
(***************************************************************************)
EXTENDS Integers, Sequences, FiniteSets

CONSTANTS DeviceUris,          \* the URIs: a function from their names to their parts
          Clients,       \* the clients of the bdev service
          PerMiB,        \* sectors in a MiB
          FileSizes,     \* the sizes a file may have
          MaxUriOps,     \* bound: requests
          MaxUriFaults   \* bound: calls of SPDK that fail, bdevs that get a user

ASSUME DeviceUrisAssumption ==
  /\ PerMiB \in Nat \ {0}
  /\ \A u \in DOMAIN DeviceUris : {"scheme", "path", "params", "base", "cache"} = DOMAIN DeviceUris[u]

VARIABLES
  bdevs,      \* the bdevs by name
  open,       \* the bdevs that someone else has a descriptor of
  attached,   \* the NVMe controllers that are attached
  fileSize,   \* the size of the backing file
  calls,      \* the future of each client: a stack of create and destroy calls
  turn,       \* the client whose future the reactor runs until it waits
  uriOps, uriFaults,
  births,     \* ghost: bdevs registered so far
  failures,   \* ghost: the creates that failed and could clean up
  panicked

uriVars == <<bdevs, open, attached, fileSize, calls, turn, uriOps, uriFaults, births, failures, panicked>>
bdevVars == <<bdevs, births>>

Bad == -1            \* the value of a parameter that cannot be parsed
Nobody == "nobody"   \* no client

-----------------------------------------------------------------------------
(* Parsing.                                                                *)

Given(u, p) == p \in DOMAIN u.params
Get(u, p, default) == IF Given(u, p) THEN u.params[p] ELSE default

\* uri::segments()
HasPath(u) == u.path # ""

\* reject_unknown_parameters()
OnlyKnown(u, known) == DOMAIN u.params \subseteq known

\* The value of every parameter that is parsed can be.
ValuesParse(u) == \A p \in DOMAIN u.params : u.params[p] # Bad

\* The size that is asked for: size_mb, or size, but not both.
SizeOf(u) == IF Given(u, "size_mb") THEN u.params.size_mb * PerMiB ELSE Get(u, "size", 0)
OneSize(u) == ~(Given(u, "size_mb") /\ Given(u, "size"))

\* Malloc::try_from()
MallocTryFrom(u) ==
  /\ HasPath(u) /\ ValuesParse(u) /\ OneSize(u)
  /\ OnlyKnown(u, {"blk_size", "size_mb", "size", "num_blocks", "uuid", "resize"})
  /\ Get(u, "blk_size", 1) \in {1, 8}
  /\ ~(SizeOf(u) # 0 /\ Get(u, "num_blocks", 0) # 0)
  /\ SizeOf(u) # 0 \/ Get(u, "num_blocks", 0) # 0

\* Null::try_from(): a device of no size is accepted.
NullTryFrom(u) ==
  /\ HasPath(u) /\ ValuesParse(u) /\ OneSize(u)
  /\ OnlyKnown(u, {"blk_size", "size_mb", "size", "num_blocks", "uuid"})
  /\ Get(u, "blk_size", 1) \in {1, 8}
  /\ ~(SizeOf(u) # 0 /\ Get(u, "num_blocks", 0) # 0)

\* Aio::try_from()
AioTryFrom(u) == HasPath(u) /\ ValuesParse(u) /\ OnlyKnown(u, {"blk_size", "uuid", "rescan"})

\* Uring::try_from()
UringTryFrom(u) == HasPath(u) /\ ValuesParse(u) /\ OnlyKnown(u, {"blk_size", "uuid"})

\* Loopback::try_from()
LoopbackTryFrom(u) == HasPath(u) /\ ValuesParse(u) /\ OnlyKnown(u, {"uuid"})

\* Ftl::try_from(): the URIs of the two bdevs below it are parsed when it is created.
FtlTryFrom(u) == HasPath(u) /\ ValuesParse(u) /\ OnlyKnown(u, {"uuid"}) /\ u.base # "" /\ u.cache # ""

\* NVMe::try_from(): parameters are not looked at.
NvmeTryFrom(u) == HasPath(u)

\* Nexus::try_from()
NexusTryFrom(u) ==
  HasPath(u) /\ ValuesParse(u) /\ Given(u, "size") /\ Given(u, "children") /\ OnlyKnown(u, {"size", "children"})

\* parse(): a URI of no scheme we know is refused; the nvmf URIs of remote
\* replicas go to the NVMe initiator, see NvmeController, and lvol URIs to pools.
Parse(u) ==
  CASE u.scheme = "aio" -> AioTryFrom(u)
    [] u.scheme \in {"bdev", "loopback"} -> LoopbackTryFrom(u)
    [] u.scheme = "ftl" -> FtlTryFrom(u)
    [] u.scheme = "malloc" -> MallocTryFrom(u)
    [] u.scheme = "null" -> NullTryFrom(u)
    [] u.scheme = "pcie" -> NvmeTryFrom(u)
    [] u.scheme = "uring" -> UringTryFrom(u)
    [] u.scheme = "nexus" -> NexusTryFrom(u)
    [] OTHER -> FALSE

\* get_name(): the bdev of an NVMe controller is its first namespace.
GetName(u) == IF u.scheme = "pcie" THEN u.path \o "n1" ELSE u.path

Names == {GetName(DeviceUris[u]) : u \in DOMAIN DeviceUris}
BlkSize(u) == Get(u, "blk_size", 1)
NumBlocks(u) == IF Get(u, "num_blocks", 0) # 0 THEN Get(u, "num_blocks", 0) ELSE SizeOf(u) \div BlkSize(u)

\* The driver that makes the bdev of a URI.
Driver(u) == IF u.scheme = "pcie" THEN "nvme" ELSE u.scheme

\* bdev_uri_eq(): the URI names this bdev and its driver.
BdevUriEq(n, u) == GetName(u) = n /\ bdevs[n].driver = Driver(u)

\* bdev_uri_original(): the aliases that count as the URI of the bdev.
BdevUris(n) == {a \in bdevs[n].aliases : BdevUriEq(n, DeviceUris[a])}

-----------------------------------------------------------------------------
(* The list of bdevs.                                                      *)

Absent == [driver |-> "none", aliases |-> {}, blk |-> 1, blocks |-> 0, uuid |-> 0,
           removing |-> FALSE, by |-> 0, born |-> 0]

\* lookup_by_name(): a bdev that is being removed is still found.
Exists(n) == n \in Names /\ bdevs[n] # Absent

\* Registers the bdev of a URI, whose alias an other bdev may not have.
AddBdev(c, id, driver, blk, blocks) ==
  LET n == GetName(DeviceUris[id]) IN
  /\ births' = births + 1
  /\ bdevs' = [bdevs EXCEPT ![n] = [driver |-> driver, aliases |-> {id}, blk |-> blk, blocks |-> blocks,
                                    uuid |-> Get(DeviceUris[id], "uuid", 0), removing |-> FALSE,
                                    by |-> calls[c].id, born |-> births + 1]]

SpdkFails == uriFaults < MaxUriFaults /\ uriFaults' = uriFaults + 1

\* An FTL bdev has descriptors of the two bdevs below it.
Below(u) == {GetName(DeviceUris[u.base]), GetName(DeviceUris[u.cache])}
UnderFtl(n) ==
  \E f \in Names : /\ bdevs[f].driver = "ftl"
                  /\ \E a \in bdevs[f].aliases : DeviceUris[a].scheme = "ftl" /\ n \in Below(DeviceUris[a])

\* Someone opens the bdev.
OpenBdev(n) ==
  /\ Exists(n) /\ ~bdevs[n].removing /\ n \notin open
  /\ SpdkFails
  /\ open' = open \union {n}
  /\ UNCHANGED <<bdevs, attached, fileSize, calls, turn, uriOps, births, failures, panicked>>

\* The event callback of whoever has the bdev open closes it.
CloseBdev(n) ==
  /\ n \in open
  /\ open' = open \ {n}
  /\ UNCHANGED <<bdevs, attached, fileSize, calls, turn, uriOps, uriFaults, births, failures, panicked>>

-----------------------------------------------------------------------------
(* Calls.                                                                  *)

Top(c) == Head(calls[c].stack)
Uri(c) == DeviceUris[Top(c).uri]
NoCall(c) == calls[c].stack = <<>>
NoCalls == [id |-> 0, stack |-> <<>>, reply |-> "none", since |-> 0, leaks |-> FALSE]
Frame(op, uri) == [op |-> op, uri |-> uri, pc |-> "start", result |-> "ok"]

\* The future of c runs, and it is at a step of a call.
AtCall(c, op, schemes, pc) ==
  /\ turn \in {Nobody, c} /\ ~NoCall(c)
  /\ Top(c).pc = pc /\ Top(c).op = op /\ Uri(c).scheme \in schemes

\* The call at the top returns to the one that made it, or to the client.
Return(c, reply) ==
  LET rest == Tail(calls[c].stack) IN
  /\ calls' = [calls EXCEPT ![c] = IF rest = <<>> THEN NoCalls
                                   ELSE [@ EXCEPT !.stack = rest, !.reply = reply]]
  /\ turn' = IF rest = <<>> THEN Nobody ELSE c
  /\ failures' = IF rest = <<>> /\ Top(c).op = "create" /\ reply = "err" /\ ~calls[c].leaks
                         /\ (\E n \in Names : bdevs[n].by = calls[c].id)
                 THEN failures \union {calls[c].id} ELSE failures

\* The call at the top waits at pc for a callback.
Waits(c, pc) ==
  /\ calls' = [calls EXCEPT ![c].stack[1].pc = pc, ![c].reply = "none"]
  /\ turn' = Nobody
  /\ UNCHANGED failures

\* The call at the top calls another one, and goes on at pc when it has returned.
Calls(c, op, uri, pc) ==
  /\ calls' = [calls EXCEPT ![c].stack = <<Frame(op, uri), [Head(@) EXCEPT !.pc = pc]>> \o Tail(@)]
  /\ turn' = c
  /\ UNCHANGED failures

\* bdev_create(), bdev_destroy(): a request of the bdev service.
Request(c, op, uri) ==
  /\ NoCall(c) /\ turn = Nobody /\ uriOps < MaxUriOps
  /\ uriOps' = uriOps + 1
  /\ calls' = [calls EXCEPT ![c] = [id |-> uriOps + 1, stack |-> <<Frame(op, uri)>>, reply |-> "none",
                                    since |-> births, leaks |-> FALSE]]
  /\ turn' = c
  /\ UNCHANGED <<bdevVars, open, attached, fileSize, uriFaults, failures, panicked>>

\* A URI that cannot be parsed is refused.
ParseFails(c) ==
  /\ turn = c /\ Top(c).pc = "start" /\ ~Parse(Uri(c))
  /\ Return(c, "err")
  /\ UNCHANGED <<bdevVars, open, attached, fileSize, uriOps, uriFaults, panicked>>

-----------------------------------------------------------------------------
(* Drivers that create their bdev at once.                                 *)

\* Malloc::try_resize(): the new size is passed on in MiB.
TryResize(c) ==
  LET n == GetName(Uri(c)) IN
  /\ IF bdevs[n].driver = "malloc" /\ ~bdevs[n].removing
     THEN /\ bdevs' = [bdevs EXCEPT ![n].blocks = (((NumBlocks(Uri(c)) * BlkSize(Uri(c))) \div PerMiB) * PerMiB)
                                                  \div bdevs[n].blk]
          /\ Return(c, "ok")
     ELSE Return(c, "err") /\ UNCHANGED bdevs
  /\ UNCHANGED births

\* Aio::try_rescan()
TryRescan(c) ==
  LET n == GetName(Uri(c)) IN
  /\ IF bdevs[n].driver = "aio" /\ ~bdevs[n].removing
     THEN bdevs' = [bdevs EXCEPT ![n].blocks = fileSize \div bdevs[n].blk] /\ Return(c, "ok")
     ELSE Return(c, "err") /\ UNCHANGED bdevs
  /\ UNCHANGED births

\* Malloc::create()
MallocCreate(c) ==
  /\ AtCall(c, "create", {"malloc"}, "start") /\ Parse(Uri(c))
  /\ IF Exists(GetName(Uri(c)))
     THEN IF Given(Uri(c), "resize") THEN TryResize(c) ELSE Return(c, "err") /\ UNCHANGED bdevVars
     ELSE IF NumBlocks(Uri(c)) = 0 THEN Return(c, "err") /\ UNCHANGED bdevVars
     ELSE AddBdev(c, Top(c).uri, "malloc", BlkSize(Uri(c)), NumBlocks(Uri(c))) /\ Return(c, "ok")
  /\ UNCHANGED <<open, attached, fileSize, uriOps, uriFaults, panicked>>

\* Null::create()
NullCreate(c) ==
  /\ AtCall(c, "create", {"null"}, "start") /\ Parse(Uri(c))
  /\ IF Exists(GetName(Uri(c))) \/ NumBlocks(Uri(c)) = 0 THEN Return(c, "err") /\ UNCHANGED bdevVars
     ELSE AddBdev(c, Top(c).uri, "null", BlkSize(Uri(c)), NumBlocks(Uri(c))) /\ Return(c, "ok")
  /\ UNCHANGED <<open, attached, fileSize, uriOps, uriFaults, panicked>>

\* Aio::create()
AioCreate(c) ==
  /\ AtCall(c, "create", {"aio"}, "start") /\ Parse(Uri(c))
  /\ IF Exists(GetName(Uri(c)))
     THEN IF Given(Uri(c), "rescan") THEN TryRescan(c) ELSE Return(c, "err") /\ UNCHANGED bdevVars
     ELSE AddBdev(c, Top(c).uri, "aio", BlkSize(Uri(c)), fileSize \div BlkSize(Uri(c))) /\ Return(c, "ok")
  /\ UNCHANGED <<open, attached, fileSize, uriOps, uriFaults, panicked>>

\* Uring::create()
UringCreate(c) ==
  /\ AtCall(c, "create", {"uring"}, "start") /\ Parse(Uri(c))
  /\ IF Exists(GetName(Uri(c))) THEN Return(c, "err") /\ UNCHANGED bdevVars
     ELSE AddBdev(c, Top(c).uri, "uring", BlkSize(Uri(c)), fileSize \div BlkSize(Uri(c))) /\ Return(c, "ok")
  /\ UNCHANGED <<open, attached, fileSize, uriOps, uriFaults, panicked>>

\* SPDK cannot create the bdev.
CreateFails(c) ==
  /\ AtCall(c, "create", {"malloc", "null", "aio", "uring"}, "start") /\ Parse(Uri(c))
  /\ ~Exists(GetName(Uri(c)))
  /\ SpdkFails /\ Return(c, "err")
  /\ UNCHANGED <<bdevVars, open, attached, fileSize, uriOps, panicked>>

\* Loopback::create(): another alias of a bdev that is there.
LoopbackCreate(c) ==
  LET n == GetName(Uri(c)) IN
  /\ AtCall(c, "create", {"bdev", "loopback"}, "start") /\ Parse(Uri(c))
  /\ IF Exists(n) /\ Get(Uri(c), "uuid", bdevs[n].uuid) = bdevs[n].uuid
     THEN bdevs' = [bdevs EXCEPT ![n].aliases = @ \union {Top(c).uri}] /\ Return(c, "ok")
     ELSE Return(c, "err") /\ UNCHANGED bdevs
  /\ UNCHANGED <<births, open, attached, fileSize, uriOps, uriFaults, panicked>>

\* Loopback::destroy(): the alias goes, and whoever listens is told so.  That
\* there is no such bdev is not an error.
LoopbackDestroy(c) ==
  LET n == GetName(Uri(c)) IN
  /\ AtCall(c, "destroy", {"bdev", "loopback"}, "start") /\ Parse(Uri(c))
  /\ bdevs' = IF Exists(n) THEN [bdevs EXCEPT ![n].aliases = @ \ {Top(c).uri}] ELSE bdevs
  /\ Return(c, "ok")
  /\ UNCHANGED <<births, open, attached, fileSize, uriOps, uriFaults, panicked>>

-----------------------------------------------------------------------------
(* Destroying a bdev.                                                      *)

\* SPDK finds the bdev by name and refuses one that another module made.
IsOfModule(n, u) == bdevs[n].driver = Driver(u)

\* destroy() of a driver: the bdev is looked up, unregistered, and the callback
\* awaited.  A bdev of another driver, or one that is being removed already, is
\* refused by SPDK through the callback.
Delete(c, scheme) ==
  LET n == GetName(Uri(c)) IN
  /\ AtCall(c, "destroy", {scheme}, "start") /\ Parse(Uri(c))
  /\ IF ~Exists(n) \/ ~IsOfModule(n, Uri(c)) \/ bdevs[n].removing
     THEN Return(c, "err") /\ UNCHANGED bdevs
     ELSE bdevs' = [bdevs EXCEPT ![n].removing = TRUE] /\ Waits(c, "deleting")
  /\ UNCHANGED <<births, open, attached, fileSize, uriOps, uriFaults, panicked>>

MallocDestroy(c) == Delete(c, "malloc")
NullDestroy(c) == Delete(c, "null")
AioDestroy(c) == Delete(c, "aio")
UringDestroy(c) == Delete(c, "uring")
FtlDestroy(c) == Delete(c, "ftl")
NexusDestroy(c) == Delete(c, "nexus")
NvmeDestroy(c) == Delete(c, "pcie")

\* done_errno_cb(): the future that waits for the deletion goes on.
TellDeleted(n) ==
  /\ calls' = [c \in Clients |->
       IF ~NoCall(c) /\ Top(c).pc = "deleting" /\ GetName(Uri(c)) = n
       THEN [calls[c] EXCEPT !.reply = "ok", !.stack[1].pc = "deleted"] ELSE calls[c]]
  /\ UNCHANGED turn

\* The last descriptor is closed, and the bdev is gone.
Unregistered(n) ==
  /\ Exists(n) /\ bdevs[n].removing /\ n \notin open /\ ~UnderFtl(n) /\ turn = Nobody
  /\ bdevs' = [bdevs EXCEPT ![n] = Absent]
  /\ attached' = {a \in attached : a \o "n1" # n}
  /\ TellDeleted(n)
  /\ UNCHANGED <<births, open, fileSize, uriOps, uriFaults, failures, panicked>>

\* The drivers other than FTL are done.
Deleted(c) ==
  /\ AtCall(c, "destroy", {"malloc", "null", "aio", "uring", "nexus", "pcie"}, "deleted")
  /\ Return(c, calls[c].reply)
  /\ UNCHANGED <<bdevVars, open, attached, fileSize, uriOps, uriFaults, panicked>>

\* NVMe::destroy(): "Restore the alias in the case the deletion failed."
NvmeDeleteFails(c) ==
  LET n == GetName(Uri(c)) IN
  /\ AtCall(c, "destroy", {"pcie"}, "start") /\ Exists(n) /\ ~bdevs[n].removing
  /\ SpdkFails
  /\ bdevs' = [bdevs EXCEPT ![n].aliases = @ \union {Top(c).uri}]
  /\ Return(c, "err")
  /\ UNCHANGED <<births, open, attached, fileSize, uriOps, panicked>>

-----------------------------------------------------------------------------
(* An NVMe controller on the PCI bus, and a nexus.                         *)

\* NVMe::create(): a controller that is attached already is refused by SPDK.
NvmeCreate(c) ==
  /\ AtCall(c, "create", {"pcie"}, "start") /\ Parse(Uri(c))
  /\ IF Exists(Uri(c).path) \/ Uri(c).path \in attached THEN Return(c, "err") /\ UNCHANGED attached
     ELSE attached' = attached \union {Uri(c).path} /\ Waits(c, "attaching")
  /\ UNCHANGED <<bdevVars, open, fileSize, uriOps, uriFaults, panicked>>

\* nvme_create_cb(): the controller is attached, with a namespace ...
NvmeAttached(c) ==
  /\ AtCall(c, "create", {"pcie"}, "attaching")
  /\ AddBdev(c, Top(c).uri, "nvme", 1, PerMiB) /\ Return(c, "ok")
  /\ UNCHANGED <<open, attached, fileSize, uriOps, uriFaults, panicked>>

\* ... or cannot be ...
NvmeAttachFails(c) ==
  /\ AtCall(c, "create", {"pcie"}, "attaching")
  /\ SpdkFails
  /\ attached' = attached \ {Uri(c).path}
  /\ Return(c, "err")
  /\ UNCHANGED <<bdevVars, open, fileSize, uriOps, panicked>>

\* ... or has none: "bdev created but not found!"
NvmeNoNamespace(c) ==
  /\ AtCall(c, "create", {"pcie"}, "attaching")
  /\ SpdkFails
  /\ panicked' = TRUE
  /\ calls' = [calls EXCEPT ![c] = NoCalls] /\ turn' = Nobody
  /\ UNCHANGED <<bdevVars, open, attached, fileSize, uriOps, failures>>

\* Nexus::create(): nexus_create() opens the children first.
NexusBdevCreate(c) ==
  /\ AtCall(c, "create", {"nexus"}, "start") /\ Parse(Uri(c))
  /\ IF Exists(GetName(Uri(c))) THEN Return(c, "err") ELSE Waits(c, "opening")
  /\ UNCHANGED <<bdevVars, open, attached, fileSize, uriOps, uriFaults, panicked>>

\* The nexus is registered, unless another request was faster.
NexusCreated(c) ==
  /\ AtCall(c, "create", {"nexus"}, "opening")
  /\ IF Exists(GetName(Uri(c))) THEN Return(c, "err") /\ UNCHANGED bdevVars
     ELSE AddBdev(c, Top(c).uri, "nexus", 1, PerMiB) /\ Return(c, "ok")
  /\ UNCHANGED <<open, attached, fileSize, uriOps, uriFaults, panicked>>

-----------------------------------------------------------------------------
(* FTL: a bdev on a base and a cache bdev.                                 *)

\* Ftl::create(): the base first ...
FtlCreate(c) ==
  /\ AtCall(c, "create", {"ftl"}, "start") /\ Parse(Uri(c))
  /\ IF Exists(GetName(Uri(c))) THEN Return(c, "err") ELSE Calls(c, "create", Uri(c).base, "base")
  /\ UNCHANGED <<bdevVars, open, attached, fileSize, uriOps, uriFaults, panicked>>

\* Mutant: the base is destroyed as well when it could not be created.
FtlBaseCreatedUndo(c) ==
  /\ AtCall(c, "create", {"ftl"}, "base")
  /\ IF calls[c].reply = "err" THEN Calls(c, "destroy", Uri(c).base, "undone")
     ELSE Calls(c, "create", Uri(c).cache, "cache")
  /\ UNCHANGED <<bdevVars, open, attached, fileSize, uriOps, uriFaults, panicked>>

\* ... then the cache ...
FtlBaseCreated(c) ==
  /\ AtCall(c, "create", {"ftl"}, "base")
  /\ IF calls[c].reply = "err" THEN Return(c, "err") ELSE Calls(c, "create", Uri(c).cache, "cache")
  /\ UNCHANGED <<bdevVars, open, attached, fileSize, uriOps, uriFaults, panicked>>

\* ... and then bdev_ftl_create_bdev(); a cache that cannot be created takes the
\* base with it.
FtlCacheCreated(c) ==
  /\ AtCall(c, "create", {"ftl"}, "cache")
  /\ IF calls[c].reply = "err" THEN Calls(c, "destroy", Uri(c).base, "undone") ELSE Waits(c, "init")
  /\ UNCHANGED <<bdevVars, open, attached, fileSize, uriOps, uriFaults, panicked>>

\* bdev_ftl_create_bdev() refuses: base and cache are destroyed.
FtlRefused(c) ==
  /\ AtCall(c, "create", {"ftl"}, "cache") /\ calls[c].reply = "ok"
  /\ SpdkFails /\ Calls(c, "destroy", Uri(c).base, "undo")
  /\ UNCHANGED <<bdevVars, open, attached, fileSize, uriOps, panicked>>

FtlUndo(c) ==
  /\ AtCall(c, "create", {"ftl"}, "undo")
  /\ Calls(c, "destroy", Uri(c).cache, "undone")
  /\ UNCHANGED <<bdevVars, open, attached, fileSize, uriOps, uriFaults, panicked>>

\* That the clean-up failed is logged.
FtlUndone(c) ==
  /\ AtCall(c, "create", {"ftl"}, "undone")
  /\ Return(c, "err")
  /\ UNCHANGED <<bdevVars, open, attached, fileSize, uriOps, uriFaults, panicked>>

\* ftl_bdev_init_fn_cb(): the FTL bdev is there, if base and cache still are.
FtlCreated(c) ==
  LET u == Uri(c) IN
  /\ AtCall(c, "create", {"ftl"}, "init") /\ ~Exists(GetName(u))
  /\ \A n \in Below(u) : Exists(n) /\ ~bdevs[n].removing
  /\ AddBdev(c, Top(c).uri, "ftl", 1, PerMiB) /\ Return(c, "ok")
  /\ UNCHANGED <<open, attached, fileSize, uriOps, uriFaults, panicked>>

\* ftl_bdev_init_fn_cb() with an error: create() returns it at once.
FtlInitFails(c) ==
  LET gone == \E n \in Below(Uri(c)) : ~Exists(n) \/ bdevs[n].removing IN
  /\ AtCall(c, "create", {"ftl"}, "init")
  /\ IF gone \/ Exists(GetName(Uri(c))) THEN UNCHANGED uriFaults ELSE SpdkFails
  /\ calls' = [calls EXCEPT ![c].leaks = TRUE, ![c].stack[1].pc = "undone"]
  /\ turn' = c
  /\ UNCHANGED <<bdevVars, open, attached, fileSize, uriOps, failures, panicked>>

\* Ftl::destroy(): once the FTL bdev is gone, the base ...
FtlDeleted(c) ==
  /\ AtCall(c, "destroy", {"ftl"}, "deleted")
  /\ Calls(c, "destroy", Uri(c).base, "base")
  /\ UNCHANGED <<bdevVars, open, attached, fileSize, uriOps, uriFaults, panicked>>

\* ... and the cache ...
FtlBaseDeleted(c) ==
  /\ AtCall(c, "destroy", {"ftl"}, "base")
  /\ calls' = [calls EXCEPT ![c].stack = <<Frame("destroy", Uri(c).cache),
                 [Head(@) EXCEPT !.pc = "cache", !.result = calls[c].reply]>> \o Tail(@)]
  /\ turn' = c
  /\ UNCHANGED <<bdevVars, open, attached, fileSize, uriOps, uriFaults, failures, panicked>>

\* The first error of the two.
FtlResult(c) == IF Top(c).result = "err" THEN "err" ELSE calls[c].reply

\* ... whatever became of the base.
FtlCacheDeleted(c) ==
  /\ AtCall(c, "destroy", {"ftl"}, "cache")
  /\ Return(c, FtlResult(c))
  /\ UNCHANGED <<bdevVars, open, attached, fileSize, uriOps, uriFaults, panicked>>

-----------------------------------------------------------------------------
(* The specification.                                                      *)

\* The backing file of the aio and uring bdevs changes its size.
FileGrows ==
  /\ turn = Nobody /\ \E s \in FileSizes : s > fileSize /\ fileSize' = s
  /\ UNCHANGED <<bdevs, open, attached, calls, turn, uriOps, uriFaults, births, failures, panicked>>

UriInit ==
  /\ bdevs = [n \in Names |-> Absent] /\ open = {} /\ attached = {}
  /\ fileSize = CHOOSE s \in FileSizes : \A t \in FileSizes : s <= t
  /\ calls = [c \in Clients |-> NoCalls] /\ turn = Nobody
  /\ uriOps = 0 /\ uriFaults = 0 /\ births = 0 /\ failures = {} /\ panicked = FALSE

\* The steps of a future.
CreateStep(c) ==
  \/ MallocCreate(c) \/ NullCreate(c) \/ AioCreate(c) \/ UringCreate(c) \/ CreateFails(c)
  \/ LoopbackCreate(c) \/ NexusBdevCreate(c) \/ NexusCreated(c)
  \/ NvmeCreate(c) \/ NvmeAttached(c) \/ NvmeAttachFails(c) \/ NvmeNoNamespace(c)
  \/ FtlCreate(c) \/ FtlBaseCreated(c) \/ FtlCacheCreated(c) \/ FtlRefused(c)
  \/ FtlUndo(c) \/ FtlUndone(c) \/ FtlCreated(c) \/ FtlInitFails(c)

DestroyStep(c) ==
  \/ MallocDestroy(c) \/ NullDestroy(c) \/ AioDestroy(c) \/ UringDestroy(c) \/ FtlDestroy(c)
  \/ NexusDestroy(c) \/ NvmeDestroy(c) \/ NvmeDeleteFails(c) \/ LoopbackDestroy(c) \/ Deleted(c)
  \/ FtlDeleted(c) \/ FtlBaseDeleted(c) \/ FtlCacheDeleted(c)

CallStep(c) ==
  /\ turn \in {Nobody, c} /\ ~NoCall(c)
  /\ \/ ParseFails(c)
     \/ Top(c).op = "create" /\ CreateStep(c)
     \/ Top(c).op = "destroy" /\ DestroyStep(c)

UriNext ==
  /\ ~panicked
  /\ \/ \E c \in Clients, op \in {"create", "destroy"}, u \in DOMAIN DeviceUris : Request(c, op, u)
     \/ \E c \in Clients : CallStep(c)
     \/ \E n \in Names : Unregistered(n) \/ (turn = Nobody /\ (OpenBdev(n) \/ CloseBdev(n)))
     \/ FileGrows

UriSpec == UriInit /\ [][UriNext]_uriVars

-----------------------------------------------------------------------------
(* Properties                                                              *)

\* A bdev can be destroyed by the URI the service reports for it, and by no URI
\* it reports for another: the URI names the bdev and its driver, whatever
\* loopbacks were created on it and deletions failed.
ReportedUriIsOurs ==
  \A n \in Names : Exists(n) =>
    /\ BdevUris(n) # {}
    /\ \A a \in BdevUris(n) : IsOfModule(n, DeviceUris[a]) /\ DeviceUris[a].scheme \notin {"bdev", "loopback"}

Removing(n) == bdevs'[n].removing /\ ~bdevs[n].removing

\* Destroying a URI removes only a bdev that the driver of the URI made.
RemovedByOwnUri(n) ==
  Removing(n) => \E c \in Clients : ~NoCall(c) /\ GetName(Uri(c)) = n /\ Driver(Uri(c)) = bdevs[n].driver

\* A create that fails takes nothing with it that was there before it began,
\* whatever it cleans up and other requests do meanwhile.
FailureKeepsOthers(n) ==
  \A c \in Clients :
    Removing(n) /\ turn = c /\ calls[c].stack[Len(calls[c].stack)].op = "create" => bdevs[n].born > calls[c].since

\* No request takes a bdev away that is not its own: not by the URI of another
\* driver, not by cleaning up, and not by the URI the service reports.
BdevsAreKept ==
  [][bdevs' # bdevs =>
       (\A n \in Names : RemovedByOwnUri(n) /\ FailureKeepsOthers(n)) /\ ReportedUriIsOurs']_uriVars
=============================================================================
