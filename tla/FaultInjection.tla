---------------------------- MODULE FaultInjection ----------------------------
(***************************************************************************)
(* Faults injected on purpose (core/fault_injection): a list of injections *)
(* that the I/O paths of nexus children and block devices consult when an  *)
(* I/O is submitted and when it completes, and hooks that replace the      *)
(* submit function of one bdev.                                            *)
(***************************************************************************)
EXTENDS Integers, Sequences

CONSTANTS
  Uris,        \* injections clients add: [dev, opts], opts a function of option names
  Ios,         \* I/Os: [domain, dev, op, lo, hi], the blocks lo .. hi - 1
  MaxU64,      \* stands for u64::MAX and Duration::MAX
  MaxTime,     \* bound: the clock
  MaxItems,    \* bound: injections in the list
  MaxHits      \* bound: matching I/Os of an injection

VARIABLES
  items,     \* Injections::items
  hooks,     \* the bdevs with a replaced fn_table, by their key: [inj, orig]
  fn_table,  \* per bdev name its submit function: "none", "orig" or a key of hooks
  now,       \* Instant::now
  io,        \* the I/O that is submitted, or NoIo
  fault,     \* the injection an I/O has met since the last request: its URI, or NoFault
  wanted     \* URIs that were added, and not removed since

injVars == <<items, hooks, fn_table, now, io, fault, wanted>>

NoIo == [domain |-> "none", dev |-> "none", op |-> "none", lo |-> 0, hi |-> 0]
NoFault == [dev |-> "none", opts |-> <<>>]
Devs == {u.dev : u \in Uris} \cup {i.dev : i \in Ios}

-----------------------------------------------------------------------------
(* Injection.                                                              *)

Defaults ==
  [domain |-> "block", op |-> "read_write", stage |-> "submit", method |-> "status",
   begin_at |-> 0, end_at |-> MaxU64, offset |-> 0, num_blk |-> MaxU64, retries |-> MaxU64]

Option(opts, k) == IF k \in DOMAIN opts THEN opts[k] ELSE Defaults[k]

SaturatingAdd(a, b) == IF a + b > MaxU64 THEN MaxU64 ELSE a + b

FromUri(u) ==
  [uri |-> u, dev |-> u.dev,
   domain |-> Option(u.opts, "domain"), op |-> Option(u.opts, "op"),
   stage |-> Option(u.opts, "stage"), method |-> Option(u.opts, "method"),
   begin |-> Option(u.opts, "begin_at"), end |-> Option(u.opts, "end_at"),
   first |-> Option(u.opts, "offset"),
   last |-> SaturatingAdd(Option(u.opts, "offset"), Option(u.opts, "num_blk")),
   retries |-> Option(u.opts, "retries"),
   started |-> -1, hits |-> 0, faults |-> 0]

ValidDurations(inj) == inj.begin <= inj.end

\* The options an injection is printed with; those at their default are left out,
\* but for the first three.
AsUri(inj) ==
  LET all == [domain |-> inj.domain, op |-> inj.op, stage |-> inj.stage, method |-> inj.method,
              begin_at |-> inj.begin, end_at |-> inj.end, offset |-> inj.first,
              num_blk |-> IF inj.last = MaxU64 THEN MaxU64 ELSE inj.last - inj.first,
              retries |-> inj.retries]
      shown == {k \in DOMAIN all : k \in {"domain", "op", "stage"} \/ all[k] # Defaults[k]}
  IN  [dev |-> inj.dev, opts |-> [k \in shown |-> all[k]]]

IoTypeOk(inj, i) ==
  \/ inj.op = i.op
  \/ inj.op = "read_write" /\ i.op \in {"read", "write"}

BlockRangeOk(inj, i) == i.hi > inj.first /\ inj.last > i.lo

Matches(inj, stage, i) ==
  /\ inj.domain = i.domain
  /\ inj.stage = stage
  /\ IoTypeOk(inj, i)
  /\ inj.dev = i.dev
  /\ BlockRangeOk(inj, i)

\* tick: the first matching I/O starts the clock of the injection.
Tick(inj) ==
  IF inj.started = -1 THEN [inj EXCEPT !.started = now, !.hits = 1]
  ELSE [inj EXCEPT !.hits = @ + 1]

IsActive(inj) ==
  /\ inj.hits < inj.retries
  /\ inj.started # -1 /\ now - inj.started >= inj.begin /\ now - inj.started < inj.end

\* Injections::inject: the injections are tried in the order they were added up to
\* the first that injects; those that match count the I/O.  0 stands for none.
Injecting(stage, i) ==
  LET hit == {k \in 1 .. Len(items) :
                Matches(items[k], stage, i) /\ IsActive(Tick(items[k]))}
  IN  IF hit = {} THEN 0 ELSE CHOOSE k \in hit : \A j \in hit : k <= j

\* An injection of data spoils the buffers and lets the I/O pass.
StatusOf(inj) == IF inj.method = "data" THEN "ok" ELSE "error"

Injected(inj) == [Tick(inj) EXCEPT !.faults = IF StatusOf(inj) = "error" THEN @ + 1 ELSE @]

Ticked(stage, i, k) ==
  [j \in 1 .. Len(items) |->
     IF j = k THEN Injected(items[j])
     ELSE IF Matches(items[j], stage, i) /\ (k # 0 => j < k) THEN Tick(items[j])
     ELSE items[j]]

CanTick(stage, i) ==
  \A k \in 1 .. Len(items) : Matches(items[k], stage, i) => items[k].hits < MaxHits

-----------------------------------------------------------------------------
InjInit ==
  /\ items = <<>>
  /\ hooks = <<>>
  /\ fn_table = [d \in Devs |-> "orig"]
  /\ now = 0
  /\ io = NoIo
  /\ fault = NoFault
  /\ wanted = {}

\* add_bdev_io_injection: the fn_table of the bdev is replaced.  The entry stays
\* for good.
NvmeStatus(inj) == inj.method \in {"status", "status-nvme"}

Hookable(inj) ==
  /\ inj.stage = "submit"
  /\ NvmeStatus(inj)
  /\ fn_table[inj.dev] # "none"

HookFree(inj) == \A k \in DOMAIN hooks : hooks[k].inj.dev # inj.dev

AddBdevIoInjection(inj) ==
  /\ Hookable(inj)
  /\ HookFree(inj)
  /\ hooks' = Append(hooks, [inj |-> inj, orig |-> fn_table[inj.dev]])
  /\ fn_table' = [fn_table EXCEPT ![inj.dev] = "hook"]

AddFaultInjection(u) ==
  LET inj == FromUri(u) IN
    /\ Len(items) < MaxItems
    /\ ValidDurations(inj)
    /\ inj.domain = "bdev_io" => AddBdevIoInjection(inj)
    /\ inj.domain # "bdev_io" => UNCHANGED <<hooks, fn_table>>
    /\ items' = Append(items, inj)
    /\ wanted' = wanted \cup {u}
    /\ fault' = NoFault
    /\ UNCHANGED <<now, io>>

\* Mutant: only the first of several equal injections goes.
UnlistedFirst(u) ==
  LET at == {k \in 1 .. Len(items) : items[k].uri = u}
      first == CHOOSE k \in at : \A j \in at : k <= j
  IN  IF at = {} THEN items ELSE SubSeq(items, 1, first - 1) \o SubSeq(items, first + 1, Len(items))

\* retain() of Injections::remove.
Retained(u) == SelectSeq(items, LAMBDA inj : inj.uri # u)

RemoveFaultInjection(u) ==
  /\ ValidDurations(FromUri(u))
  /\ items' = Retained(u)
  /\ wanted' = wanted \ {u}
  /\ fault' = NoFault
  /\ UNCHANGED <<hooks, fn_table, now, io>>

\* inject_submission_error on the way to the device; an I/O that is not failed is
\* submitted, with its data spoilt if the injection says so.
SubmitIo(i) ==
  LET k == Injecting("submit", i) IN
    /\ i.domain \in {"block", "child"}
    /\ fn_table[i.dev] # "none"
    /\ io = NoIo
    /\ CanTick("submit", i)
    /\ items' = Ticked("submit", i, k)
    /\ fault' = IF k = 0 THEN NoFault ELSE items[k].uri
    /\ io' = IF k # 0 /\ StatusOf(items[k]) = "error" THEN NoIo ELSE i
    /\ UNCHANGED <<hooks, fn_table, now, wanted>>

\* inject_completion_error: only an I/O that succeeded is failed.
CompleteIo(ok) ==
  LET k == Injecting("compl", io) IN
    /\ io # NoIo
    /\ CanTick("compl", io)
    /\ IF ok
       THEN /\ items' = Ticked("compl", io, k)
            /\ fault' = IF k = 0 THEN NoFault ELSE items[k].uri
       ELSE UNCHANGED items /\ fault' = NoFault
    /\ io' = NoIo
    /\ UNCHANGED <<hooks, fn_table, now, wanted>>

\* inject_submit_request: the hook of the bdev decides, with its own copy of the
\* injection.
SubmitToBdev(i) ==
  LET k == CHOOSE j \in DOMAIN hooks : hooks[j].inj.dev = i.dev
      inj == hooks[k].inj
  IN
    /\ i.domain = "bdev_io"
    /\ fn_table[i.dev] = "hook"
    /\ inj.hits < MaxHits
    /\ IF Matches(inj, "submit", i)
       THEN LET active == IsActive(Tick(inj)) IN
              /\ hooks' = [hooks EXCEPT ![k].inj = IF active THEN Injected(@) ELSE Tick(@)]
              /\ fault' = IF active THEN inj.uri ELSE NoFault
       ELSE UNCHANGED hooks /\ fault' = NoFault
    /\ UNCHANGED <<items, fn_table, now, io, wanted>>

\* The bdev is destroyed, and created again under its name with a table of its own.
DestroyBdev(d) ==
  /\ fn_table[d] # "none" /\ io.dev # d
  /\ fn_table' = [fn_table EXCEPT ![d] = "none"]
  /\ UNCHANGED <<items, hooks, now, io, fault, wanted>>

CreateBdev(d) ==
  /\ fn_table[d] = "none"
  /\ fn_table' = [fn_table EXCEPT ![d] = "orig"]
  /\ UNCHANGED <<items, hooks, now, io, fault, wanted>>

TimePasses ==
  /\ now < MaxTime
  /\ now' = now + 1
  /\ UNCHANGED <<items, hooks, fn_table, io, fault, wanted>>

InjNext ==
  \/ \E u \in Uris : AddFaultInjection(u) \/ RemoveFaultInjection(u)
  \/ \E i \in Ios : SubmitIo(i) \/ SubmitToBdev(i)
  \/ \E ok \in BOOLEAN : CompleteIo(ok)
  \/ \E d \in Devs : DestroyBdev(d) \/ CreateBdev(d)
  \/ TimePasses

InjSpec == InjInit /\ [][InjNext]_injVars

-----------------------------------------------------------------------------
\* "Removes all injections matching the URI": an injection that was removed meets
\* no I/O, however often it was added, unless it is the hook of a bdev, which
\* removal leaves in place.
RemovedNeverInjects ==
  fault # NoFault /\ FromUri(fault).domain # "bdev_io" => fault \in wanted

\* An injection with a number of retries fails fewer I/Os than that number says,
\* however its I/Os and the passing of time interleave.
FaultsAreBounded ==
  \A inj \in {items[k] : k \in DOMAIN items} \cup {hooks[k].inj : k \in DOMAIN hooks} :
    inj.faults # 0 => inj.faults < inj.retries

\* The panics of inject_submit_request: a bdev whose submit function is replaced
\* is known, and its injection fails I/O with a status of NVMe.
HookIsSound ==
  /\ \A d \in Devs : fn_table[d] = "hook" => \E k \in DOMAIN hooks : hooks[k].inj.dev = d
  /\ \A k \in DOMAIN hooks : NvmeStatus(hooks[k].inj)

\* An injection printed as a URI is the same injection when it is parsed again.
UriRoundTrips ==
  \A k \in 1 .. Len(items) :
    LET again == FromUri(AsUri(items[k])) IN
      again = [items[k] EXCEPT !.uri = again.uri, !.started = -1, !.hits = 0, !.faults = 0]

\* Injections do what their URIs say and no more.
InjectionIsSound == RemovedNeverInjects /\ FaultsAreBounded /\ HookIsSound /\ UriRoundTrips
=============================================================================
