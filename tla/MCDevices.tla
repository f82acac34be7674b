------------------------------ MODULE MCDevices ------------------------------
(***************************************************************************)
(* What lies below a nexus, for TLC: the label of a disk, the size of a    *)
(* nexus, wiping, injected faults and reservations; bdevs made by URI, the *)
(* keys of encrypted ones, the contexts of the I/O to them, rebuilds from  *)
(* a snapshot and the blocks that a rebuild copies.  A behaviour is one of *)
(* these, chosen by explored, so that one run explores all of them and not *)
(* their product.                                                          *)
(***************************************************************************)
EXTENDS GptLabel, Wiper, FaultInjection, Reservation,
        BdevUri, CryptoKeys, DeviceIo, SnapshotRebuild, RebuildRange, TLC

VARIABLE explored

diskVars == <<gptVars, sizeVars, wipeVars, injVars, resvVars>>
ioVars == <<uriVars, keyVars, devIoVars, snapVars, rangeVars>>
allVars == <<explored, diskVars, ioVars>>

MCGeometries ==
  [block_size : {512}, num_blocks : {10273, 10274, 26624}]
    \cup [block_size : {4096}, num_blocks : {2304, 3072}]
MCBlocks == {10275, 10276, 10290, 18432}
MCReqSizes == {512, 1024, MiB, 2 * MiB}

InjUri(opts) == [dev |-> "d", opts |-> opts]
MCInjUris ==
  {InjUri([domain |-> "block", op |-> "write", retries |-> 2]),
   InjUri([stage |-> "compl", offset |-> 1, num_blk |-> 1, end_at |-> 1]),
   InjUri([method |-> "data", op |-> "read", begin_at |-> 1]),
   InjUri([domain |-> "bdev_io", retries |-> 3]),
   InjUri([domain |-> "bdev_io", method |-> "data"]),
   InjUri([domain |-> "child", begin_at |-> 2, end_at |-> 1])}
MCIos ==
  {[domain |-> "block", dev |-> "d", op |-> "write", lo |-> 0, hi |-> 2],
   [domain |-> "block", dev |-> "d", op |-> "read", lo |-> 0, hi |-> 1],
   [domain |-> "bdev_io", dev |-> "d", op |-> "write", lo |-> 2, hi |-> 3]}

\* The first host is given another key when it acquires again.
MCKeysOf == [h \in Hosts |-> IF h = "h1" THEN {"k1", "k2"} ELSE {"k3"}]
MCMaxAcquires == [h \in Hosts |-> IF h = "h1" THEN 2 ELSE 1]

\* Requests for bdevs: two of one name by several drivers and sizes, one file by
\* two drivers, and an FTL bdev on two others.
DeviceUri(s, p, ps) == [scheme |-> s, path |-> p, params |-> ps, base |-> "", cache |-> ""]
MCDeviceUris ==
  ("malloc" :> DeviceUri("malloc", "m", [size |-> 20, blk_size |-> 8, uuid |-> 7])) @@
  ("resize" :> DeviceUri("malloc", "m", [size_mb |-> 2, resize |-> 1])) @@
  ("both" :> DeviceUri("malloc", "m", [size_mb |-> 1, num_blocks |-> 40])) @@
  ("null" :> DeviceUri("null", "m", [num_blocks |-> 3])) @@
  ("aio" :> DeviceUri("aio", "a", [blk_size |-> 1])) @@
  ("rescan" :> DeviceUri("aio", "a", [rescan |-> 1])) @@
  ("uring" :> DeviceUri("uring", "a", <<>>)) @@
  ("loop" :> DeviceUri("bdev", "m", [uuid |-> 7])) @@
  ("pcie" :> DeviceUri("pcie", "p", <<>>)) @@
  ("nexus" :> DeviceUri("nexus", "x", [size |-> 1, children |-> 1])) @@
  ("ftl" :> [DeviceUri("ftl", "f", <<>>) EXCEPT !.base = "aio", !.cache = "pcie"])

\* The clients are alike: the second one asks while the first one waits.  How
\* large the file is matters once a bdev of it is there.
UriNextOrdered ==
  /\ UriNext
  /\ uriOps' > uriOps /\ turn' = "c2" => ~NoCall("c1")
  /\ fileSize' > fileSize => \E n \in Names : bdevs[n].driver = "aio"

\* Two replicas rebuilt from one remote snapshot, one of them local.
JobEnd(u, made) == [uri |-> u, create |-> made]
MCJobRequests ==
  ("a" :> [uuid |-> "u1", src |-> JobEnd("snap", TRUE), dst |-> JobEnd("r1", FALSE)]) @@
  ("b" :> [uuid |-> "u2", src |-> JobEnd("snap", TRUE), dst |-> JobEnd("r2", TRUE)])

SnapNextOrdered ==
  SnapNext /\ (snapOps' > snapOps /\ snapCall'["c2"] # snapCall["c2"] => snapCall["c1"].at # "none")

\* A part that is not explored has one initial state.
MCInit ==
  /\ explored \in {"label", "size", "wipe", "inject", "reserve", "uri", "keys", "io", "snap", "range"}
  /\ GptInit /\ SizeInit /\ WipeInit /\ InjInit /\ ResvInit
  /\ UriInit /\ KeyInit /\ DevIoInit /\ SnapInit /\ RangeInit
  /\ explored # "label" => props = [block_size |-> 512, num_blocks |-> 10273]
  /\ explored # "size" => dev = [c \in Children |-> [nb |-> 10275, bs |-> 512]]
  /\ explored # "wipe" => size = 0
  /\ explored # "range" =>
       /\ walk = "full" /\ holes = {}
       /\ geo = CHOOSE g \in [start : Starts, end : {s + n : s \in Starts, n \in RangeSizes}, src : Devices, dst : Devices] :
                  g.start < g.end /\ g.end - g.start \in RangeSizes /\ g.end <= g.src /\ g.end <= g.dst

DiskNext ==
  \/ explored = "label" /\ GptNext /\ UNCHANGED <<sizeVars, wipeVars, injVars, resvVars>>
  \/ explored = "size" /\ SizeNext /\ UNCHANGED <<gptVars, wipeVars, injVars, resvVars>>
  \/ explored = "wipe" /\ WipeNext /\ UNCHANGED <<gptVars, sizeVars, injVars, resvVars>>
  \/ explored = "inject" /\ InjNext /\ UNCHANGED <<gptVars, sizeVars, wipeVars, resvVars>>
  \/ explored = "reserve" /\ ResvNext /\ UNCHANGED <<gptVars, sizeVars, wipeVars, injVars>>

BdevNext ==
  \/ explored = "uri" /\ UriNextOrdered /\ UNCHANGED <<keyVars, devIoVars, snapVars, rangeVars>>
  \/ explored = "keys" /\ KeyNext /\ UNCHANGED <<uriVars, devIoVars, snapVars, rangeVars>>
  \/ explored = "io" /\ DevIoNext /\ UNCHANGED <<uriVars, keyVars, snapVars, rangeVars>>
  \/ explored = "snap" /\ SnapNextOrdered /\ UNCHANGED <<uriVars, keyVars, devIoVars, rangeVars>>
  \/ explored = "range" /\ RangeNext /\ UNCHANGED <<uriVars, keyVars, devIoVars, snapVars>>

MCNext ==
  /\ UNCHANGED explored
  /\ \/ DiskNext /\ UNCHANGED ioVars
     \/ BdevNext /\ UNCHANGED diskVars

MCSpec == MCInit /\ [][MCNext]_allVars
=============================================================================
