------------------------------- MODULE MCNode -------------------------------
(***************************************************************************)
(* What the engine runs on and what it keeps for others, for TLC: the      *)
(* reactors and their monitor, the life of the process, the NVMe-oF target *)
(* and a bdev shared by it, the information of a nexus in the persistent   *)
(* store, and a pool on LVM.  A behaviour is one of these, chosen by       *)
(* explored, so that one run explores all of them and not their product.   *)
(***************************************************************************)
EXTENDS Reactor, Engine, NvmfTarget, NvmfShare, PersistentStore, LvmPool

VARIABLE explored

coreVars == <<reactorVars, monitorVars, engineVars, tgtVars>>
storageVars == <<shareVars, storeVars, lvmVars>>
allVars == <<explored, coreVars, storageVars>>

MCSetups == {<<"poll", "loop">>, <<"delayed", "future">>, <<"interrupt", "loop">>, <<"interrupt", "future">>}
MCMaxShareOps == [nexus |-> 3, replica |-> 3]
MCMaxConnects == [nexus |-> 2, replica |-> 0]
MCMaxLvmOps == [pool |-> 3, replica |-> 2]

\* A part that is not explored has one initial state.
MCInit ==
  /\ explored \in {"reactor", "monitor", "engine", "target", "share", "store", "lvm"}
  /\ ReactorInit /\ MonitorInit /\ EngineInit /\ TgtInit /\ ShareInit /\ StoreInit /\ LvmInit
  /\ explored # "reactor" => mode = "poll"
  /\ explored # "target" => ~rdma
  /\ explored # "share" => target = "nexus"
  /\ explored # "lvm" => ~stale

CoreNext ==
  \/ explored = "reactor" /\ ReactorNext /\ UNCHANGED <<monitorVars, engineVars, tgtVars>>
  \/ explored = "monitor" /\ MonitorNext /\ UNCHANGED <<reactorVars, engineVars, tgtVars>>
  \/ explored = "engine" /\ EngineNext /\ UNCHANGED <<reactorVars, monitorVars, tgtVars>>
  \/ explored = "target" /\ TgtNext /\ UNCHANGED <<reactorVars, monitorVars, engineVars>>

StorageNext ==
  \/ explored = "share" /\ ShareNext /\ UNCHANGED <<storeVars, lvmVars>>
  \/ explored = "store" /\ StoreNext /\ UNCHANGED <<shareVars, lvmVars>>
  \/ explored = "lvm" /\ LvmNext /\ UNCHANGED <<shareVars, storeVars>>

MCNext ==
  /\ UNCHANGED explored
  /\ \/ CoreNext /\ UNCHANGED storageVars
     \/ StorageNext /\ UNCHANGED coreVars

MCSpec == MCInit /\ [][MCNext]_allVars
=============================================================================
