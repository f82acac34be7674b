----------------------------- MODULE MCNexusAdmin -----------------------------
(***************************************************************************)
(* The administration of a nexus for TLC, and the life of one child in     *)
(* more detail.  A behaviour is one of the two, chosen by part, so that    *)
(* one run explores both and not their product.                            *)
(***************************************************************************)
EXTENDS NexusAdmin

CONSTANTS Kinds, MaxDevices, MaxNvmeRpcs, MaxLoopbackRpcs, MaxHot

VARIABLES part, kind, device, child, channel, removals, unplugs, close, retires, childJob,
          childRpc, rpcs, hots, childDangling, gaveUp

MaxChildRpcs == [nvme |-> MaxNvmeRpcs, loopback |-> MaxLoopbackRpcs]

Child == INSTANCE NexusChild WITH
  MaxGens <- MaxDevices, MaxRpcs <- MaxChildRpcs,
  job <- childJob, rpc <- childRpc, dangling <- childDangling

childVars == <<kind, device, child, channel, removals, unplugs, close, retires, childJob,
               childRpc, rpcs, hots, childDangling, gaveUp>>
allVars == <<part, adminVars, childVars>>

\* A part that is not explored has one initial state.
MCInit ==
  /\ part \in {"nexus", "child"}
  /\ Init /\ Child!Init
  /\ part = "nexus" => kind = "nvme" /\ childJob = "none"

MCNext ==
  /\ UNCHANGED part
  /\ \/ part = "nexus" /\ Next /\ UNCHANGED childVars
     \/ part = "child" /\ Child!Next /\ UNCHANGED adminVars

\* No action of either part that is fair is enabled in its initial states, so
\* the fairness of one part says nothing about behaviours of the other.
MCSpec == MCInit /\ [][MCNext]_allVars /\ Fairness /\ Child!Fairness

-----------------------------------------------------------------------------
(* The properties of the child.                                            *)

\* What open(), close() and the requests that bring a child online assert of it.
ChildIsSound == Child!ChildIsSound

\* A close() whose destruction of the device reached a listener returns.
CloseReturns == Child!CloseReturns
=============================================================================
