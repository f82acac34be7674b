-------------------------------- MODULE MCNvme --------------------------------
(***************************************************************************)
(* The NVMe initiator for TLC: the life of a controller, and the I/O path  *)
(* of one of its channels.  A behaviour is one of the two, chosen by part, *)
(* so that one run explores both and not their product.                    *)
(***************************************************************************)
EXTENDS NvmeController, NvmeIo

VARIABLE part

allVars == <<part, vars, ioVars>>

MCInit == part \in {"controller", "io"} /\ Init /\ IoInit

MCNext ==
  /\ UNCHANGED part
  /\ \/ part = "controller" /\ Next /\ UNCHANGED ioVars
     \/ part = "io" /\ IoNext /\ UNCHANGED vars

\* No action of either part is enabled in its initial state without a request,
\* so the fairness of one part says nothing about behaviours of the other.
MCSpec == MCInit /\ [][MCNext]_allVars /\ Fairness /\ IoFairness
=============================================================================
