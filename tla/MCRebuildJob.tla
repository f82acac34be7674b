----------------------------- MODULE MCRebuildJob -----------------------------
(***************************************************************************)
(* A rebuild job for TLC: a full rebuild that a nexus has started, or a    *)
(* rebuild from a map that RebuildJob::new has made.  A behaviour is one   *)
(* of the two, chosen by explored.                                         *)
(***************************************************************************)
EXTENDS RebuildJob

VARIABLE explored

FromMap == INSTANCE RebuildJob WITH NexusJob <- FALSE, Partial <- TRUE

MCInit == \/ explored = "full" /\ Init
          \/ explored = "map" /\ FromMap!Init

MCNext ==
    /\ UNCHANGED explored
    /\ \/ explored = "full" /\ Next
       \/ explored = "map" /\ FromMap!Next

MCSpec ==
    /\ MCInit /\ [][MCNext]_<<explored, vars>>
    /\ explored = "full" => Fairness
    /\ explored = "map" => FromMap!Fairness
=============================================================================
