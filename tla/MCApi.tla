-------------------------------- MODULE MCApi --------------------------------
(***************************************************************************)
(* The gRPC requests for nexuses and what they are answered, for TLC.  A   *)
(* behaviour is requests, a report, a history of rebuilds or snapshots,    *)
(* chosen by explored, so that one run explores all of them and not their  *)
(* product.                                                                *)
(***************************************************************************)
EXTENDS NexusApi, NexusReport, NexusSnapshot

VARIABLE explored

allVars == <<explored, apiVars, reportVars, snapshotVars>>

MCNexusName == [u \in Uuids |-> IF u = "u1" THEN "nexus-u1" ELSE "nexus-u2"]

\* A part that is not explored has one initial state.
MCInit ==
  /\ explored \in {"requests", "report", "history", "snapshot"}
  /\ ApiInit /\ ReportInit /\ SnapshotInit
  /\ explored # "requests" => nexus = [o \in Objects |-> Unused]

MCNext ==
  /\ UNCHANGED explored
  /\ \/ explored = "requests" /\ ApiNext /\ UNCHANGED <<reportVars, snapshotVars>>
     \/ explored = "report" /\ ReportNext /\ UNCHANGED <<apiVars, snapshotVars>>
     \/ explored = "history" /\ HistoryNext /\ UNCHANGED <<apiVars, snapshotVars>>
     \/ explored = "snapshot" /\ SnapshotNext /\ UNCHANGED <<apiVars, reportVars>>

MCSpec == MCInit /\ [][MCNext]_allVars

-----------------------------------------------------------------------------
\* What clients of the API rely on: a request works on a nexus that exists and
\* has the lock it needs, and what it is told fits together, in either version
\* of the API and over the pages of a history.
ApiIsSound ==
  RequestsAreSound /\ ReportIsConsistent /\ VersionsAgree /\ HistoryIsComplete /\ EveryReplicaReported
=============================================================================
