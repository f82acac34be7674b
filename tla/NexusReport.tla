------------------------------ MODULE NexusReport ------------------------------
(***************************************************************************)
(* What the gRPC services tell of a nexus: its status, computed from the   *)
(* states of the children (Nexus::status), the states of the children as   *)
(* the two versions of the API name them (state_client, map_child_state),  *)
(* gathered while rebuilds finish and children fail, and the history of    *)
(* rebuilds, which a client reads page by page (list_rebuild_history).     *)
(***************************************************************************)
EXTENDS Naturals, Sequences, FiniteSets, SequencesExt

CONSTANTS
  NumChildren,  \* the children of the nexus
  NumHistories, \* the nexuses with a history
  MaxRecords,   \* bound: the rebuilds that end
  MaxEvents     \* bound: the changes of children

VARIABLES
  state,    \* the state of the nexus
  children, \* its children, in order
  report,   \* the answer being put together
  changed,  \* ghost: the nexus changed since the answer was begun
  changes,   \* the number of changes
  hist,     \* the records of every nexus: the times they were made, oldest first
  clock,    \* the time of the last record
  client,   \* since: the end time of its last page; seen: the records it got
  cut       \* ghost: the records that a count left out of a page

reportVars == <<state, children, report, changed, changes, hist, clock, client, cut>>

Reasons == {"Unknown", "CantOpen", "NoSpace", "TimedOut", "IoError", "RebuildFailed",
            "AdminCommandFailed", "Offline", "OfflinePermanent", "HotRemove"}

-----------------------------------------------------------------------------
(* The states of a child.  open: its descriptor is held; job: it has a     *)
(* rebuild job.                                                            *)

Opened == [state |-> "Open", reason |-> "Unknown", synced |-> TRUE, closing |-> FALSE, open |-> TRUE, job |-> FALSE]

IsHealthy(c) == c.state = "Open" /\ c.synced
IsOpenedUnsync(c) == c.state = "Open" /\ ~c.synced

\* FaultReason::is_recoverable() and ChildState::is_recoverable().
RecoverableReason(r) == r \notin {"Unknown", "CantOpen", "OfflinePermanent"}
IsRecoverable(c) == c.state = "Closed" \/ (c.state = "Faulted" /\ RecoverableReason(c.reason))

StateClient(c) ==
  IF IsOpenedUnsync(c) THEN "OutOfSync"
  ELSE IF c.state # "Faulted" THEN c.state
  ELSE IF c.closing \/ c.open THEN "Faulting" ELSE "Faulted"

-----------------------------------------------------------------------------
(* The API's names.                                                        *)

MapFaultReason1(r) ==
  CASE r = "Unknown" -> "None"             [] r = "CantOpen" -> "CannotOpen"
    [] r = "NoSpace" -> "NoSpace"          [] r = "TimedOut" -> "TimedOut"
    [] r = "IoError" -> "IoFailure"        [] r \in {"Offline", "OfflinePermanent"} -> "ByClient"
    [] r = "RebuildFailed" -> "RebuildFailed" [] r = "AdminCommandFailed" -> "AdminFailed"
    [] r = "HotRemove" -> "HotRemoved"

\* Version 0 has no name for a hot removal.
MapFaultReason0(r) == IF r = "HotRemove" THEN "None" ELSE MapFaultReason1(r)

FaultedAs(r) == IF r \in {"NoSpace", "Offline"} THEN "Degraded" ELSE "Faulted"

MapChildState1(c) ==
  LET s == StateClient(c)
  IN  CASE s = "Init" -> <<"Degraded", "Init">>
        [] s = "ConfigInvalid" -> <<"Faulted", "ConfigInvalid">>
        [] s = "Open" -> <<"Online", "None">>
        [] s = "Closed" -> <<"Degraded", "Closed">>
        [] s = "Faulted" -> <<FaultedAs(c.reason), MapFaultReason1(c.reason)>>
        [] s = "Faulting" -> <<"Unknown", MapFaultReason1(c.reason)>>
        [] s = "OutOfSync" -> <<"Degraded", "OutOfSync">>

MapChildState0(c) ==
  LET s == StateClient(c)
  IN  CASE s = "Faulted" -> <<FaultedAs(c.reason), MapFaultReason0(c.reason)>>
        [] s = "Faulting" -> <<"Unknown", MapFaultReason0(c.reason)>>
        [] OTHER -> MapChildState1(c)

\* Nexus::status(); the API has the same five names for it.
Status ==
  IF state # "Open" THEN state
  ELSE IF \A i \in 1 .. Len(children) : IsHealthy(children[i]) THEN "Online"
  ELSE IF \E i \in 1 .. Len(children) : IsHealthy(children[i]) THEN "Degraded"
  ELSE "Faulted"

-----------------------------------------------------------------------------
(* The answer.                                                             *)

NoReport == [v |-> "", status |-> "", list |-> <<>>, waits |-> FALSE]

ReportInit ==
  /\ state = "Open" /\ children = [i \in 1 .. NumChildren |-> Opened]
  /\ report = NoReport /\ changed = FALSE /\ changes = 0
  /\ hist = [h \in 1 .. NumHistories |-> <<>>] /\ clock = 0
  /\ client = [since |-> 0, seen |-> <<>>] /\ cut = {}

historyVars == <<hist, clock, client, cut>>

\* into_grpc() and to_grpc_v2(): the status is read first.
ReportBegins(v) ==
  /\ report = NoReport
  /\ report' = [v |-> v, status |-> Status, list |-> <<>>, waits |-> FALSE]
  /\ changed' = FALSE
  /\ UNCHANGED <<state, children, changes, historyVars>>

\* to_grpc() of the next child: its state, then the progress of its rebuild,
\* which the job is asked for.
ReportChild ==
  /\ report.v # "" /\ Len(report.list) < Len(children)
  /\ LET c == children[Len(report.list) + 1]
     IN  report' = [report EXCEPT !.waits = c.job,
                      !.list = Append(@, IF report.v = "v1" THEN MapChildState1(c) ELSE MapChildState0(c))]
  /\ UNCHANGED <<state, children, changed, changes, historyVars>>

Complete == report.v # "" /\ Len(report.list) = Len(children)

ReportSent == Complete /\ report' = NoReport /\ UNCHANGED <<state, children, changed, changes, historyVars>>

-----------------------------------------------------------------------------
(* What happens to the nexus between the awaits.                           *)

Changes(new, st) ==
  /\ report.v = "" \/ report.waits
  /\ changes < MaxEvents /\ changes' = changes + 1
  /\ children' = new /\ state' = st /\ changed' = TRUE
  /\ UNCHANGED <<report, historyVars>>

\* A child fails, or a client takes it offline.
ChildFaults(i, r) ==
  /\ children[i].state \in {"Open", "Faulted"}
  /\ Changes([children EXCEPT ![i].state = "Faulted", ![i].reason = r, ![i].closing = TRUE, ![i].job = FALSE], state)

\* close() of the child is over.
ChildClosed(i) ==
  /\ children[i].closing
  /\ Changes([children EXCEPT ![i].closing = FALSE, ![i].open = FALSE], state)

\* online(): a child that can recover is opened again, and is rebuilt.
ChildOnline(i) ==
  /\ IsRecoverable(children[i]) /\ ~children[i].closing /\ state = "Open"
  /\ \E j \in BOOLEAN : Changes([children EXCEPT ![i] = [Opened EXCEPT !.synced = FALSE, !.job = j]], state)

RebuildEnds(i) ==
  /\ children[i].job
  /\ Changes([children EXCEPT ![i].synced = TRUE, ![i].job = FALSE], state)

\* shutdown(): the children are closed while the nexus is shutting down.
NexusShutsDown == state = "Open" /\ Changes(children, "ShuttingDown")
NexusIsDown ==
  /\ state = "ShuttingDown"
  /\ Changes([i \in DOMAIN children |->
                [children[i] EXCEPT !.state = IF @ = "Faulted" THEN @ ELSE "Closed",
                                    !.closing = FALSE, !.open = FALSE, !.job = FALSE]], "Shutdown")

-----------------------------------------------------------------------------
(* The history of rebuilds.                                                *)

\* create_history_record(): the record has the time at which it is made.
CreateHistoryRecord(h) ==
  /\ clock < MaxRecords
  /\ clock' = clock + 1
  /\ hist' = [hist EXCEPT ![h] = Append(@, clock + 1)]
  /\ UNCHANGED <<state, children, report, changed, changes, client, cut>>

\* The records of a history later than since, newest first.
Since(h, since) == Reverse(SelectSeq(hist[h], LAMBDA t : t > since))

\* The newest of all records, whether they are in the page or not; the time of
\* the request if there is none, and every record to come is later than that.
NewestEndTime == clock

\* list_rebuild_history() with at most count records per nexus, asked for again
\* from the end time of its answer.
ListRebuildHistory(count) ==
  LET all(h) == Since(h, client.since)
      page(h) == SubSeq(all(h), 1, IF count < Len(all(h)) THEN count ELSE Len(all(h)))
      pages == FlattenSeq([h \in 1 .. NumHistories |-> page(h)])
      left == UNION {ToSet(all(h)) : h \in 1 .. NumHistories} \ ToSet(pages)
  IN  /\ client.since < NewestEndTime
      /\ client' = [since |-> NewestEndTime, seen |-> client.seen \o pages]
      /\ cut' = cut \cup left
      /\ UNCHANGED <<state, children, report, changed, changes, hist, clock>>

-----------------------------------------------------------------------------
ReportNext ==
  \/ \E v \in {"v0", "v1"} : ReportBegins(v)
  \/ ReportChild \/ ReportSent
  \/ \E i \in 1 .. NumChildren :
       \/ \E r \in Reasons \ {"Unknown", "RebuildFailed"} : ChildFaults(i, r)
       \/ ChildClosed(i) \/ ChildOnline(i) \/ RebuildEnds(i)
       \/ children[i].job /\ ChildFaults(i, "RebuildFailed")
  \/ NexusShutsDown \/ NexusIsDown

HistoryNext ==
  \/ \E h \in 1 .. NumHistories : CreateHistoryRecord(h)
  \/ \E count \in 1 .. MaxRecords : ListRebuildHistory(count)

ReportSpec == ReportInit /\ [][ReportNext \/ HistoryNext]_reportVars

-----------------------------------------------------------------------------
(* Properties.                                                             *)

\* An answer that was put together without a change in between agrees with
\* itself: the nexus is online exactly if all its children are, and faulted
\* exactly if none is, although status() and map_child_state() compute this
\* apart.
ReportIsConsistent ==
  Complete /\ ~changed /\ state = "Open" =>
    LET online == {i \in 1 .. NumChildren : report.list[i][1] = "Online"}
    IN  /\ report.status = "Online" <=> online = 1 .. NumChildren
        /\ report.status = "Faulted" <=> online = {}

\* Both versions say the same of every child, but for the reason of a hot
\* removal.
VersionsAgree ==
  \A i \in 1 .. NumChildren :
    LET m0 == MapChildState0(children[i])
        m1 == MapChildState1(children[i])
    IN  m0[1] = m1[1] /\ (m0[2] = m1[2] \/ m1[2] = "HotRemoved")

\* A client that pages through the histories from end time to end time gets
\* every record, and none twice, but for those that its own count cut off.
HistoryIsComplete ==
  /\ IsInjective(client.seen)
  /\ \A h \in 1 .. NumHistories : \A t \in ToSet(hist[h]) :
       t <= client.since => t \in ToSet(client.seen) \/ t \in cut
=============================================================================
