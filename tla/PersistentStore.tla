--------------------------- MODULE PersistentStore ---------------------------
(***************************************************************************)
(* The persistent store, and how a nexus saves its NexusInfo in it: every  *)
(* operation runs on the tokio runtime under a timeout, and reconnects to  *)
(* etcd when the timeout expires; save() and save_txn() try again a number *)
(* of times.  An operation that timed out was dropped by the client, not   *)
(* by etcd: it may have been applied, or may be applied later.  The core   *)
(* agent writes the same key when it publishes the volume elsewhere.       *)
(***************************************************************************)
EXTENDS Naturals

CONSTANTS Retries,      \* PersistentStore::retries(): tries, not retries
          MaxPersists,  \* bound: saves by the nexus
          MaxStrays     \* bound: operations that time out and remain under way

ASSUME RetriesAssumption == Retries \in Nat /\ MaxPersists \in Nat /\ MaxStrays \in Nat

VARIABLES
  stored,    \* the value of the key in etcd
  inner,     \* NexusInfo of the nexus
  save,      \* the save under way; nexus_info is locked meanwhile
  strays,    \* operations that timed out and that etcd may still apply
  connected, \* the client has a connection
  shutdown,  \* the nexus shuts itself down
  persists, timeouts,
  saved,     \* ghost: the value of the last save that returned Ok
  disturbed  \* ghost: someone else, or a stray operation, wrote since

storeVars == <<stored, inner, save, strays, connected, shutdown, persists, timeouts, saved, disturbed>>

\* NexusInfo, as far as it matters here: the health of one child, and the mark
\* of the core agent.
NexusInfo == [healthy : BOOLEAN, do_self_shutdown : BOOLEAN]

NoSave == [kind |-> "none"]
Put(v, tries) == [kind |-> "put", value |-> v, tries |-> tries, step |-> "send"]
Txn(v, e, tries) == [kind |-> "txn", value |-> v, expected |-> e, tries |-> tries, step |-> "send"]

StoreInit ==
  /\ stored = [healthy |-> TRUE, do_self_shutdown |-> FALSE]
  /\ inner = stored /\ save = NoSave /\ strays = {} /\ connected = TRUE /\ shutdown = FALSE
  /\ persists = 0 /\ timeouts = 0 /\ saved = stored /\ disturbed = FALSE

-----------------------------------------------------------------------------
(* persist()                                                               *)

\* PersistOp::Update: a child has been rebuilt.
PersistUpdate ==
  /\ save = NoSave /\ ~shutdown /\ persists < MaxPersists
  /\ persists' = persists + 1
  /\ inner' = [inner EXCEPT !.healthy = TRUE]
  /\ save' = Put(inner', Retries)
  /\ UNCHANGED <<stored, strays, connected, shutdown, timeouts, saved, disturbed>>

\* PersistOp::UpdateCond: a child has failed.
PersistUpdateCond ==
  /\ save = NoSave /\ ~shutdown /\ persists < MaxPersists
  /\ persists' = persists + 1
  /\ inner' = [inner EXCEPT !.healthy = FALSE]
  /\ save' = Txn(inner', inner, Retries)
  /\ UNCHANGED <<stored, strays, connected, shutdown, timeouts, saved, disturbed>>

\* persist() returns: an error shuts the nexus down.
SaveOk ==
  /\ save' = NoSave
  /\ saved' = save.value /\ disturbed' = FALSE
  /\ UNCHANGED <<inner, shutdown>>

SaveFailed ==
  /\ save' = NoSave
  /\ shutdown' = TRUE
  /\ UNCHANGED <<inner, saved, disturbed>>

\* Mutant: the last attempt counts as done.
RetryGivesUp ==
  IF save.tries = 1 THEN SaveOk
  ELSE /\ save' = [save EXCEPT !.tries = @ - 1, !.step = "send"]
       /\ UNCHANGED <<inner, shutdown, saved, disturbed>>

\* An attempt failed: the next one, or the error.
Retry ==
  IF save.tries = 1 THEN SaveFailed
  ELSE /\ save' = [save EXCEPT !.tries = @ - 1, !.step = "send"]
       /\ UNCHANGED <<inner, shutdown, saved, disturbed>>

-----------------------------------------------------------------------------
(* One operation: execute_store_op().                                      *)

\* put_kv(): etcd stores the value and answers.
PutKv ==
  /\ save.kind = "put" /\ save.step = "send" /\ connected
  /\ stored' = save.value
  /\ SaveOk
  /\ UNCHANGED <<strays, connected, persists, timeouts>>

\* put_kv_cas(): the value is stored if it is the expected one, and returned
\* otherwise.
Cas(v, e) == IF stored = e THEN v ELSE stored

\* save_txn(): another value than the new one, "already updated" by an earlier
\* attempt, is not to be trusted.
PutKvCas ==
  /\ save.kind = "txn" /\ save.step = "send" /\ connected
  /\ stored' = Cas(save.value, save.expected)
  /\ IF stored' = save.value THEN SaveOk
     ELSE /\ save' = NoSave
          /\ inner' = [inner EXCEPT !.do_self_shutdown = stored.do_self_shutdown]
          /\ shutdown' = TRUE
          /\ UNCHANGED <<saved, disturbed>>
  /\ UNCHANGED <<strays, connected, persists, timeouts>>

\* etcd returns an error, and nothing was stored.
StoreErrs ==
  /\ save # NoSave /\ save.step = "send" /\ connected
  /\ Retry
  /\ UNCHANGED <<stored, strays, connected, persists, timeouts>>

\* The timeout expires before an answer: the operation has been applied, is
\* lost, or remains under way.  The client reconnects first.
OpTimeout ==
  /\ save # NoSave /\ save.step = "send" /\ connected
  /\ \/ stored' = (IF save.kind = "put" THEN save.value ELSE Cas(save.value, save.expected)) /\ UNCHANGED <<strays, timeouts>>
     \/ /\ timeouts < MaxStrays /\ timeouts' = timeouts + 1
        /\ strays' = strays \cup {[save EXCEPT !.tries = 0]}
        /\ UNCHANGED stored
     \/ UNCHANGED <<stored, strays, timeouts>>
  /\ connected' = FALSE
  /\ save' = [save EXCEPT !.step = "reconnect"]
  /\ UNCHANGED <<inner, shutdown, persists, saved, disturbed>>

\* connect_to_backing_store(): "attempted continuously until successful"; then
\* the operation fails with OpTimeout.
Reconnect ==
  /\ save # NoSave /\ save.step = "reconnect"
  /\ connected' = TRUE
  /\ Retry
  /\ UNCHANGED <<stored, strays, persists, timeouts>>

\* etcd comes to an operation that the client has given up.
StrayLands ==
  \E s \in strays :
    /\ strays' = strays \ {s}
    /\ stored' = IF s.kind = "put" THEN s.value ELSE Cas(s.value, s.expected)
    /\ disturbed' = (disturbed \/ stored' # stored)
    /\ UNCHANGED <<inner, save, connected, shutdown, persists, timeouts, saved>>

\* The core agent publishes the volume on another node: "do_self_shutdown [...]
\* can only be set by core-agent's republish path".
Republish ==
  /\ ~stored.do_self_shutdown
  /\ stored' = [stored EXCEPT !.do_self_shutdown = TRUE]
  /\ disturbed' = TRUE
  /\ UNCHANGED <<inner, save, strays, connected, shutdown, persists, timeouts, saved>>

StoreOp == PutKv \/ PutKvCas \/ StoreErrs \/ OpTimeout \/ Reconnect

StoreNext == PersistUpdate \/ PersistUpdateCond \/ StoreOp \/ StrayLands \/ Republish

\* An operation is answered or times out, and etcd can be reached again.
StoreFairness == WF_storeVars(StoreOp)

StoreSpec == StoreInit /\ [][StoreNext]_storeVars /\ StoreFairness

-----------------------------------------------------------------------------

\* persist() that returned Ok has its value in the store, until someone else
\* writes the key or an operation given up earlier lands.
SavedIsStored == save = NoSave /\ ~shutdown /\ ~disturbed => stored = saved

\* "Don't trust any other value and shutdown": the mark of the core agent
\* survives every transaction, whenever it lands; a nexus that marks a child
\* as failed after it finds out and stops.
TxnKeepsMark ==
  [][stored.do_self_shutdown /\ ~stored'.do_self_shutdown =>
       save.kind = "put" \/ \E s \in strays : s.kind = "put"]_storeVars
=============================================================================
