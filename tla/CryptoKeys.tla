------------------------------ MODULE CryptoKeys ------------------------------
(***************************************************************************)
(* The encryption keys of crypto vbdevs.  A key lives in the accel library *)
(* of SPDK under its name; KEY_CRYPTO_VBDEV_MAP records which crypto       *)
(* vbdevs use it, so that the last one takes the key with it.  SPDK does   *)
(* not count the users of a key: one that is destroyed under a vbdev is    *)
(* freed memory.  The pool lock serialises what is done to one vbdev, but  *)
(* pools share keys, and deleting a vbdev waits for a callback.            *)
(***************************************************************************)
EXTENDS Integers

CONSTANTS Vbdevs,        \* names of crypto vbdevs, one for each pool
          Keys,          \* names of keys
          Secrets,       \* what a key may be made of
          MaxKeyOps,     \* bound: creations and destructions
          MaxKeyFaults   \* bound: calls of SPDK that fail, vbdevs removed under us

VARIABLES
  accel,     \* key name -> the secret of the key in SPDK, or NoSecret
  users,     \* KEY_CRYPTO_VBDEV_MAP: key name -> vbdevs; a name not in it has no entry
  vbdev,     \* vbdev name -> the key and secret it encrypts with
  deleting,  \* vbdev name -> the destroy_crypto_vbdev() that waits
  keyOps, keyFaults,
  stuck,     \* ghost: keys whose destruction failed
  orphaned   \* ghost: vbdevs with an entry that outlived them: creations that failed, removals

ASSUME SecretAssumption == "nothing" \notin Secrets /\ "none" \notin Keys

keyVars == <<accel, users, vbdev, deleting, keyOps, keyFaults, stuck, orphaned>>

NoSecret == "nothing"
NoVbdev == [key |-> "none", secret |-> NoSecret]
NotDeleting == [pc |-> "idle", key |-> "none"]

Lives(v) == vbdev[v] # NoVbdev
Entry(k) == IF k \in DOMAIN users THEN users[k] ELSE {}
KeyFault == keyFaults < MaxKeyFaults /\ keyFaults' = keyFaults + 1

\* The pool of a vbdev runs one request at a time.
Begins(v) == deleting[v].pc = "idle" /\ keyOps < MaxKeyOps /\ keyOps' = keyOps + 1

\* create_crypto_key(): a key of that name is reused, whatever it is made of.
CreateCryptoKey(k, s) == IF accel[k] # NoSecret THEN accel ELSE [accel EXCEPT ![k] = s]

\* add_key_user(): the entry of the map.
AddKeyUser(k, v) == [j \in DOMAIN users \union {k} |-> IF j = k THEN Entry(k) \union {v} ELSE users[j]]

\* create_crypto_vbdev_on_base_bdev(); LvsBackendBdevs::new() has seen that there
\* is no such vbdev.
CreateVbdev(v, k, s) ==
  /\ Begins(v) /\ ~Lives(v)
  /\ accel' = CreateCryptoKey(k, s)
  /\ users' = AddKeyUser(k, v)
  /\ vbdev' = [vbdev EXCEPT ![v] = [key |-> k, secret |-> accel'[k]]]
  /\ UNCHANGED <<deleting, keyFaults, stuck, orphaned>>

\* The key cannot be created: nothing is recorded.
KeyFails(v, k) ==
  /\ Begins(v) /\ ~Lives(v) /\ accel[k] = NoSecret
  /\ KeyFault
  /\ UNCHANGED <<accel, users, vbdev, deleting, stuck, orphaned>>

\* create_crypto_disk() fails: the key and its entry stay.
VbdevFails(v, k, s) ==
  /\ Begins(v) /\ ~Lives(v)
  /\ KeyFault
  /\ accel' = CreateCryptoKey(k, s)
  /\ users' = AddKeyUser(k, v)
  /\ orphaned' = orphaned \union {v}
  /\ UNCHANGED <<vbdev, deleting, stuck>>

\* destroy_crypto_vbdev(): an undo knows the key, a clean-up does not.
DestroyVbdev(v, k) ==
  /\ Begins(v) /\ k \in {"none", vbdev[v].key}
  /\ deleting' = [deleting EXCEPT ![v] = [pc |-> "deleting", key |-> k]]
  /\ UNCHANGED <<accel, users, vbdev, keyFaults, stuck, orphaned>>

\* crypto_vbdev_op_cb(): the vbdev is gone; a vbdev that was not there any more
\* is an error, which ends the destruction.
VbdevDeleted(v) ==
  /\ deleting[v].pc = "deleting"
  /\ deleting' = [deleting EXCEPT ![v] = IF Lives(v) THEN [@ EXCEPT !.pc = "deleted"] ELSE NotDeleting]
  /\ vbdev' = [vbdev EXCEPT ![v] = NoVbdev]
  /\ UNCHANGED <<accel, users, keyOps, keyFaults, stuck, orphaned>>

\* find_key_for_crypto_vbdev(): any key with the vbdev among its users.
FindKey(v) == {k \in DOMAIN users : v \in users[k]}
KeyCandidates(v) == IF deleting[v].key # "none" THEN {deleting[v].key} ELSE FindKey(v)

\* Mutant: the key goes with any of its users.
LastUserAny(k, v) == TRUE

\* The vbdev was the last user of the key.
LastUser(k, v) == users[k] \ {v} = {}

\* remove_key_user(): the key is destroyed when nobody is left.
RemoveKeyUser(v, k) ==
  /\ k \in DOMAIN users
  /\ IF LastUser(k, v)
     THEN /\ users' = [j \in DOMAIN users \ {k} |-> users[j]]
          /\ accel' = [accel EXCEPT ![k] = NoSecret]
     ELSE users' = [users EXCEPT ![k] = @ \ {v}] /\ UNCHANGED accel
  /\ UNCHANGED <<keyFaults, stuck>>

\* "Return and don't remove from the map yet."
KeyStays(v, k) ==
  /\ k \in DOMAIN users /\ LastUser(k, v) /\ accel[k] # NoSecret
  /\ KeyFault
  /\ users' = [users EXCEPT ![k] = @ \ {v}]
  /\ stuck' = stuck \union {k}
  /\ UNCHANGED accel

\* The rest of destroy_crypto_vbdev().
KeyReleased(v) ==
  /\ deleting[v].pc = "deleted"
  /\ \/ \E k \in KeyCandidates(v) : (RemoveKeyUser(v, k) \/ KeyStays(v, k))
         /\ orphaned' = IF FindKey(v) \subseteq {k} THEN orphaned \ {v} ELSE orphaned
     \/ KeyCandidates(v) \intersect DOMAIN users = {} /\ UNCHANGED <<accel, users, keyFaults, stuck, orphaned>>
  /\ deleting' = [deleting EXCEPT ![v] = NotDeleting]
  /\ UNCHANGED <<vbdev, keyOps>>

\* The disk below the vbdev is removed, and SPDK removes the vbdev.
BaseRemoved(v) ==
  /\ Lives(v) /\ KeyFault
  /\ vbdev' = [vbdev EXCEPT ![v] = NoVbdev]
  /\ orphaned' = orphaned \union {v}
  /\ UNCHANGED <<accel, users, deleting, keyOps, stuck>>

KeyInit ==
  /\ accel = [k \in Keys |-> NoSecret] /\ users = [k \in {} |-> {}]
  /\ vbdev = [v \in Vbdevs |-> NoVbdev] /\ deleting = [v \in Vbdevs |-> NotDeleting]
  /\ keyOps = 0 /\ keyFaults = 0 /\ stuck = {} /\ orphaned = {}

KeyNext ==
  \E v \in Vbdevs :
    \/ \E k \in Keys, s \in Secrets : CreateVbdev(v, k, s) \/ VbdevFails(v, k, s)
    \/ \E k \in Keys : KeyFails(v, k)
    \/ \E k \in Keys \union {"none"} : DestroyVbdev(v, k)
    \/ VbdevDeleted(v) \/ KeyReleased(v) \/ BaseRemoved(v)

KeySpec == KeyInit /\ [][KeyNext]_keyVars

-----------------------------------------------------------------------------
(* Properties                                                              *)

\* The key a vbdev encrypts with lives as long as the vbdev, and stays the one
\* it was created with, whatever other pools that share the key come and go.
KeyOutlivesVbdevs == \A v \in Vbdevs : Lives(v) => accel[vbdev[v].key] = vbdev[v].secret

\* A key that is in SPDK is used by a vbdev, or its destruction failed, or its
\* entry is that of a vbdev that failed or was removed: no other key is left.
KeysAreUsed ==
  \A k \in Keys : accel[k] # NoSecret =>
    \/ k \in stuck
    \/ \E v \in Entry(k) : vbdev[v].key = k \/ deleting[v].pc = "deleted" \/ v \in orphaned

\* A key lives as long as the vbdevs that use it, and no longer.
KeysFollowVbdevs == KeyOutlivesVbdevs /\ KeysAreUsed
=============================================================================
