----------------------------- MODULE LedgerDB -----------------------------
(***************************************************************************)
(* Deferred verification in the LedgerDB adapter                           *)
(* (dbadapter/ledgerdb/ledgerdb.cc; glassdb.cc and sqlledger.cc are the    *)
(* same code with other class names).                                      *)
(*                                                                         *)
(* Two threads share one promise map.  The transaction thread merges the   *)
(* list of unverified keys that the server sends with a commit or a range  *)
(* query.  The verification thread calls Verify, which copies the map      *)
(* under the lock, releases the lock, asks the server for the proofs, takes*)
(* the lock again and erases what it copied.  Merge can run between any    *)
(* two of those steps, but each critical section is atomic: both threads   *)
(* take lck for it, and the size() read without the lock on line 89 is     *)
(* compared with zero only, so it cannot tell a half done Merge from a     *)
(* finished one.                                                           *)
(***************************************************************************)
EXTENDS PromiseMap

CONSTANT UnverifiedLists   \* the lists the server can send with a reply

ASSUME UnverifiedListsAssumption == UnverifiedLists \subseteq PromiseMaps

VARIABLES
  verify_map,       \* LDBPromise::verify_map
  phase,            \* where the verification thread is in Verify
  unverified_keys,  \* Verify's local copy
  returned,         \* what the last call of Verify returned
  received,         \* history: promises the server has made
  verified,         \* history: promises client->Verify was called with
  late              \* history: promises merged into a copied block, and not since

mapVars == <<verify_map, received, late>>
callVars == <<phase, unverified_keys, returned, verified>>
ldbVars == <<verify_map, phase, unverified_keys, returned, received, verified, late>>

Held == Promises(verify_map)
Snapshot == Promises(unverified_keys)

LdbInit ==
  /\ verify_map = EmptyMap
  /\ phase = "idle"
  /\ unverified_keys = EmptyMap
  /\ returned = "none"
  /\ received = {}
  /\ verified = {}
  /\ late = {}

----------------------------------------------------------------------------
(* The transaction thread.                                                 *)

(* The promises of list that the copy made by a running Verify misses but  *)
(* whose block it will erase.                                              *)
LateIn(list) ==
  IF phase \in {"client", "erase"}
    THEN (Promises(list) \cap Covered(unverified_keys)) \ Snapshot
    ELSE {}

(* Commit and Range end with a Merge of the server's list, whatever the    *)
(* status of the reply is.                                                 *)
Merge(list) ==
  /\ verify_map' = Merged(verify_map, list)
  /\ received' = received \cup Promises(list)
  /\ late' = (late \ Promises(list)) \cup LateIn(list)
  /\ UNCHANGED callVars

Commit == \E list \in UnverifiedLists : Merge(list)

(* A server that reports a block only once it is full never adds a key to  *)
(* a block it has reported.                                                *)
Sealed(list) ==
  phase \in {"client", "erase"} => Promises(list) \cap Covered(unverified_keys) = {}

SealedCommit == \E list \in UnverifiedLists : Sealed(list) /\ Merge(list)

----------------------------------------------------------------------------
(* The verification thread.                                                *)

VerifyCall ==
  /\ phase = "idle"
  /\ IF DOMAIN verify_map = {}
       THEN returned' = "false" /\ UNCHANGED phase
       ELSE phase' = "copy" /\ UNCHANGED returned
  /\ UNCHANGED <<mapVars, unverified_keys, verified>>

VerifyCopy ==
  /\ phase = "copy"
  /\ unverified_keys' = verify_map
  /\ phase' = "client"
  /\ UNCHANGED <<mapVars, returned, verified>>

(* The result of client->Verify is not looked at.                          *)
VerifyClient ==
  /\ phase = "client"
  /\ verified' = verified \cup Snapshot
  /\ phase' = "erase"
  /\ UNCHANGED <<mapVars, unverified_keys, returned>>

VerifyErase_ClearsMap ==
  /\ phase = "erase"
  /\ verify_map' = EmptyMap
  /\ unverified_keys' = EmptyMap
  /\ returned' = "true"
  /\ phase' = "idle"
  /\ UNCHANGED <<received, verified, late>>

VerifyErase ==
  /\ phase = "erase"
  /\ verify_map' = Erased(verify_map, unverified_keys)
  /\ unverified_keys' = EmptyMap
  /\ returned' = "true"
  /\ phase' = "idle"
  /\ UNCHANGED <<received, verified, late>>

Verify == VerifyCall \/ VerifyCopy \/ VerifyClient \/ VerifyErase

LdbNext == Commit \/ Verify

(* The verification thread calls Verify again and again, and every critical*)
(* section and every request ends; nothing obliges the transaction thread  *)
(* to commit.                                                              *)
LdbSpec == LdbInit /\ [][LdbNext]_ldbVars /\ WF_ldbVars(Verify)

SealedNext == SealedCommit \/ Verify

SealedSpec == LdbInit /\ [][SealedNext]_ldbVars /\ WF_ldbVars(Verify)

----------------------------------------------------------------------------
(* Properties.                                                             *)

(* A promise that is neither waiting in verify_map nor already sent to     *)
(* client->Verify was merged into a block between the copy and the erase   *)
(* of one Verify call: that window is the only way Verify drops a promise. *)
(* Once the server reports it again, only the same window excuses a loss.  *)
LossOnlyWhenLate == received \subseteq Held \cup verified \cup late

(* No promise is dropped unverified.                                       *)
NoPromiseLost == received \subseteq Held \cup verified

(* Everything Verify copied stays in verify_map until that call erases it, *)
(* so Merge never takes a promise back and the erase finds every block it  *)
(* looks up.                                                               *)
SnapshotStillHeld ==
  phase \in {"client", "erase"} =>
    \A r \in DOMAIN unverified_keys :
      /\ r \in DOMAIN verify_map
      /\ \A b \in DOMAIN unverified_keys[r] :
           b \in DOMAIN verify_map[r] /\ unverified_keys[r][b] \subseteq verify_map[r][b]

(* The adapter implements the abstract ledger for every promise that is   *)
(* not late: it drops none before it was sent to client->Verify, and sends *)
(* every one after a finite number of calls, however many are merged       *)
(* meanwhile.                                                              *)
Ledger == INSTANCE VerificationLedger WITH
            Promise <- Triples, outstanding <- Held \ late, verified <- verified

ImplementsLedger == Ledger!Spec
=============================================================================
