-------------------------- MODULE LedgerDBProofs --------------------------
(***************************************************************************)
(* Proofs about LedgerDB for every set of replicas, blocks, keys and every *)
(* list a server may send.                                                 *)
(***************************************************************************)
EXTENDS LedgerDB, TLAPS

----------------------------------------------------------------------------
(* Promise maps.                                                           *)

(* A promise map is a function on a set of replicas whose values are       *)
(* functions on sets of blocks whose values are sets of keys.              *)
LEMMA PromiseMapShape ==
  ASSUME NEW vm
  PROVE  vm \in PromiseMaps <=>
           /\ DOMAIN vm \subseteq Replica
           /\ vm = [r \in DOMAIN vm |-> vm[r]]
           /\ \A r \in DOMAIN vm :
                /\ DOMAIN vm[r] \subseteq Block
                /\ vm[r] = [b \in DOMAIN vm[r] |-> vm[r][b]]
                /\ \A b \in DOMAIN vm[r] : vm[r][b] \subseteq Key
<1> DEFINE Inner == PartialFns(Block, SUBSET Key)
<1>1. \A f : f \in Inner <=>
        /\ DOMAIN f \subseteq Block
        /\ f = [b \in DOMAIN f |-> f[b]]
        /\ \A b \in DOMAIN f : f[b] \subseteq Key
  <2> TAKE f
  <2>1. f \in Inner <=> \E S \in SUBSET Block : f \in [S -> SUBSET Key]
    BY DEF PartialFns
  <2>2. f \in Inner => f \in [DOMAIN f -> SUBSET Key] /\ DOMAIN f \subseteq Block
    BY <2>1
  <2>3. (DOMAIN f \subseteq Block /\ f \in [DOMAIN f -> SUBSET Key]) => f \in Inner
    BY <2>1
  <2> QED BY <2>2, <2>3
<1>2. vm \in PromiseMaps <=> \E S \in SUBSET Replica : vm \in [S -> Inner]
  BY DEF PartialFns, PromiseMaps
<1>3. vm \in PromiseMaps <=> DOMAIN vm \subseteq Replica /\ vm \in [DOMAIN vm -> Inner]
  <2> HIDE DEF Inner
  <2> QED BY <1>2
<1> HIDE DEF Inner
<1>4. vm \in [DOMAIN vm -> Inner] <=>
        vm = [r \in DOMAIN vm |-> vm[r]] /\ \A r \in DOMAIN vm : vm[r] \in Inner
  OBVIOUS
<1> QED BY <1>1, <1>3, <1>4

LEMMA EmptyMapType ==
  EmptyMap \in PromiseMaps /\ Promises(EmptyMap) = {} /\ Covered(EmptyMap) = {}
<1>1. DOMAIN EmptyMap = {}
  BY DEF EmptyMap
<1>2. EmptyMap \in PromiseMaps
  BY <1>1, PromiseMapShape DEF EmptyMap
<1> QED BY <1>1, <1>2 DEF Promises, Covered, Keys, Blocks

LEMMA MergedType ==
  ASSUME NEW vm \in PromiseMaps, NEW newmap \in PromiseMaps
  PROVE  Merged(vm, newmap) \in PromiseMaps
<1> DEFINE m == Merged(vm, newmap)
<1>1. DOMAIN m \subseteq Replica
  BY PromiseMapShape DEF Merged
<1>2. \A r : Blocks(vm, r) \subseteq Block /\ Blocks(newmap, r) \subseteq Block
  BY PromiseMapShape DEF Blocks
<1>3. \A r, b : Keys(vm, r, b) \subseteq Key /\ Keys(newmap, r, b) \subseteq Key
  BY PromiseMapShape DEF Keys, Blocks
<1>4. \A r \in DOMAIN m :
        m[r] = [b \in Blocks(vm, r) \cup Blocks(newmap, r) |->
                  Keys(vm, r, b) \cup Keys(newmap, r, b)]
  BY DEF Merged
<1>5. m = [r \in DOMAIN m |-> m[r]]
  BY DEF Merged
<1> HIDE DEF m
<1>6. \A r \in DOMAIN m :
        /\ DOMAIN m[r] \subseteq Block
        /\ m[r] = [b \in DOMAIN m[r] |-> m[r][b]]
        /\ \A b \in DOMAIN m[r] : m[r][b] \subseteq Key
  BY <1>2, <1>3, <1>4
<1>7. m \in PromiseMaps
  BY <1>1, <1>5, <1>6, PromiseMapShape
<1> QED BY <1>7 DEF m

LEMMA ErasedType ==
  ASSUME NEW vm \in PromiseMaps, NEW snapshot
  PROVE  Erased(vm, snapshot) \in PromiseMaps
<1> DEFINE e == Erased(vm, snapshot)
<1>1. DOMAIN e \subseteq DOMAIN vm /\ e = [r \in DOMAIN e |-> e[r]]
  BY DEF Erased
<1>2. \A r \in DOMAIN e : e[r] = [b \in Remaining(vm, snapshot, r) |-> vm[r][b]]
  BY DEF Erased
<1>3. \A r \in DOMAIN vm : Remaining(vm, snapshot, r) \subseteq DOMAIN vm[r]
  BY DEF Remaining, Blocks
<1> HIDE DEF e
<1>4. \A r \in DOMAIN e :
        /\ DOMAIN e[r] \subseteq Block
        /\ e[r] = [b \in DOMAIN e[r] |-> e[r][b]]
        /\ \A b \in DOMAIN e[r] : e[r][b] \subseteq Key
  BY <1>1, <1>2, <1>3, PromiseMapShape
<1>5. e \in PromiseMaps
  BY <1>1, <1>4, PromiseMapShape
<1> QED BY <1>5 DEF e

(* Merge takes nothing back and adds exactly what the server sent.         *)
LEMMA MergedPromises ==
  ASSUME NEW vm, NEW newmap
  PROVE  Promises(Merged(vm, newmap)) = Promises(vm) \cup Promises(newmap)
<1> DEFINE m == Merged(vm, newmap)
<1>1. \A r : Blocks(m, r) = Blocks(vm, r) \cup Blocks(newmap, r)
  BY DEF Merged, Blocks
<1>2. \A r : \A b \in Blocks(m, r) : m[r][b] = Keys(vm, r, b) \cup Keys(newmap, r, b)
  BY DEF Merged, Blocks
<1> HIDE DEF m
<1>3. \A r, b : Keys(m, r, b) = Keys(vm, r, b) \cup Keys(newmap, r, b)
  BY <1>1, <1>2 DEF Keys
<1>4. Promises(m) = Promises(vm) \cup Promises(newmap)
  BY <1>3 DEF Promises
<1> QED BY <1>4 DEF m

(* The erase removes the promises of the copied blocks, all of them, and   *)
(* no other.                                                               *)
LEMMA ErasedPromises ==
  ASSUME NEW vm, NEW snapshot
  PROVE  Promises(Erased(vm, snapshot)) = Promises(vm) \ Covered(snapshot)
<1> DEFINE e == Erased(vm, snapshot)
<1>1. \A r : Blocks(e, r) = Blocks(vm, r) \ Blocks(snapshot, r)
  BY DEF Erased, Remaining, Blocks
<1>2. \A r : \A b \in Blocks(e, r) : e[r][b] = vm[r][b]
  BY DEF Erased, Remaining, Blocks
<1> HIDE DEF e
<1>3. \A r, b : Keys(e, r, b) = IF b \in Blocks(snapshot, r) THEN {} ELSE Keys(vm, r, b)
  BY <1>1, <1>2 DEF Keys
<1>4. Promises(e) = Promises(vm) \ Covered(snapshot)
  BY <1>3 DEF Promises, Covered
<1> QED BY <1>4 DEF e
----------------------------------------------------------------------------
(* The inductive invariant.                                                *)

Phases == {"idle", "copy", "client", "erase"}
Returns == {"none", "true", "false"}

TypeOK ==
  /\ verify_map \in PromiseMaps
  /\ phase \in Phases
  /\ unverified_keys \in PromiseMaps
  /\ returned \in Returns
  /\ received \subseteq Triples
  /\ verified \subseteq Triples
  /\ late \subseteq Triples

(* Promises of a copied block that the copy misses came in the window.     *)
WindowOnlyHoldsLate ==
  phase \in {"client", "erase"} =>
    Held \cap Covered(unverified_keys) \subseteq Snapshot \cup late

SnapshotVerified == phase = "erase" => Snapshot \subseteq verified

IInv == TypeOK /\ LossOnlyWhenLate /\ WindowOnlyHoldsLate /\ SnapshotVerified

LEMMA PromisesAreTriples == \A vm : Promises(vm) \subseteq Triples
BY DEF Promises

LEMMA InitIInv == LdbInit => IInv
BY EmptyMapType
DEF LdbInit, IInv, TypeOK, LossOnlyWhenLate, WindowOnlyHoldsLate, SnapshotVerified,
    Phases, Returns

LEMMA MergeIInv ==
  ASSUME IInv, NEW list \in UnverifiedLists, Merge(list)
  PROVE  IInv'
<1> USE DEF Merge, callVars, Held, Snapshot, LateIn
<1>1. list \in PromiseMaps
  BY UnverifiedListsAssumption
<1>2. Held' = Held \cup Promises(list)
  BY MergedPromises
<1>3. TypeOK'
  BY <1>1, MergedType, PromisesAreTriples DEF IInv, TypeOK
<1>4. LossOnlyWhenLate'
  BY <1>2 DEF IInv, LossOnlyWhenLate
<1>5. WindowOnlyHoldsLate'
  BY <1>2 DEF IInv, WindowOnlyHoldsLate
<1>6. SnapshotVerified'
  BY DEF IInv, SnapshotVerified
<1> QED BY <1>3, <1>4, <1>5, <1>6 DEF IInv

LEMMA VerifyIInv ==
  ASSUME IInv, Verify
  PROVE  IInv'
<1> USE DEF IInv, mapVars, Held, Snapshot
<1>1. CASE VerifyCall
  BY <1>1 DEF VerifyCall, TypeOK, LossOnlyWhenLate, WindowOnlyHoldsLate,
       SnapshotVerified, Phases, Returns
<1>2. CASE VerifyCopy
  BY <1>2 DEF VerifyCopy, TypeOK, LossOnlyWhenLate, WindowOnlyHoldsLate,
       SnapshotVerified, Phases
<1>3. CASE VerifyClient
  BY <1>3, PromisesAreTriples DEF VerifyClient, TypeOK, LossOnlyWhenLate,
       WindowOnlyHoldsLate, SnapshotVerified, Phases
<1>4. CASE VerifyErase
  <2> USE <1>4 DEF VerifyErase
  <2>1. Held' = Held \ Covered(unverified_keys)
    BY ErasedPromises
  <2>2. TypeOK'
    BY ErasedType, EmptyMapType DEF TypeOK, Phases, Returns
  <2>3. LossOnlyWhenLate'
    BY <2>1 DEF LossOnlyWhenLate, WindowOnlyHoldsLate, SnapshotVerified
  <2> QED BY <2>2, <2>3 DEF WindowOnlyHoldsLate, SnapshotVerified
<1> QED BY <1>1, <1>2, <1>3, <1>4 DEF Verify

LEMMA StepIInv == IInv /\ [LdbNext]_ldbVars => IInv'
<1> SUFFICES ASSUME IInv, [LdbNext]_ldbVars PROVE IInv'
  OBVIOUS
<1>1. CASE Commit
  BY <1>1, MergeIInv DEF Commit
<1>2. CASE Verify
  BY <1>2, VerifyIInv
<1>3. CASE UNCHANGED ldbVars
  BY <1>3 DEF ldbVars, IInv, TypeOK, LossOnlyWhenLate, WindowOnlyHoldsLate,
       SnapshotVerified, Held, Snapshot
<1> QED BY <1>1, <1>2, <1>3 DEF LdbNext

(* The window between copy and erase is the only way in which Verify drops *)
(* a promise it has not asked the server to prove.                         *)
THEOREM LossNeedsTheWindow == LdbSpec => []LossOnlyWhenLate
<1>1. IInv => LossOnlyWhenLate
  BY DEF IInv
<1> QED BY <1>1, InitIInv, StepIInv, PTL DEF LdbSpec
----------------------------------------------------------------------------
(* What Verify copied is still in verify_map when it erases.               *)

HeldInv == TypeOK /\ SnapshotStillHeld

LEMMA MergedKeeps ==
  ASSUME NEW vm, NEW newmap, NEW r \in DOMAIN vm
  PROVE  /\ r \in DOMAIN Merged(vm, newmap)
         /\ \A b \in DOMAIN vm[r] :
              /\ b \in DOMAIN Merged(vm, newmap)[r]
              /\ vm[r][b] \subseteq Merged(vm, newmap)[r][b]
BY DEF Merged, Blocks, Keys

LEMMA StepHeldInv == HeldInv /\ IInv /\ IInv' /\ [LdbNext]_ldbVars => HeldInv'
<1> SUFFICES ASSUME SnapshotStillHeld, IInv', [LdbNext]_ldbVars
             PROVE  SnapshotStillHeld'
  BY DEF HeldInv, IInv
<1> USE DEF SnapshotStillHeld, mapVars, callVars
<1>1. CASE Commit
  <2>1. PICK list \in UnverifiedLists : Merge(list)
    BY <1>1 DEF Commit
  <2> QED BY <2>1, MergedKeeps DEF Merge
<1>2. CASE VerifyCall
  BY <1>2 DEF VerifyCall
<1>3. CASE VerifyCopy
  BY <1>3 DEF VerifyCopy
<1>4. CASE VerifyClient
  BY <1>4 DEF VerifyClient
<1>5. CASE VerifyErase
  BY <1>5 DEF VerifyErase
<1>6. CASE UNCHANGED ldbVars
  BY <1>6 DEF ldbVars
<1> QED BY <1>1, <1>2, <1>3, <1>4, <1>5, <1>6 DEF LdbNext, Verify

(* Between the copy and the erase of one call, Merge never takes a copied  *)
(* promise out of verify_map: the erase finds every replica and block.     *)
THEOREM CopiedPromisesStay == LdbSpec => []SnapshotStillHeld
<1>1. LdbInit => HeldInv
  BY InitIInv DEF IInv, HeldInv, LdbInit, SnapshotStillHeld
<1>2. HeldInv => SnapshotStillHeld
  BY DEF HeldInv
<1> QED BY <1>1, <1>2, InitIInv, StepIInv, StepHeldInv, PTL DEF LdbSpec

----------------------------------------------------------------------------
(* Refinement of the abstract ledger, for the promises that are not late.  *)

LEMMA StepImplements ==
  IInv /\ IInv' /\ [LdbNext]_ldbVars => [Ledger!Next]_(Ledger!vars)
<1> SUFFICES ASSUME IInv, IInv', [LdbNext]_ldbVars
             PROVE  [Ledger!Next]_(Ledger!vars)
  OBVIOUS
<1> USE DEF Ledger!Next, Ledger!vars
<1>1. CASE Commit
  <2>1. PICK list \in UnverifiedLists : Merge(list)
    BY <1>1 DEF Commit
  <2>2. Held' = Held \cup Promises(list) /\ Held' \subseteq Triples
    BY <2>1, MergedPromises, PromisesAreTriples DEF Merge, Held
  <2>3. (Held \ late) \cap LateIn(list) = {}
    BY DEF IInv, WindowOnlyHoldsLate, LateIn
  <2>4. Ledger!Report
    BY <2>1, <2>2, <2>3 DEF Merge, callVars, Ledger!Report
  <2> QED BY <2>4
<1>2. CASE VerifyCall
  BY <1>2 DEF VerifyCall, mapVars, Held
<1>3. CASE VerifyCopy
  BY <1>3 DEF VerifyCopy, mapVars, Held
<1>4. CASE VerifyClient
  <2>1. Ledger!Check
    BY <1>4 DEF VerifyClient, mapVars, Held, Ledger!Check, IInv, TypeOK
  <2> QED BY <2>1
<1>5. CASE VerifyErase
  <2>1. Held' = Held \ Covered(unverified_keys)
    BY <1>5, ErasedPromises DEF VerifyErase, Held
  <2>2. (Held \cap Covered(unverified_keys)) \ late \subseteq verified
    BY <1>5 DEF VerifyErase, IInv, WindowOnlyHoldsLate, SnapshotVerified
  <2>3. Ledger!Drop
    BY <1>5, <2>1, <2>2 DEF VerifyErase, Ledger!Drop
  <2> QED BY <2>3
<1>6. CASE UNCHANGED ldbVars
  BY <1>6 DEF ldbVars, Held
<1> QED BY <1>1, <1>2, <1>3, <1>4, <1>5, <1>6 DEF LdbNext, Verify

(* Every step of the adapter is a step of the abstract ledger or leaves it *)
(* unchanged: a promise that is not late is dropped only after it has been *)
(* checked.                                                                *)
THEOREM AdapterImplementsLedger == LdbSpec => Ledger!Init /\ [][Ledger!Next]_(Ledger!vars)
<1>1. LdbInit => Ledger!Init
  BY EmptyMapType DEF LdbInit, Ledger!Init, Held
<1> QED BY <1>1, InitIInv, StepIInv, StepImplements, PTL DEF LdbSpec

----------------------------------------------------------------------------
(* Servers that report a block once.                                       *)

SealedInv == IInv /\ HeldInv /\ late = {}

LEMMA SealedIsNext == SealedNext => LdbNext
BY DEF SealedNext, LdbNext, SealedCommit, Commit

LEMMA StepSealedInv == SealedInv /\ [SealedNext]_ldbVars => SealedInv'
<1> SUFFICES ASSUME SealedInv, [SealedNext]_ldbVars PROVE SealedInv'
  OBVIOUS
<1>1. IInv' /\ HeldInv'
  BY SealedIsNext, StepIInv, StepHeldInv DEF SealedInv
<1>2. CASE SealedCommit
  <2>1. PICK list \in UnverifiedLists : Sealed(list) /\ Merge(list)
    BY <1>2 DEF SealedCommit
  <2>2. LateIn(list) = {}
    BY <2>1 DEF Sealed, LateIn
  <2> QED BY <1>1, <2>1, <2>2 DEF SealedInv, Merge
<1>3. CASE Verify
  BY <1>1, <1>3 DEF SealedInv, Verify, VerifyCall, VerifyCopy, VerifyClient,
       VerifyErase, mapVars
<1>4. CASE UNCHANGED ldbVars
  BY <1>1, <1>4 DEF SealedInv, ldbVars
<1> QED BY <1>2, <1>3, <1>4 DEF SealedNext

LEMMA InitSealedInv == LdbInit => SealedInv
BY InitIInv DEF SealedInv, IInv, HeldInv, LdbInit, SnapshotStillHeld

(* If no block grows after it has been reported, every promise is either   *)
(* waiting or has been sent to client->Verify.                             *)
THEOREM SealedLosesNothing == SealedSpec => []NoPromiseLost
<1>1. SealedInv => NoPromiseLost
  BY DEF SealedInv, IInv, LossOnlyWhenLate, NoPromiseLost
<1> QED BY <1>1, InitSealedInv, StepSealedInv, PTL DEF SealedSpec
=============================================================================
