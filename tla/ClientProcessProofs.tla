------------------------ MODULE ClientProcessProofs ------------------------
(***************************************************************************)
(* Proofs about ClientProcess: a client is a Driver and a LedgerDB at the  *)
(* same time, so what is proved of either holds of the whole, and what the *)
(* two together add.                                                       *)
(***************************************************************************)
EXTENDS ClientProcess, TLAPS

LP == INSTANCE LedgerDBProofs

----------------------------------------------------------------------------
(* The lemmas of LedgerDBProofs are about its own instance of the adapter, *)
(* whose definitions are those of L.                                       *)

LEMMA SameLists == LP!UnverifiedListsAssumption
BY ClientAssumption
DEF LP!UnverifiedListsAssumption, L!UnverifiedListsAssumption, LP!PromiseMaps,
    L!PromiseMaps, LP!PartialFns, L!PartialFns

LEMMA SameMaps ==
  /\ LP!EmptyMap = L!EmptyMap
  /\ \A vm : LP!Promises(vm) = L!Promises(vm)
  /\ \A vm : LP!Covered(vm) = L!Covered(vm)
  /\ \A vm, list : LP!Merged(vm, list) = L!Merged(vm, list)
  /\ \A vm, copy : LP!Erased(vm, copy) = L!Erased(vm, copy)
BY DEF LP!EmptyMap, L!EmptyMap, LP!Triples, L!Triples, LP!Blocks, L!Blocks, LP!Keys, L!Keys,
       LP!Promises, L!Promises, LP!Covered, L!Covered, LP!Merged, L!Merged,
       LP!Erased, L!Erased, LP!Remaining, L!Remaining

LEMMA SameInit == L!LdbInit => LP!LdbInit
BY SameMaps DEF LP!LdbInit, L!LdbInit

LEMMA SameStep == [L!LdbNext]_(L!ldbVars) => [LP!LdbNext]_(LP!ldbVars)
<1> SUFFICES ASSUME [L!LdbNext]_(L!ldbVars) PROVE [LP!LdbNext]_(LP!ldbVars)
  OBVIOUS
<1> USE SameMaps DEF LP!LdbNext, LP!Verify, LP!ldbVars, LP!mapVars, L!mapVars
<1>1. CASE L!Commit
  <2>1. PICK list \in UnverifiedLists : L!Merge(list)
    BY <1>1 DEF L!Commit
  <2>2. LP!LateIn(list) = L!LateIn(list)
    BY DEF LP!LateIn, L!LateIn, LP!Snapshot, L!Snapshot
  <2>3. LP!Merge(list)
    BY <2>1, <2>2 DEF LP!Merge, L!Merge, LP!callVars, L!callVars
  <2> QED BY <2>3 DEF LP!Commit
<1>2. CASE L!VerifyCall
  BY <1>2 DEF L!VerifyCall, LP!VerifyCall
<1>3. CASE L!VerifyCopy
  BY <1>3 DEF L!VerifyCopy, LP!VerifyCopy
<1>4. CASE L!VerifyClient
  BY <1>4 DEF L!VerifyClient, LP!VerifyClient, L!Snapshot, LP!Snapshot
<1>5. CASE L!VerifyErase
  BY <1>5 DEF L!VerifyErase, LP!VerifyErase
<1>6. CASE UNCHANGED L!ldbVars
  BY <1>6 DEF L!ldbVars
<1> QED BY <1>1, <1>2, <1>3, <1>4, <1>5, <1>6 DEF L!LdbNext, L!Verify

----------------------------------------------------------------------------
(* The two projections.                                                    *)

LEMMA NextIsLdbStep == [Next]_vars => [L!LdbNext]_(L!ldbVars)
<1> SUFFICES ASSUME [Next]_vars PROVE [L!LdbNext]_(L!ldbVars)
  OBVIOUS
<1> USE DEF L!LdbNext, L!ldbVars, L!Verify
<1>1. CASE TxnMerges
  BY <1>1 DEF TxnMerges, L!Commit
<1>2. CASE VerifierEnters
  BY <1>2 DEF VerifierEnters
<1>3. CASE VerifierInside
  BY <1>3 DEF VerifierInside
<1>4. CASE VerifierCalls
  BY <1>4 DEF VerifierCalls, ldbVars
<1>5. CASE Outside
  BY <1>5 DEF Outside, ldbVars
<1>6. CASE UNCHANGED vars
  BY <1>6 DEF vars, ldbVars
<1> QED BY <1>1, <1>2, <1>3, <1>4, <1>5, <1>6
     DEF Next, TxnThread, VerifierThread, VerifierCheck, VerifierFindsNothing,
         VerifierReturns, VerifierThrows, OtherThreads

LEMMA NextIsDriverStep == [Next]_vars => [D!DriverNext]_(D!driverVars)
<1> SUFFICES ASSUME [Next]_vars PROVE [D!DriverNext]_(D!driverVars)
  OBVIOUS
<1> USE DEF D!DriverNext, D!driverVars, D!threadVars
<1>1. CASE TxnMerges \/ VerifierEnters \/ VerifierInside
  BY <1>1 DEF TxnMerges, VerifierEnters, VerifierInside, driverVars
<1>2. CASE TxnThread
  BY <1>2 DEF TxnThread
<1>3. CASE VerifierCalls \/ VerifierCheck \/ VerifierFindsNothing \/ VerifierReturns
  BY <1>3 DEF VerifierCalls, VerifierCheck, VerifierFindsNothing, VerifierReturns, D!Verifier
<1>4. CASE VerifierThrows \/ OtherThreads
  BY <1>4 DEF VerifierThrows, OtherThreads, D!Throw
<1>5. CASE UNCHANGED vars
  BY <1>5 DEF vars, driverVars
<1> QED BY <1>1, <1>2, <1>3, <1>4, <1>5 DEF Next, VerifierThread

(* A client behaves as LedgerDB does alone: whatever is proved of LdbSpec's *)
(* steps holds in the process, where the two threads are not always there. *)
THEOREM ClientIsLedger == Spec => L!LdbInit /\ [][L!LdbNext]_(L!ldbVars)
<1>1. Init => L!LdbInit
  BY DEF Init
<1> QED BY <1>1, NextIsLdbStep, PTL DEF Spec

(* And it behaves as Driver does alone: calls of the adapter neither hold  *)
(* up nor end a thread in a way the driver does not know.                  *)
THEOREM ClientIsDriver == Spec => D!DriverInit /\ [][D!DriverNext]_(D!driverVars)
<1>1. Init => D!DriverInit
  BY DEF Init
<1> QED BY <1>1, NextIsDriverStep, PTL DEF Spec

----------------------------------------------------------------------------
(* The inductive invariant of the composition.                             *)

(* Verify is in progress only inside the verification thread's call, and an*)
(* exception leaves it where it was.                                       *)
VerifyInsideCall ==
  phase # "idle" => (verifier = "verify" /\ entered) \/ verifier = "threw"

(* Between the two tests of the size nothing takes promises away.          *)
CallFindsPromises == verifier = "verify" /\ ~entered => DOMAIN verify_map # {}

(* The adapter holds, checks and loses only what the server has promised.  *)
NothingInvented ==
  /\ L!Held \cup verified \cup late \subseteq received
  /\ phase \in {"client", "erase"} => L!Snapshot \subseteq received

(* What the map holds before the copy is taken was merged since the copy of*)
(* the call before, whose erase took away all it had copied; from the copy *)
(* to the erase the rest of the map is that copy.                          *)
LeftIsFresh ==
  /\ phase \in {"idle", "copy"} => L!Held \subseteq fresh
  /\ phase \in {"client", "erase"} => L!Held \subseteq L!Snapshot \cup fresh

(* main starts the thread once.                                            *)
NotYetSpawned == main = "spawn" => verifier = "unborn"

CInv ==
  /\ LP!IInv
  /\ NotYetSpawned
  /\ VerifyInsideCall
  /\ CallFindsPromises
  /\ NothingInvented
  /\ LeftIsFresh
  /\ VerifyNeverReportsFailure

(* All but the adapter's own invariant.                                    *)
Rest ==
  NotYetSpawned /\ VerifyInsideCall /\ CallFindsPromises /\ NothingInvented
    /\ LeftIsFresh /\ VerifyNeverReportsFailure

LEMMA MergedGrows ==
  ASSUME NEW vm, NEW list
  PROVE  DOMAIN vm \subseteq DOMAIN L!Merged(vm, list)
BY DEF L!Merged

LEMMA InitCInv == Init => CInv
<1> SUFFICES ASSUME Init PROVE CInv
  OBVIOUS
<1>1. LP!IInv
  BY LP!InitIInv, SameLists, SameInit DEF Init
<1>2. L!Promises(L!EmptyMap) = {}
  BY LP!EmptyMapType, SameLists, SameMaps
<1> QED BY <1>1, <1>2
     DEF Init, L!LdbInit, D!DriverInit, CInv, NotYetSpawned, VerifyInsideCall,
         CallFindsPromises, NothingInvented, LeftIsFresh, VerifyNeverReportsFailure, L!Held

LEMMA MergesCInv ==
  ASSUME CInv, TxnMerges
  PROVE  Rest'
<1> USE DEF CInv, Rest, NotYetSpawned, TxnMerges, driverVars, L!Merge, L!callVars
<1>1. PICK list \in UnverifiedLists :
        L!Merge(list) /\ fresh' = fresh \cup L!Promises(list)
  OBVIOUS
<1>2. L!Held' = L!Held \cup L!Promises(list)
  BY <1>1, LP!MergedPromises, SameLists, SameMaps DEF L!Held
<1>3. L!LateIn(list) \subseteq L!Promises(list)
  BY DEF L!LateIn
<1>4. NothingInvented'
  BY <1>1, <1>2, <1>3 DEF NothingInvented, L!Snapshot
<1>5. CallFindsPromises'
  BY <1>1, MergedGrows DEF CallFindsPromises
<1>6. LeftIsFresh'
  BY <1>1, <1>2 DEF LeftIsFresh, L!Snapshot
<1> QED BY <1>1, <1>4, <1>5, <1>6 DEF VerifyInsideCall, VerifyNeverReportsFailure

LEMMA InsideCInv ==
  ASSUME CInv, VerifierEnters \/ VerifierInside
  PROVE  Rest'
<1> USE DEF CInv, Rest, NotYetSpawned, VerifyInsideCall, CallFindsPromises, NothingInvented,
        LeftIsFresh, VerifyNeverReportsFailure, L!Held, L!Snapshot, L!mapVars, driverVars
<1>1. CASE VerifierEnters
  BY <1>1 DEF VerifierEnters, L!VerifyCall
<1>2. CASE VerifierInside /\ L!VerifyCopy
  BY <1>2 DEF VerifierInside, L!VerifyCopy
<1>3. CASE VerifierInside /\ L!VerifyClient
  <2>1. L!Held' = L!Held /\ L!Snapshot' = L!Snapshot /\ fresh' = fresh
    BY <1>3 DEF VerifierInside, L!VerifyClient, L!VerifyCopy, L!VerifyErase
  <2>2. LeftIsFresh' /\ NothingInvented'
    BY <1>3, <2>1 DEF L!VerifyClient
  <2> QED BY <1>3, <2>2 DEF VerifierInside, L!VerifyClient
<1>4. CASE VerifierInside /\ L!VerifyErase
  <2>1. L!Held' = L!Held \ L!Covered(unverified_keys)
    BY <1>4, LP!ErasedPromises, SameLists, SameMaps DEF L!VerifyErase
  <2>2. L!Snapshot \subseteq L!Covered(unverified_keys)
    BY DEF L!Promises, L!Covered, L!Keys
  <2>3. phase' = "idle" /\ fresh' = fresh
    BY <1>4 DEF VerifierInside, L!VerifyErase, L!VerifyCopy
  <2>4. LeftIsFresh'
    <3>1. L!Held \subseteq L!Snapshot \cup fresh
      BY <1>4 DEF L!VerifyErase
    <3> HIDE DEF L!Held, L!Snapshot
    <3> QED BY <2>1, <2>2, <2>3, <3>1
  <2>5. NothingInvented'
    BY <1>4, <2>1, <2>3 DEF L!VerifyErase
  <2> QED BY <1>4, <2>4, <2>5 DEF VerifierInside, L!VerifyErase
<1> QED BY <1>1, <1>2, <1>3, <1>4 DEF VerifierInside

LEMMA OutsideCInv ==
  ASSUME CInv, UNCHANGED <<ldbVars, fresh>>,
         \/ VerifierCalls
         \/ Outside /\ \/ VerifierCheck \/ VerifierFindsNothing \/ VerifierReturns
                       \/ VerifierThrows \/ TxnThread \/ OtherThreads
  PROVE  Rest'
<1> USE DEF CInv, NotYetSpawned, VerifyInsideCall, CallFindsPromises, ldbVars
<1>1. NothingInvented' /\ LeftIsFresh' /\ VerifyNeverReportsFailure'
  BY DEF NothingInvented, LeftIsFresh, VerifyNeverReportsFailure, L!Held, L!Snapshot
<1>2. CASE VerifierCalls
  BY <1>1, <1>2 DEF VerifierCalls, D!VerifierCalls, Rest
<1>3. CASE Outside /\ (VerifierCheck \/ VerifierFindsNothing \/ VerifierReturns)
  BY <1>1, <1>3 DEF Outside, VerifierCheck, VerifierFindsNothing, VerifierReturns,
       D!VerifierCheck, D!VerifierSkips, D!VerifierReturns, Rest
<1>4. CASE Outside /\ VerifierThrows
  BY <1>1, <1>4 DEF Outside, VerifierThrows, D!VerifierThrows, Rest
<1>5. CASE Outside /\ D!SpawnVerifier
  BY <1>1, <1>5 DEF Outside, D!SpawnVerifier, Rest
<1>6. CASE Outside /\ UNCHANGED verifier /\ (main' = "spawn" => main = "spawn")
  BY <1>1, <1>6 DEF Outside, Rest
<1>7. ASSUME TxnThread \/ D!Tick \/ D!TxnThrows \/ (\E g \in Generators : D!Generator(g))
      PROVE  UNCHANGED <<verifier, main>>
  BY <1>7 DEF TxnThread, D!Txn, D!TxnStart, D!TxnPop, D!TxnReturn, D!TxnCheck, D!Tick,
       D!TxnThrows, D!Generator, D!GeneratorCheck, D!GeneratorEmplace, D!threadVars
<1>8. ASSUME D!Main, ~D!SpawnVerifier
      PROVE  UNCHANGED verifier /\ (main' = "spawn" => main = "spawn")
  BY <1>8 DEF D!Main, D!SpawnGenerator, D!SpawnTxn, D!JoinAll, D!Destroy, D!threadVars
<1> QED BY <1>2, <1>3, <1>4, <1>5, <1>6, <1>7, <1>8 DEF OtherThreads

LEMMA StepCInv == CInv /\ [Next]_vars => CInv'
<1> SUFFICES ASSUME CInv, [Next]_vars PROVE CInv'
  OBVIOUS
<1>1. LP!IInv'
  BY LP!StepIInv, SameLists, NextIsLdbStep, SameStep DEF CInv
<1>2. Rest' => CInv'
  BY <1>1 DEF CInv, Rest
<1>3. CASE TxnMerges
  BY <1>2, <1>3, MergesCInv
<1>4. CASE VerifierEnters \/ VerifierInside
  BY <1>2, <1>4, InsideCInv
<1>5. CASE VerifierCalls
  BY <1>2, <1>5, OutsideCInv DEF VerifierCalls
<1>6. CASE \/ VerifierCheck \/ VerifierFindsNothing \/ VerifierReturns
           \/ VerifierThrows \/ TxnThread \/ OtherThreads
  <2>1. Outside
    BY <1>6 DEF VerifierCheck, VerifierFindsNothing, VerifierReturns, VerifierThrows,
         TxnThread, OtherThreads
  <2> QED BY <1>2, <1>6, <2>1, OutsideCInv DEF Outside
<1>7. CASE UNCHANGED vars
  BY <1>1, <1>7
  DEF CInv, NotYetSpawned, VerifyInsideCall, CallFindsPromises, NothingInvented,
      LeftIsFresh, VerifyNeverReportsFailure, L!Held, L!Snapshot, vars, driverVars, ldbVars
<1> QED BY <1>3, <1>4, <1>5, <1>6, <1>7 DEF Next, VerifierThread

LEMMA AlwaysCInv == Spec => []CInv
BY InitCInv, StepCInv, PTL DEF Spec

----------------------------------------------------------------------------
(* The results.                                                            *)

(* Whatever the server sends and however the threads interleave, Verify,   *)
(* which tests the size a second time, never finds the map empty: the log  *)
(* of a ledger client has no failed verification.                          *)
THEOREM VerifyNeverFails == Spec => []VerifyNeverReportsFailure
<1>1. CInv => VerifyNeverReportsFailure
  BY DEF CInv
<1> QED BY <1>1, AlwaysCInv, PTL

(* When the verification thread has seen the flag, no Verify is half done, *)
(* and the promises it leaves unverified have all come since the copy of   *)
(* its last call: an erase removes at least what its call copied.          *)
THEOREM OnlyFreshIsLeft == Spec => []OnlyFreshLeft
<1>1. CInv => OnlyFreshLeft
  BY DEF CInv, VerifyInsideCall, LeftIsFresh, OnlyFreshLeft
<1> QED BY <1>1, AlwaysCInv, PTL

(* The window is the only way a client loses a promise, with all its       *)
(* threads running.                                                        *)
THEOREM ClientLosesOnlyLate == Spec => [](received \subseteq L!Held \cup verified \cup late)
<1>1. CInv => received \subseteq L!Held \cup verified \cup late
  BY SameMaps DEF CInv, LP!IInv, LP!LossOnlyWhenLate, LP!Held, L!Held
<1> QED BY <1>1, AlwaysCInv, PTL
=============================================================================
