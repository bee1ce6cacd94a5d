--------------------------- MODULE DriverProofs ---------------------------
(***************************************************************************)
(* Proofs about Driver for any number of generators and any clock.         *)
(***************************************************************************)
EXTENDS Driver, TLAPS

(* What the threads can still touch: main has begun to destroy nothing     *)
(* until all of them have ended, and none starts after that.               *)
JoinedBeforeDestroy ==
  IF main \in {"unwind", "exited"} THEN AllEnded ELSE alive = {"wl", "db", "promises"}

(* A thread that is inside its loop body has not yet counted.              *)
CountedOnce ==
  /\ afterStop \in [Loopers -> {0, 1}]
  /\ running => \A l \in Loopers : afterStop[l] = 0
  /\ \A g \in Generators : generator[g] = "produce" => afterStop[g] = 0
  /\ verifier \in {"size", "verify"} => afterStop["verifier"] = 0

IInv == TypeOK /\ JoinedBeforeDestroy /\ CountedOnce

LEMMA InitIInv == DriverInit => IInv
BY DriverAssumption
DEF DriverInit, IInv, TypeOK, JoinedBeforeDestroy, CountedOnce, Loopers

LEMMA StepIInv == IInv /\ [DriverNext]_driverVars => IInv'
<1> SUFFICES ASSUME IInv, [DriverNext]_driverVars PROVE IInv'
  OBVIOUS
<1> USE DriverAssumption DEF IInv, TypeOK, JoinedBeforeDestroy, CountedOnce, AllEnded, Ended, threadVars, Loopers
<1>1. CASE Tick
  BY <1>1 DEF Tick
<1>2. CASE Main
  <2>1. ASSUME NEW g \in Generators, SpawnGenerator(g) PROVE IInv'
    BY <2>1 DEF SpawnGenerator
  <2>2. CASE SpawnTxn
    BY <2>2 DEF SpawnTxn
  <2>3. CASE SpawnVerifier
    BY <2>3 DEF SpawnVerifier
  <2>4. CASE JoinAll
    BY <2>4 DEF JoinAll
  <2>5. CASE Destroy
    BY <2>5 DEF Destroy
  <2> QED BY <1>2, <2>1, <2>2, <2>3, <2>4, <2>5 DEF Main
<1>3. ASSUME NEW g \in Generators, GeneratorCheck(g) PROVE IInv'
  BY <1>3 DEF GeneratorCheck
<1>4. ASSUME NEW g \in Generators, GeneratorEmplace(g) PROVE IInv'
  BY <1>4 DEF GeneratorEmplace, Count
<1>5. CASE Txn
  <2>1. CASE TxnStart
    BY <2>1 DEF TxnStart
  <2>2. CASE TxnPop
    BY <2>2 DEF TxnPop
  <2>3. CASE TxnReturn
    BY <2>3 DEF TxnReturn
  <2>4. CASE TxnCheck
    BY <2>4 DEF TxnCheck
  <2> QED BY <1>5, <2>1, <2>2, <2>3, <2>4 DEF Txn
<1>6. CASE Verifier
  <2>1. CASE VerifierCheck
    BY <2>1 DEF VerifierCheck
  <2>2. CASE VerifierSkips
    BY <2>2 DEF VerifierSkips
  <2>3. CASE VerifierCalls
    BY <2>3 DEF VerifierCalls
  <2>4. CASE VerifierReturns
    BY <2>4 DEF VerifierReturns, Count
  <2> QED BY <1>6, <2>1, <2>2, <2>3, <2>4 DEF Verifier
<1>7. CASE Throw
  BY <1>7 DEF Throw, TxnThrows, VerifierThrows
<1>8. CASE UNCHANGED driverVars
  BY <1>8 DEF driverVars
<1> QED BY <1>1, <1>2, <1>3, <1>4, <1>5, <1>6, <1>7, <1>8 DEF DriverNext, Generator

(* The types hold for any number of generators.                            *)
THEOREM TypeCorrect == DriverSpec => []TypeOK
<1>1. IInv => TypeOK
  BY DEF IInv
<1> QED BY <1>1, InitIInv, StepIInv, PTL DEF DriverSpec

(* However the threads end, by the flag or by an exception, main destroys  *)
(* nothing that one of them still uses.                                    *)
THEOREM NothingUsedAfterDestroy == DriverSpec => []NoUseAfterDestroy
<1>1. IInv => NoUseAfterDestroy
  BY DEF IInv, TypeOK, JoinedBeforeDestroy, NoUseAfterDestroy, AllEnded, Ended
<1> QED BY <1>1, InitIInv, StepIInv, PTL DEF DriverSpec

(* After the run is over each generator adds at most one more task, and    *)
(* at most one more Verify returns.                                        *)
THEOREM AtMostOneMoreRound == DriverSpec => []AfterStopBounded
<1>1. IInv => AfterStopBounded
  BY DEF IInv, CountedOnce, AfterStopBounded
<1> QED BY <1>1, InitIInv, StepIInv, PTL DEF DriverSpec
=============================================================================
