--------------------------- MODULE ClientProcess ---------------------------
(***************************************************************************)
(* A benchmark client with the LedgerDB adapter: the threads of exps/main.cc *)
(* (Driver) and the adapter they call (LedgerDB).  The transaction thread  *)
(* merges server lists only while it executes a transaction, the           *)
(* verification thread runs the steps of Verify only inside its call, and  *)
(* it makes the call only when promises->size() is not zero.               *)
(***************************************************************************)
EXTENDS Integers

CONSTANTS Generators, Duration, Second, IntMax, MaxTime, MaxQueue, MayThrow,
          Replica, Block, Key, UnverifiedLists

VARIABLES main, alive, running, queue, generator, txn, verifier, clock, t2,
          limit, afterStop,
          verify_map, phase, unverified_keys, returned, received, verified, late,
          entered,  \* whether the running call of Verify has tested the size
          fresh     \* history: promises merged since Verify last copied the map

D == INSTANCE Driver
L == INSTANCE LedgerDB

ASSUME ClientAssumption == D!DriverAssumption /\ L!UnverifiedListsAssumption

driverVars == <<main, alive, running, queue, generator, txn, verifier, clock, t2, limit, afterStop>>
ldbVars == <<verify_map, phase, unverified_keys, returned, received, verified, late>>
vars == <<driverVars, ldbVars, entered, fresh>>

Init == D!DriverInit /\ L!LdbInit /\ entered = FALSE /\ fresh = {}

(* A step of a thread outside the adapter.                                 *)
Outside == UNCHANGED <<ldbVars, entered, fresh>>

(* A transaction merges the lists of its range queries and of its commit.  *)
TxnMerges ==
  /\ txn = "execute"
  /\ \E list \in UnverifiedLists :
       L!Merge(list) /\ fresh' = fresh \cup L!Promises(list)
  /\ UNCHANGED <<driverVars, entered>>

TxnThread == D!Txn /\ Outside

VerifierFindsNothing_StaleSize == D!VerifierSkips /\ Outside

(* promises->size() is read without the lock, here and again in Verify.    *)
VerifierFindsNothing ==
  /\ DOMAIN verify_map = {}
  /\ D!VerifierSkips
  /\ Outside

VerifierCalls_NoSizeCheck ==
  /\ D!VerifierCalls
  /\ entered' = FALSE
  /\ UNCHANGED <<ldbVars, fresh>>

VerifierCalls ==
  /\ DOMAIN verify_map # {}
  /\ D!VerifierCalls
  /\ entered' = FALSE
  /\ UNCHANGED <<ldbVars, fresh>>

VerifierEnters ==
  /\ verifier = "verify"
  /\ ~entered
  /\ L!VerifyCall
  /\ entered' = TRUE
  /\ UNCHANGED <<driverVars, fresh>>

VerifierInside ==
  /\ verifier = "verify"
  /\ \/ L!VerifyCopy /\ fresh' = {}
     \/ (L!VerifyClient \/ L!VerifyErase) /\ UNCHANGED fresh
  /\ UNCHANGED <<driverVars, entered>>

VerifierReturns ==
  /\ entered
  /\ phase = "idle"
  /\ D!VerifierReturns
  /\ Outside

VerifierCheck == D!VerifierCheck /\ Outside

(* An exception of the client library leaves Verify while it runs unlocked.*)
VerifierThrows ==
  /\ phase = "client"
  /\ D!VerifierThrows
  /\ Outside

VerifierThread ==
  \/ VerifierCheck
  \/ VerifierFindsNothing
  \/ VerifierCalls
  \/ VerifierEnters
  \/ VerifierInside
  \/ VerifierReturns

OtherThreads ==
  /\ D!Main \/ (\E g \in Generators : D!Generator(g)) \/ D!Tick \/ D!TxnThrows
  /\ Outside

Next ==
  TxnMerges \/ TxnThread \/ VerifierThread \/ VerifierThrows \/ OtherThreads

Spec ==
  /\ Init
  /\ [][Next]_vars
  /\ WF_vars(D!Tick /\ Outside)
  /\ WF_vars(D!Main /\ Outside)
  /\ \A g \in Generators : WF_vars(D!Generator(g) /\ Outside)
  /\ WF_vars(TxnThread)
  /\ WF_vars(VerifierThread)

----------------------------------------------------------------------------
(* Properties.                                                             *)

(* The status logged for a verification is that of Verify's result.  The   *)
(* threads read the size without the lock, but only this thread ever makes *)
(* the map smaller: Verify never finds it empty, never returns false, and  *)
(* the log never holds a failed verification.                              *)
VerifyNeverReportsFailure == returned # "false"

(* The verification thread ends on the first test of running that fails,   *)
(* without a last Verify, and main does not look at the map again.  What   *)
(* this leaves unverified is only what was merged since the copy of its    *)
(* last call: no Verify is half done, and nothing an earlier call has      *)
(* copied is left, however many lists came in between.                     *)
OnlyFreshLeft == verifier = "done" => phase = "idle" /\ L!Held \subseteq fresh

(* As long as the client runs, every promise is checked in the end or lost *)
(* in the window.                                                          *)
VerifiedUnlessStopped ==
  \A t \in L!Triples :
    (t \in L!Held) ~> (t \in verified \cup late \/ ~running \/ verifier = "threw")
=============================================================================
