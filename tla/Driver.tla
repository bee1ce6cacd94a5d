------------------------------ MODULE Driver ------------------------------
(***************************************************************************)
(* The threads of one benchmark client (exps/main.cc).                     *)
(*                                                                         *)
(* main starts nThread task generators, one transaction thread and one     *)
(* verification thread with std::async and falls off its end: the futures  *)
(* are destroyed first, which waits for every thread, then the workload    *)
(* and the database adapter, and at exit the promises.  The threads share  *)
(* the plain bool running, which only the transaction thread writes, and   *)
(* an unbounded task queue.  A thread that throws stores the exception in  *)
(* its future, which nobody reads.                                         *)
(*                                                                         *)
(* running is read without synchronisation; each read is a step of its own *)
(* that sees the current value (the loops make calls the compiler cannot   *)
(* see into, so every iteration reads the variable again).                 *)
(*                                                                         *)
(* Bounds: the clock stops at MaxTime, and a queue of MaxQueue tasks       *)
(* stands for every longer one.                                            *)
(***************************************************************************)
EXTENDS Integers

CONSTANTS
  Generators,   \* the task generator threads, nThread of them
  Duration,     \* the argument of -D, in units of Second ticks
  Second,       \* clock ticks in a unit of Duration (1000000 in the code)
  IntMax,       \* largest value of int
  MaxTime,      \* bound on the clock
  MaxQueue,     \* bound on the length of the queue that is told apart
  MayThrow      \* whether a call of the adapter can throw

ASSUME DriverAssumption ==
  /\ Duration \in Nat
  /\ Second \in Nat \ {0}
  /\ IntMax \in Nat
  /\ MaxTime \in Nat
  /\ MaxQueue \in Nat \ {0}
  /\ MayThrow \in BOOLEAN
  /\ "verifier" \notin Generators

VARIABLES
  main,       \* where main is
  alive,      \* objects of main not yet destroyed
  running,    \* the global flag
  queue,      \* length of task_queue
  generator,  \* where each generator is
  txn,        \* where the transaction thread is
  verifier,   \* where the verification thread is
  clock,      \* time since txnThread read t0
  t2,         \* txnThread's local, on the same scale
  limit,      \* the value of duration*1000000
  afterStop   \* history: rounds each looping thread began or ended after stop

threadVars == <<generator, txn, verifier>>
driverVars == <<main, alive, running, queue, threadVars, clock, t2, limit, afterStop>>

Loopers == Generators \cup {"verifier"}

(* duration*1000000 is computed in int: when it overflows, the build may   *)
(* produce the wrapped value or, computing in a wider register, the exact  *)
(* one.                                                                    *)
Wrapped(n) == ((n + IntMax + 1) % (2 * (IntMax + 1))) - (IntMax + 1)

Limits == {Duration * Second, Wrapped(Duration * Second)}

DriverInit ==
  /\ main = "spawn"
  /\ alive = {"wl", "db", "promises"}
  /\ running = TRUE
  /\ queue = 0
  /\ generator = [g \in Generators |-> "unborn"]
  /\ txn = "unborn"
  /\ verifier = "unborn"
  /\ clock = 0
  /\ t2 = 0
  /\ limit \in Limits
  /\ afterStop = [l \in Loopers |-> 0]

----------------------------------------------------------------------------
(* The time of day, from the moment the transaction thread reads t0. It is *)
(* not set back meanwhile.                                                 *)
Tick ==
  /\ txn \notin {"unborn", "start"}
  /\ clock < MaxTime
  /\ clock' = clock + 1
  /\ UNCHANGED <<main, alive, running, queue, threadVars, t2, limit, afterStop>>

----------------------------------------------------------------------------
(* main: start the threads in order, then unwind.                          *)

SpawnGenerator(g) ==
  /\ main = "spawn"
  /\ generator[g] = "unborn"
  /\ generator' = [generator EXCEPT ![g] = "sleep"]
  /\ UNCHANGED <<main, alive, running, queue, txn, verifier, clock, t2, limit, afterStop>>

SpawnTxn ==
  /\ main = "spawn"
  /\ \A g \in Generators : generator[g] # "unborn"
  /\ txn = "unborn"
  /\ txn' = "start"
  /\ UNCHANGED <<main, alive, running, queue, generator, verifier, clock, t2, limit, afterStop>>

SpawnVerifier ==
  /\ main = "spawn"
  /\ txn # "unborn"
  /\ verifier' = "sleep"
  /\ main' = "join"
  /\ UNCHANGED <<alive, running, queue, generator, txn, clock, t2, limit, afterStop>>

Ended == {"unborn", "done", "threw"}

AllEnded ==
  /\ \A g \in Generators : generator[g] \in Ended
  /\ txn \in Ended
  /\ verifier \in Ended

JoinAll_Detached ==
  /\ main = "join"
  /\ main' = "unwind"
  /\ UNCHANGED <<alive, running, queue, threadVars, clock, t2, limit, afterStop>>

(* Destroying the futures waits for all threads.                           *)
JoinAll ==
  /\ main = "join"
  /\ AllEnded
  /\ main' = "unwind"
  /\ UNCHANGED <<alive, running, queue, threadVars, clock, t2, limit, afterStop>>

(* Locals in reverse order of declaration, then the statics.               *)
Destroy ==
  /\ main = "unwind"
  /\ \/ "wl" \in alive /\ alive' = alive \ {"wl"} /\ UNCHANGED main
     \/ "wl" \notin alive /\ "db" \in alive /\ alive' = alive \ {"db"} /\ UNCHANGED main
     \/ "db" \notin alive /\ alive' = {} /\ main' = "exited"
  /\ UNCHANGED <<running, queue, threadVars, clock, t2, limit, afterStop>>

Main ==
  \/ \E g \in Generators : SpawnGenerator(g)
  \/ SpawnTxn
  \/ SpawnVerifier
  \/ JoinAll
  \/ Destroy

----------------------------------------------------------------------------
(* taskGenerator.                                                          *)

Count(l) == IF running THEN UNCHANGED afterStop
            ELSE afterStop' = [afterStop EXCEPT ![l] = @ + 1]

GeneratorCheck_Ignored(g) ==
  /\ generator[g] = "sleep"
  /\ generator' = [generator EXCEPT ![g] = "produce"]
  /\ UNCHANGED <<main, alive, running, queue, txn, verifier, clock, t2, limit, afterStop>>

GeneratorCheck(g) ==
  /\ generator[g] = "sleep"
  /\ generator' = [generator EXCEPT ![g] = IF running THEN "produce" ELSE "done"]
  /\ UNCHANGED <<main, alive, running, queue, txn, verifier, clock, t2, limit, afterStop>>

GeneratorEmplace(g) ==
  /\ generator[g] = "produce"
  /\ generator' = [generator EXCEPT ![g] = "sleep"]
  /\ queue' = IF queue < MaxQueue THEN queue + 1 ELSE queue
  /\ Count(g)
  /\ UNCHANGED <<main, alive, running, txn, verifier, clock, t2, limit>>

Generator(g) == GeneratorCheck(g) \/ GeneratorEmplace(g)

----------------------------------------------------------------------------
(* txnThread.                                                              *)

TxnStart ==
  /\ txn = "start"
  /\ txn' = "pop"
  /\ UNCHANGED <<main, alive, running, queue, generator, verifier, clock, t2, limit, afterStop>>

TxnPop_NotTried ==
  /\ txn = "pop"
  /\ queue' = queue - 1
  /\ txn' = "execute"
  /\ UNCHANGED <<main, alive, running, generator, verifier, clock, t2, limit, afterStop>>

(* A try_pop of an empty queue changes nothing.                            *)
TxnPop ==
  /\ txn = "pop"
  /\ queue > 0
  /\ queue' \in {queue - 1} \cup (IF queue = MaxQueue THEN {queue} ELSE {})
  /\ txn' = "execute"
  /\ UNCHANGED <<main, alive, running, generator, verifier, clock, t2, limit, afterStop>>

(* ExecuteTxn or StoredProcedure returns, with whatever status.            *)
TxnReturn ==
  /\ txn = "execute"
  /\ t2' = clock
  /\ txn' = "check"
  /\ UNCHANGED <<main, alive, running, queue, generator, verifier, clock, limit, afterStop>>

TxnThrows ==
  /\ MayThrow
  /\ txn = "execute"
  /\ txn' = "threw"
  /\ UNCHANGED <<main, alive, running, queue, generator, verifier, clock, t2, limit, afterStop>>

TxnCheck ==
  /\ txn = "check"
  /\ IF t2 > limit
       THEN running' = FALSE /\ txn' = "done"
       ELSE txn' = "pop" /\ UNCHANGED running
  /\ UNCHANGED <<main, alive, queue, generator, verifier, clock, t2, limit, afterStop>>

Txn == TxnStart \/ TxnPop \/ TxnReturn \/ TxnCheck

----------------------------------------------------------------------------
(* verifyThread.                                                           *)

VerifierCheck_Ignored ==
  /\ verifier = "sleep"
  /\ verifier' = "size"
  /\ UNCHANGED <<main, alive, running, queue, generator, txn, clock, t2, limit, afterStop>>

VerifierCheck ==
  /\ verifier = "sleep"
  /\ verifier' = IF running THEN "size" ELSE "done"
  /\ UNCHANGED <<main, alive, running, queue, generator, txn, clock, t2, limit, afterStop>>

(* promises->size() is zero.                                               *)
VerifierSkips ==
  /\ verifier = "size"
  /\ verifier' = "sleep"
  /\ UNCHANGED <<main, alive, running, queue, generator, txn, clock, t2, limit, afterStop>>

VerifierCalls ==
  /\ verifier = "size"
  /\ verifier' = "verify"
  /\ UNCHANGED <<main, alive, running, queue, generator, txn, clock, t2, limit, afterStop>>

VerifierReturns ==
  /\ verifier = "verify"
  /\ verifier' = "sleep"
  /\ Count("verifier")
  /\ UNCHANGED <<main, alive, running, queue, generator, txn, clock, t2, limit>>

VerifierThrows ==
  /\ MayThrow
  /\ verifier = "verify"
  /\ verifier' = "threw"
  /\ UNCHANGED <<main, alive, running, queue, generator, txn, clock, t2, limit, afterStop>>

Verifier == VerifierCheck \/ VerifierSkips \/ VerifierCalls \/ VerifierReturns

----------------------------------------------------------------------------
Throw == TxnThrows \/ VerifierThrows

DriverNext ==
  \/ Tick
  \/ Main
  \/ \E g \in Generators : Generator(g)
  \/ Txn
  \/ Verifier
  \/ Throw

(* Time passes, and the scheduler of the operating system runs every       *)
(* thread that can take a step; no exception has to happen.                *)
DriverSpec ==
  /\ DriverInit
  /\ [][DriverNext]_driverVars
  /\ WF_driverVars(Tick)
  /\ WF_driverVars(Main)
  /\ \A g \in Generators : WF_driverVars(Generator(g))
  /\ WF_driverVars(Txn)
  /\ WF_driverVars(Verifier)
----------------------------------------------------------------------------
(* Properties.                                                             *)

TypeOK ==
  /\ main \in {"spawn", "join", "unwind", "exited"}
  /\ alive \subseteq {"wl", "db", "promises"}
  /\ running \in BOOLEAN
  /\ queue \in 0..MaxQueue
  /\ generator \in [Generators -> {"unborn", "sleep", "produce", "done"}]
  /\ txn \in {"unborn", "start", "pop", "execute", "check", "done", "threw"}
  /\ verifier \in {"unborn", "sleep", "size", "verify", "done", "threw"}
  /\ clock \in 0..MaxTime
  /\ t2 \in 0..MaxTime
  /\ limit \in Limits
  /\ afterStop \in [Loopers -> Nat]

(* No thread is inside the workload, the adapter or the promises when main *)
(* destroys them, however the threads end.                                 *)
NoUseAfterDestroy ==
  /\ (\E g \in Generators : generator[g] = "produce") => "wl" \in alive
  /\ txn = "execute" => {"wl", "db", "promises"} \subseteq alive
  /\ verifier \in {"size", "verify"} => {"db", "promises"} \subseteq alive

(* The flag is tested and acted upon in two steps, so a generator can still*)
(* add a task, and the verification thread still end a Verify, after the   *)
(* run is over: once each, never again.                                    *)
AfterStopBounded == \A l \in Loopers : afterStop[l] <= 1

(* The client exits unless its transaction thread died of an exception; an *)
(* exception in the verification thread does not keep it alive.            *)
ExitsUnlessTxnThrew == <>(main = "exited" \/ txn = "threw")

(* Every client exits.                                                     *)
Termination == <>(main = "exited")
=============================================================================
