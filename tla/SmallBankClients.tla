-------------------------- MODULE SmallBankClients --------------------------
(***************************************************************************)
(* SmallBank run interactively by several client processes on one store.   *)
(* Each client has one transaction thread (exps/main.cc), so at most one   *)
(* transaction at a time: it begins, reads its keys in one batch, computes *)
(* its puts from the replies and commits.                                  *)
(*                                                                         *)
(* The store is external (strongstore in MODE_OCC, ledgerdb.cc:23): the    *)
(* keys of a batch live on different shards and are read one by one, Put   *)
(* only buffers, and Commit is accepted iff every version read is still    *)
(* current.  A refused commit is logged with status 1 and not retried.     *)
(*                                                                         *)
(* Bound: a client runs at most MaxTxns transactions.                      *)
(***************************************************************************)
EXTENDS SmallBank

CONSTANTS Clients, Opening, MaxTxns

ASSUME ClientsAssumption ==
  /\ Opening \in [Records -> Int]
  /\ MaxTxns \in Nat

VARIABLES
  value,    \* the store: the value of every record ...
  version,  \* ... and how often it was written
  task,     \* the task each client executes, NoTask or Dead
  reads,    \* what each client has read for it: record -> value and version
  txns      \* how many transactions each client has begun

vars == <<value, version, task, reads, txns>>

NoTask == [op |-> "none"]
Dead == [op |-> "dead"]   \* the transaction thread has thrown

Nothing == [r \in {} |-> 0]

Init ==
  /\ value = Opening
  /\ version = [r \in Records |-> 0]
  /\ task = [c \in Clients |-> NoTask]
  /\ reads = [c \in Clients |-> Nothing]
  /\ txns = [c \in Clients |-> 0]

----------------------------------------------------------------------------
(* Client c's view of the values it read.                                  *)
Seen(c) == [r \in DOMAIN reads[c] |-> reads[c][r].value]

Busy(c) == task[c] \notin {NoTask, Dead}

HasRead(c) == Busy(c) /\ DOMAIN reads[c] = ReadKeys(task[c])

Current_FirstKeyOnly(c) == \E r \in DOMAIN reads[c] : reads[c][r].version = version[r]

Current_NotChecked(c) == DOMAIN reads[c] # {}

Current(c) == \A r \in DOMAIN reads[c] : reads[c][r].version = version[r]

Begin(c) ==
  /\ task[c] = NoTask
  /\ txns[c] < MaxTxns
  /\ \E t \in Tasks : task' = [task EXCEPT ![c] = t]
  /\ txns' = [txns EXCEPT ![c] = @ + 1]
  /\ UNCHANGED <<value, version, reads>>

Read(c, r) ==
  /\ Busy(c)
  /\ r \in ReadKeys(task[c]) \ DOMAIN reads[c]
  /\ reads' = [reads EXCEPT ![c] =
                 [q \in DOMAIN @ \cup {r} |->
                    IF q = r THEN [value |-> value[r], version |-> version[r]] ELSE @[q]]]
  /\ UNCHANGED <<value, version, task, txns>>

Finish(c) ==
  /\ task' = [task EXCEPT ![c] = NoTask]
  /\ reads' = [reads EXCEPT ![c] = Nothing]
  /\ UNCHANGED txns

(* The batched Get fails or lacks a value: stoi("") throws out of the      *)
(* thread, except in GetBalance with a status that is not zero, which it   *)
(* returns.  Every other operation ignores the status.                     *)
Die(c) == task' = [task EXCEPT ![c] = Dead] /\ UNCHANGED <<reads, txns>>

GetFails(c) ==
  /\ Busy(c)
  /\ Die(c) \/ (task[c].op = "GB" /\ Finish(c))
  /\ UNCHANGED <<value, version>>

(* The store accepts the commit and applies the buffered puts.             *)
Commit(c) ==
  /\ HasRead(c)
  /\ Commits(task[c], Seen(c))
  /\ Current(c)
  /\ value' = WithPuts(value, task[c], Seen(c))
  /\ version' = [r \in Records |->
                   IF r \in PutKeys(task[c]) THEN version[r] + 1 ELSE version[r]]
  /\ Finish(c)

(* The store refuses it.                                                   *)
Conflict(c) ==
  /\ HasRead(c)
  /\ Commits(task[c], Seen(c))
  /\ ~Current(c)
  /\ Finish(c)
  /\ UNCHANGED <<value, version>>

(* The transaction returns without a Commit or an Abort.                   *)
ReturnUncommitted(c) ==
  /\ HasRead(c)
  /\ ~Commits(task[c], Seen(c))
  /\ Finish(c)
  /\ UNCHANGED <<value, version>>

Client(c) ==
  \/ Begin(c)
  \/ \E r \in Records : Read(c, r)
  \/ GetFails(c)
  \/ Commit(c)
  \/ Conflict(c)
  \/ ReturnUncommitted(c)

Next == \E c \in Clients : Client(c)

Spec == Init /\ [][Next]_vars

----------------------------------------------------------------------------
(* Properties.                                                             *)

(* The interleaved clients behave like a bank that executes whole          *)
(* transactions one at a time: no update is lost and no transaction        *)
(* computes with a balance that was never there.                           *)
Bank == INSTANCE AtomicBank WITH bank <- value

Serializable == Bank!Spec

(* WriteCheck tests the balance it read long before it commits; the        *)
(* balance at the moment of the commit still covers the check.             *)
ChecksAreCovered ==
  [][\A c \in Clients :
       task[c].op = "WC" /\ Commit(c) => value[checking(task[c].acc1)] > task[c].balance]_vars
=============================================================================
