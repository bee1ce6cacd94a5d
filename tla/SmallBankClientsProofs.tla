----------------------- MODULE SmallBankClientsProofs -----------------------
(***************************************************************************)
(* Proofs about SmallBankClients for any number of clients, accounts and   *)
(* transactions.                                                           *)
(***************************************************************************)
EXTENDS SmallBankClients, TLAPS

----------------------------------------------------------------------------
(* The transactions.                                                       *)

LEMMA RecordsOfAccounts ==
  \A a \in Accounts : saving(a) \in Records /\ checking(a) \in Records
BY DEF saving, checking, Records

LEMMA TaskShape ==
  ASSUME NEW t \in Tasks
  PROVE  /\ t.acc1 \in Accounts /\ t.acc2 \in Accounts
         /\ t.balance \in Nat
         /\ t.op \in {"AM", "GB", "UB", "US", "SP", "WC"}
         /\ ReadKeys(t) \subseteq Records
<1>1. t.acc1 \in Accounts /\ t.acc2 \in Accounts /\ t.balance \in Nat
      /\ t.op \in {"AM", "GB", "UB", "US", "SP", "WC"}
  BY SmallBankAssumption DEF Tasks
<1> QED BY <1>1, RecordsOfAccounts DEF ReadKeys

(* A transaction looks at nothing but the keys of its batch.               *)
LEMMA OnlyReadKeysMatter ==
  ASSUME NEW t \in Tasks, NEW v, NEW w, NEW bank,
         \A r \in ReadKeys(t) : v[r] = w[r]
  PROVE  /\ Commits(t, v) = Commits(t, w)
         /\ t.op # "GB" => WithPuts(bank, t, v) = WithPuts(bank, t, w)
<1>1. CASE t.op = "AM"
  BY <1>1 DEF ReadKeys, Commits, WithPuts
<1>2. CASE t.op = "GB"
  BY <1>2 DEF Commits
<1>3. CASE t.op = "UB"
  BY <1>3 DEF ReadKeys, Commits, WithPuts
<1>4. CASE t.op = "US"
  BY <1>4 DEF ReadKeys, Commits, WithPuts
<1>5. CASE t.op = "SP"
  BY <1>5 DEF ReadKeys, Commits, WithPuts
<1>6. CASE t.op = "WC"
  BY <1>6 DEF ReadKeys, Commits, WithPuts
<1> QED BY <1>1, <1>2, <1>3, <1>4, <1>5, <1>6, TaskShape

(* It puts integers, and only in the records of PutKeys.                   *)
LEMMA PutsShape ==
  ASSUME NEW t \in Tasks, t.op # "GB",
         NEW v, \A r \in ReadKeys(t) : v[r] \in Int,
         NEW bank \in [Records -> Int]
  PROVE  /\ WithPuts(bank, t, v) \in [Records -> Int]
         /\ \A r \in Records \ PutKeys(t) : WithPuts(bank, t, v)[r] = bank[r]
<1>0. /\ saving(t.acc1) \in Records /\ saving(t.acc2) \in Records
      /\ checking(t.acc1) \in Records /\ checking(t.acc2) \in Records
      /\ t.balance \in Int
  BY TaskShape, RecordsOfAccounts
<1>1. CASE t.op = "AM"
  BY <1>0, <1>1 DEF ReadKeys, WithPuts, PutKeys
<1>2. CASE t.op = "UB"
  BY <1>0, <1>2 DEF ReadKeys, WithPuts, PutKeys
<1>3. CASE t.op = "US"
  BY <1>0, <1>3 DEF ReadKeys, WithPuts, PutKeys
<1>4. CASE t.op = "SP"
  BY <1>0, <1>4 DEF ReadKeys, WithPuts, PutKeys
<1>5. CASE t.op = "WC"
  BY <1>0, <1>5 DEF ReadKeys, WithPuts, PutKeys
<1> QED BY <1>1, <1>2, <1>3, <1>4, <1>5, TaskShape

----------------------------------------------------------------------------
(* The inductive invariant.                                                *)

ReadResults == [value : Int, version : Nat]

TypeOK ==
  /\ value \in [Records -> Int]
  /\ version \in [Records -> Nat]
  /\ task \in [Clients -> Tasks \cup {NoTask, Dead}]
  /\ DOMAIN reads = Clients
  /\ \A c \in Clients :
       /\ DOMAIN reads[c] \subseteq Records
       /\ \A r \in DOMAIN reads[c] : reads[c][r] \in ReadResults
  /\ txns \in [Clients -> Nat]

(* What the model of the store keeps true: a version a client has read is  *)
(* never newer than the store's, and equal versions mean equal values.     *)
VersionNamesValue ==
  \A c \in Clients : \A r \in DOMAIN reads[c] :
    /\ reads[c][r].version <= version[r]
    /\ reads[c][r].version = version[r] => reads[c][r].value = value[r]

IInv == TypeOK /\ VersionNamesValue

LEMMA InitIInv == Init => IInv
BY ClientsAssumption DEF Init, IInv, TypeOK, VersionNamesValue, Nothing

(* While a commit is valid, the client sees the current values of its keys.*)
LEMMA CurrentSeesStore ==
  ASSUME IInv, NEW c \in Clients, HasRead(c), Current(c)
  PROVE  \A r \in ReadKeys(task[c]) : Seen(c)[r] = value[r]
BY DEF IInv, VersionNamesValue, HasRead, Current, Seen

LEMMA BusyTask ==
  ASSUME TypeOK, NEW c \in Clients, Busy(c)
  PROVE  task[c] \in Tasks
BY DEF TypeOK, Busy

(* Finishing a transaction forgets what it read and disturbs no other      *)
(* client.                                                                 *)
LEMMA FinishIInv ==
  ASSUME IInv, NEW c \in Clients, Finish(c),
         value' \in [Records -> Int], version' \in [Records -> Nat],
         \A r \in Records :
           \/ version'[r] = version[r] /\ value'[r] = value[r]
           \/ version'[r] = version[r] + 1
  PROVE  IInv'
<1> USE DEF Finish
<1>1. TypeOK'
  BY DEF IInv, TypeOK, Nothing
<1>2. VersionNamesValue'
  <2> SUFFICES ASSUME NEW d \in Clients, NEW r \in DOMAIN reads'[d]
               PROVE  /\ reads'[d][r].version <= version'[r]
                      /\ reads'[d][r].version = version'[r]
                           => reads'[d][r].value = value'[r]
    BY DEF VersionNamesValue
  <2>1. d # c /\ reads'[d] = reads[d]
    BY DEF IInv, TypeOK, Nothing
  <2>2. r \in Records /\ reads[d][r].version \in Nat /\ version[r] \in Nat
    BY <2>1 DEF IInv, TypeOK, ReadResults
  <2>3. /\ reads[d][r].version <= version[r]
        /\ reads[d][r].version = version[r] => reads[d][r].value = value[r]
    BY <2>1 DEF IInv, VersionNamesValue
  <2> QED BY <2>1, <2>2, <2>3
<1> QED BY <1>1, <1>2 DEF IInv

LEMMA ReadIInv ==
  ASSUME IInv, NEW c \in Clients, NEW q \in Records, Read(c, q)
  PROVE  IInv'
<1> USE DEF Read
<1>1. /\ DOMAIN reads' = Clients
      /\ DOMAIN reads'[c] = DOMAIN reads[c] \cup {q}
      /\ reads'[c][q] = [value |-> value[q], version |-> version[q]]
      /\ \A r \in DOMAIN reads[c] : r # q => reads'[c][r] = reads[c][r]
      /\ \A d \in Clients : d # c => reads'[d] = reads[d]
  BY DEF IInv, TypeOK
<1>2. value[q] \in Int /\ version[q] \in Nat
  BY DEF IInv, TypeOK
<1>3. TypeOK'
  BY <1>1, <1>2 DEF IInv, TypeOK, ReadResults
<1>4. VersionNamesValue'
  BY <1>1, <1>2 DEF IInv, VersionNamesValue
<1> QED BY <1>3, <1>4 DEF IInv

LEMMA CommitIInv ==
  ASSUME IInv, NEW c \in Clients, Commit(c)
  PROVE  IInv'
<1> DEFINE t == task[c]
<1>1. t \in Tasks /\ t.op # "GB" /\ HasRead(c) /\ Current(c) /\ Finish(c)
  BY BusyTask DEF Commit, HasRead, Commits, IInv
<1>2. \A r \in ReadKeys(t) : Seen(c)[r] \in Int
  BY <1>1 DEF HasRead, Seen, IInv, TypeOK, ReadResults
<1>3. value' = WithPuts(value, t, Seen(c))
  BY DEF Commit
<1>4. /\ value' \in [Records -> Int]
      /\ \A r \in Records \ PutKeys(t) : value'[r] = value[r]
  <2> HIDE DEF t
  <2> QED BY <1>1, <1>2, <1>3, PutsShape DEF IInv, TypeOK
<1>5. /\ version' = [r \in Records |->
                       IF r \in PutKeys(t) THEN version[r] + 1 ELSE version[r]]
      /\ \A r \in Records : version[r] \in Nat
  BY DEF Commit, IInv, TypeOK
<1>6. version' \in [Records -> Nat]
  BY <1>5
<1> QED BY <1>1, <1>4, <1>5, <1>6, FinishIInv

LEMMA StepIInv == IInv /\ [Next]_vars => IInv'
<1> SUFFICES ASSUME IInv, [Next]_vars PROVE IInv'
  OBVIOUS
<1>0. ASSUME NEW c \in Clients, Finish(c), UNCHANGED <<value, version>>
      PROVE  IInv'
  BY <1>0, FinishIInv DEF IInv, TypeOK
<1>1. ASSUME NEW c \in Clients, Begin(c) PROVE IInv'
  <2>1. TypeOK'
    BY <1>1 DEF Begin, IInv, TypeOK
  <2>2. VersionNamesValue'
    BY <1>1 DEF Begin, IInv, VersionNamesValue
  <2> QED BY <2>1, <2>2 DEF IInv
<1>2. ASSUME NEW c \in Clients, GetFails(c) PROVE IInv'
  <2>1. CASE Finish(c)
    BY <1>0, <1>2, <2>1 DEF GetFails
  <2>2. CASE Die(c)
    <3>1. TypeOK'
      BY <1>2, <2>2 DEF GetFails, Die, IInv, TypeOK
    <3>2. VersionNamesValue'
      BY <1>2, <2>2 DEF GetFails, Die, IInv, VersionNamesValue
    <3> QED BY <3>1, <3>2 DEF IInv
  <2> QED BY <1>2, <2>1, <2>2 DEF GetFails
<1>3. ASSUME NEW c \in Clients, Conflict(c) \/ ReturnUncommitted(c) PROVE IInv'
  BY <1>0, <1>3 DEF Conflict, ReturnUncommitted
<1>4. CASE UNCHANGED vars
  BY <1>4 DEF vars, IInv, TypeOK, VersionNamesValue
<1> QED BY <1>1, <1>2, <1>3, <1>4, ReadIInv, CommitIInv DEF Next, Client

----------------------------------------------------------------------------
(* Serializability.                                                        *)

LEMMA CommitIsAtomic ==
  ASSUME IInv, NEW c \in Clients, Commit(c)
  PROVE  task[c] \in Tasks /\ value' = Applied(task[c], value)
<1>1. task[c] \in Tasks /\ task[c].op # "GB"
  BY BusyTask DEF Commit, HasRead, Commits, IInv
<1>2. \A r \in ReadKeys(task[c]) : Seen(c)[r] = value[r]
  BY CurrentSeesStore DEF Commit
<1>3. /\ Commits(task[c], Seen(c)) = Commits(task[c], value)
      /\ WithPuts(value, task[c], Seen(c)) = WithPuts(value, task[c], value)
  BY <1>1, <1>2, OnlyReadKeysMatter
<1> QED BY <1>1, <1>3 DEF Commit, Applied

(* The abstract bank is built from the same transactions.                  *)
LEMMA SameTransactions ==
  Bank!Tasks = Tasks /\ \A t, b : Bank!Applied(t, b) = Applied(t, b)
<1>1. Bank!Tasks = Tasks
  BY DEF Bank!Tasks, Tasks
<1>2. \A t, b : Bank!Commits(t, b) = Commits(t, b)
  BY DEF Bank!Commits, Commits, Bank!checking, checking
<1>3. \A b, t, v : Bank!WithPuts(b, t, v) = WithPuts(b, t, v)
  BY DEF Bank!WithPuts, WithPuts, Bank!checking, checking, Bank!saving, saving
<1> QED BY <1>1, <1>2, <1>3 DEF Bank!Applied, Applied

LEMMA StepImplements == IInv /\ [Next]_vars => [Bank!Next]_value
<1> SUFFICES ASSUME IInv, [Next]_vars, value' # value
             PROVE  \E t \in Tasks : value' = Applied(t, value)
  BY SameTransactions DEF Bank!Next
<1>1. PICK c \in Clients : Commit(c)
  BY DEF Next, Client, vars, Begin, Read, GetFails, Conflict, ReturnUncommitted
<1> QED BY <1>1, CommitIsAtomic

(* Clients whose reads and commits interleave in any order leave the bank  *)
(* as some serial execution of whole transactions does.                    *)
THEOREM ClientsSerializable == Spec => Serializable
<1>1. Init => Bank!Init
  BY DEF Init, Bank!Init
<1> QED BY <1>1, InitIInv, StepIInv, StepImplements, PTL DEF Spec, Serializable, Bank!Spec

(* What a client read of its own accounts still covers its check when the  *)
(* commit is accepted.                                                     *)
LEMMA CommitIsCovered ==
  ASSUME IInv, NEW c \in Clients, task[c].op = "WC", Commit(c)
  PROVE  value[checking(task[c].acc1)] > task[c].balance
<1>1. checking(task[c].acc1) \in ReadKeys(task[c])
  BY DEF ReadKeys
<1>2. Seen(c)[checking(task[c].acc1)] = value[checking(task[c].acc1)]
  BY <1>1, CurrentSeesStore DEF Commit
<1>3. task[c].balance < Seen(c)[checking(task[c].acc1)]
  BY DEF Commit, Commits
<1>4. value[checking(task[c].acc1)] \in Int /\ task[c].balance \in Int
  <2>1. task[c] \in Tasks
    BY BusyTask DEF Commit, HasRead, IInv
  <2>2. task[c].acc1 \in Accounts /\ task[c].balance \in Amounts
    BY <2>1 DEF Tasks
  <2>3. Amounts \subseteq Int
    BY SmallBankAssumption
  <2> QED BY <2>2, <2>3 DEF IInv, TypeOK, Records, checking
<1> QED BY <1>2, <1>3, <1>4

(* No accepted commit of WriteCheck overdraws the checking account.        *)
THEOREM AcceptedChecksAreCovered == Spec => ChecksAreCovered
<1>1. ASSUME IInv
      PROVE  [\A c \in Clients :
                task[c].op = "WC" /\ Commit(c)
                  => value[checking(task[c].acc1)] > task[c].balance]_vars
  BY <1>1, CommitIsCovered
<1> QED BY <1>1, InitIInv, StepIInv, PTL DEF Spec, ChecksAreCovered
=============================================================================
