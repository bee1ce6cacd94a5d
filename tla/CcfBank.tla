------------------------------ MODULE CcfBank ------------------------------
(***************************************************************************)
(* SmallBank as stored procedures: the sb_* endpoints of the CCF           *)
(* application (dbadapter/ccf/conf/cpp/app/app.cpp), one atomic CCF        *)
(* transaction per request.                                                *)
(*                                                                         *)
(* A record holds the decimal text of a number.  Most endpoints read it    *)
(* with stoul into an unsigned int and write the sum or difference of      *)
(* unsigned ints, so a balance below zero comes back as a large number;    *)
(* sb_writecheck reads it with stoi, which throws for such a number.  An   *)
(* endpoint that throws leaves no write, and the client cannot tell: it    *)
(* returns the status of curl, which has delivered the error page.         *)
(*                                                                         *)
(* initsb loads the accounts 0..99999 while SmallBank::NextTask draws from *)
(* 1..100000: the accounts that are not Loaded have no record.             *)
(*                                                                         *)
(* An int reaches from -IntMax - 1 to IntMax (2^31 - 1 in the code), an    *)
(* unsigned int holds as many numbers.                                     *)
(* Bound: MaxPosts requests.                                               *)
(***************************************************************************)
EXTENDS SmallBank

CONSTANTS Missing, IntMax, Loaded, OpeningSaving, OpeningChecking, MaxPosts

ASSUME CcfBankAssumption ==
  /\ Missing \notin Int
  /\ IntMax \in Nat
  /\ Loaded \subseteq Accounts
  /\ OpeningSaving \in 0..IntMax
  /\ OpeningChecking \in 0..IntMax
  /\ MaxPosts \in Nat

VARIABLES
  records,    \* the RECORDS table: the number a record's text denotes, or Missing
  http,       \* the outcome of the last request: none, ok or error
  curl,       \* what StoredProcedure returned for it
  ideal,      \* history: the balances, had every number been exact
  overdrawn,  \* history: some balance has left 0 .. the largest int
  posts

vars == <<records, http, curl, ideal, overdrawn, posts>>

Modulus == 2 * (IntMax + 1)
IntMin == -IntMax - 1

LoadedRecords == {r \in Records : r[2] \in Loaded}

(* initsb                                                                  *)
Balances ==
  [r \in LoadedRecords |-> IF r[1] = "saving" THEN OpeningSaving ELSE OpeningChecking]

Init ==
  /\ records = [r \in Records |-> IF r \in LoadedRecords THEN Balances[r] ELSE Missing]
  /\ http = "none"
  /\ curl = 0
  /\ ideal = Balances
  /\ overdrawn = FALSE
  /\ posts = 0

----------------------------------------------------------------------------
(* Conversions.                                                            *)

Unsigned(n) == n % Modulus
AsInt(n) == ((n - IntMin) % Modulus) + IntMin

Stoul_Saturates(r) == IF records[r] < 0 THEN 0 ELSE records[r]

(* stoul accepts a minus sign and wraps; an empty text throws.             *)
StoulThrows(r) == records[r] = Missing
Stoul(r) == Unsigned(records[r])

StoiThrows_OffByOne(r) == records[r] = Missing \/ records[r] >= IntMax

(* stoi throws for an empty text and for a number that is no int.          *)
StoiThrows(r) == records[r] = Missing \/ records[r] \notin IntMin..IntMax

----------------------------------------------------------------------------
(* The endpoints.                                                          *)

(* The records an endpoint reads, hence may throw for.                     *)
Reads(t) ==
  CASE t.op = "AM" -> {saving(t.acc1), checking(t.acc2)}
    [] t.op = "GB" -> {saving(t.acc1), checking(t.acc1)}
    [] t.op = "UB" -> {checking(t.acc1)}
    [] t.op = "US" -> {checking(t.acc1)}
    [] t.op = "SP" -> {checking(t.acc1), checking(t.acc2)}
    [] t.op = "WC" -> {saving(t.acc1), checking(t.acc1)}

Throws(t) ==
  \E r \in Reads(t) : IF t.op = "WC" THEN StoiThrows(r) ELSE StoulThrows(r)

(* What sb_writecheck takes from the account: a fee of one if the funds of *)
(* both accounts cover the check.  The sum of two ints may overflow.       *)
Taken(t) ==
  LET sum == records[checking(t.acc1)] + records[saving(t.acc1)]
  IN  {IF t.balance < s THEN t.balance + 1 ELSE t.balance : s \in {sum, AsInt(sum)}}

StoredPuts_PayerLast(t, v, taken) ==
  CASE t.op = "AM" -> [v EXCEPT ![checking(t.acc1)] = 0,
                                ![saving(t.acc2)] = v[saving(t.acc1)] + v[checking(t.acc2)]]
    [] t.op = "GB" -> v
    [] t.op \in {"UB", "US"} -> [v EXCEPT ![checking(t.acc1)] = @ + t.balance]
    [] t.op = "SP" -> [v EXCEPT ![checking(t.acc2)] = v[checking(t.acc2)] + t.balance,
                                ![checking(t.acc1)] = v[checking(t.acc1)] - t.balance]
    [] t.op = "WC" -> [v EXCEPT ![checking(t.acc1)] = @ - taken]

(* The balances v after an endpoint that does not throw, were they exact;  *)
(* taken is the amount sb_writecheck decided on.  The payee of a payment is*)
(* put last.                                                               *)
StoredPuts(t, v, taken) ==
  CASE t.op = "AM" -> [v EXCEPT ![checking(t.acc1)] = 0,
                                ![saving(t.acc2)] = v[saving(t.acc1)] + v[checking(t.acc2)]]
    [] t.op = "GB" -> v
    [] t.op = "UB" -> [v EXCEPT ![checking(t.acc1)] = @ + t.balance]
    [] t.op = "US" -> [v EXCEPT ![checking(t.acc1)] = @ + t.balance]
    [] t.op = "SP" -> [v EXCEPT ![checking(t.acc1)] = v[checking(t.acc1)] - t.balance,
                                ![checking(t.acc2)] = v[checking(t.acc2)] + t.balance]
    [] t.op = "WC" -> [v EXCEPT ![checking(t.acc1)] = @ - taken]

(* The records it puts: those of the interactive transaction, except that  *)
(* sb_updatesaving, like sb_updatebalance, puts the checking account.      *)
StoredKeys(t) == IF t.op = "US" THEN {checking(t.acc1)} ELSE PutKeys(t)

Written_NoWord(t, n) == n

Written_Short(t, n) == n % (Modulus \div 4)

(* The text an endpoint writes: sb_writecheck that of an int, the others   *)
(* that of an unsigned int.                                                *)
Written(t, n) == IF t.op = "WC" THEN AsInt(n) ELSE Unsigned(n)

(* The numbers an endpoint gets from the records.                          *)
Converted(t) == [r \in LoadedRecords |-> IF t.op = "WC" THEN records[r] ELSE Stoul(r)]

(* The records after an endpoint has run.                                  *)
Recorded(t, taken) ==
  LET new == StoredPuts(t, Converted(t), taken)
  IN  [r \in Records |-> IF r \in StoredKeys(t) THEN Written(t, new[r]) ELSE records[r]]

Succeeds(t, taken) ==
  LET ideal2 == StoredPuts(t, ideal, taken)
  IN  /\ records' = Recorded(t, taken)
      /\ ideal' = ideal2
      /\ overdrawn' = (overdrawn \/ \E r \in LoadedRecords : ideal2[r] \notin 0..IntMax)
      /\ http' = "ok"

(* What the request takes, if it is a check.                               *)
Takes(t) == IF t.op = "WC" THEN Taken(t) ELSE {0}

Post(t) ==
  /\ posts < MaxPosts
  /\ posts' = posts + 1
  /\ curl' = 0
  /\ IF Throws(t)
       THEN http' = "error" /\ UNCHANGED <<records, ideal, overdrawn>>
       ELSE \E taken \in Takes(t) : Succeeds(t, taken)

(* No answer at all: the request may have been executed or not.            *)
PostFails(t) ==
  /\ posts < MaxPosts
  /\ posts' = posts + 1
  /\ curl' = 1
  /\ \/ http' = "none" /\ UNCHANGED <<records, ideal, overdrawn>>
     \/ ~Throws(t) /\ \E taken \in Takes(t) : Succeeds(t, taken)

Next == \E t \in Tasks : Post(t) \/ PostFails(t)

Spec == Init /\ [][Next]_vars

----------------------------------------------------------------------------
(* Properties.                                                             *)

TypeOK ==
  /\ records \in [Records -> (IntMin..Modulus - 1) \cup {Missing}]
  /\ \A r \in Records : records[r] = Missing <=> r \notin LoadedRecords
  /\ http \in {"none", "ok", "error"}
  /\ curl \in {0, 1}
  /\ ideal \in [LoadedRecords -> Int]
  /\ overdrawn \in BOOLEAN
  /\ posts \in 0..MaxPosts

(* Unsigned and signed endpoints rewrite each other's texts, but a record  *)
(* always stands for the exact balance modulo the width of an int.         *)
CongruentToIdeal ==
  \A r \in LoadedRecords : (records[r] - ideal[r]) % Modulus = 0

(* Until some balance has left the range of an int or dropped below zero,  *)
(* every record is the exact balance.                                      *)
ExactUntilOverdrawn == ~overdrawn => \A r \in LoadedRecords : records[r] = ideal[r]

(* A request for loaded accounts is answered with an error only if it is a *)
(* sb_writecheck and some balance was overdrawn before.                    *)
ThrowsOnlyWhenOverdrawn ==
  \A t \in Tasks :
    ({t.acc1, t.acc2} \subseteq Loaded /\ Throws(t)) => t.op = "WC" /\ overdrawn

(* As long as no balance is overdrawn, Amalgamate, GetBalance,             *)
(* UpdateBalance and SendPayment change the records as stored procedures   *)
(* exactly as the interactive transactions of the same name do, a payment  *)
(* to oneself included.                                                    *)
FourAgree ==
  \A t \in Tasks :
    LET bank2 == Applied(t, records)
    IN  t.op \in {"AM", "GB", "UB", "SP"} /\ ~Throws(t) /\ ~overdrawn
        /\ (\A r \in LoadedRecords : bank2[r] \in 0..IntMax)
          => Recorded(t, 0) = bank2

(* Every stored procedure changes the bank as the interactive transaction  *)
(* of the same name does.                                                  *)
Bank == INSTANCE AtomicBank WITH
          bank <- [r \in Records |-> AsInt(records[r])], Opening <- Balances

SameAsInteractive == Bank!Spec
=============================================================================
