----------------------------- MODULE SmallBank -----------------------------
(***************************************************************************)
(* The transactions of workload/smallbank/smallbank.cc as functions of what*)
(* they read.  A task names an operation, two accounts drawn independently *)
(* (they may be the same) and an amount; every account has a savings and a *)
(* checking record.                                                        *)
(***************************************************************************)
EXTENDS Integers

CONSTANTS Accounts, Amounts, Ops

ASSUME SmallBankAssumption ==
  /\ Amounts \subseteq Nat \ {0}
  /\ Ops \subseteq {"AM", "GB", "UB", "US", "SP", "WC"}

Tasks == [op : Ops, acc1 : Accounts, acc2 : Accounts, balance : Amounts]

saving(a) == <<"saving", a>>
checking(a) == <<"checking", a>>

Records == {"saving", "checking"} \X Accounts

(* The keys of the batched Get each transaction begins with.               *)
ReadKeys(t) ==
  CASE t.op = "AM" -> {saving(t.acc1), checking(t.acc2)}
    [] t.op = "GB" -> {saving(t.acc1), checking(t.acc1)}
    [] t.op = "UB" -> {checking(t.acc1)}
    [] t.op = "US" -> {saving(t.acc1)}
    [] t.op = "SP" -> {checking(t.acc1), checking(t.acc2)}
    [] t.op = "WC" -> {checking(t.acc1)}

(* Whether the transaction gets to its Commit: GetBalance never does, and  *)
(* WriteCheck only if the checking account covers the check.               *)
Commits(t, v) ==
  /\ t.op # "GB"
  /\ t.op = "WC" => t.balance < v[checking(t.acc1)]

(* The records a transaction puts.                                         *)
PutKeys(t) ==
  CASE t.op = "AM" -> {checking(t.acc1), saving(t.acc2)}
    [] t.op = "GB" -> {}
    [] t.op = "UB" -> {checking(t.acc1)}
    [] t.op = "US" -> {saving(t.acc1)}
    [] t.op = "SP" -> {checking(t.acc1), checking(t.acc2)}
    [] t.op = "WC" -> {checking(t.acc1)}

(* A bank with the puts of a transaction that read the values v.  Of two   *)
(* puts of one record the later wins: a payment to oneself creates money.  *)
WithPuts(bank, t, v) ==
  CASE t.op = "AM" -> [bank EXCEPT ![checking(t.acc1)] = 0,
                                   ![saving(t.acc2)] = v[saving(t.acc1)] + v[checking(t.acc2)]]
    [] t.op = "UB" -> [bank EXCEPT ![checking(t.acc1)] = v[checking(t.acc1)] + t.balance]
    [] t.op = "US" -> [bank EXCEPT ![saving(t.acc1)] = v[saving(t.acc1)] + t.balance]
    [] t.op = "SP" -> [bank EXCEPT ![checking(t.acc1)] = v[checking(t.acc1)] - t.balance,
                                   ![checking(t.acc2)] = v[checking(t.acc2)] + t.balance]
    [] t.op = "WC" -> [bank EXCEPT ![checking(t.acc1)] = v[checking(t.acc1)] - t.balance]

(* The bank after a whole transaction.                                     *)
Applied(t, bank) == IF Commits(t, bank) THEN WithPuts(bank, t, bank) ELSE bank
=============================================================================
