---------------------------- MODULE AtomicBank ----------------------------
(***************************************************************************)
(* What a database under SmallBank promises: transactions take effect one  *)
(* at a time, each as if it ran alone, or not at all.                      *)
(***************************************************************************)
EXTENDS SmallBank

CONSTANT Opening   \* the balances loaded before the run

VARIABLE bank

Init == bank = Opening

Next == \E t \in Tasks : bank' = Applied(t, bank)

Spec == Init /\ [][Next]_bank
=============================================================================
