-------------------------- MODULE MCSmallBankClients --------------------------
(***************************************************************************)
(* Instances of SmallBankClients for TLC.                                  *)
(***************************************************************************)
EXTENDS SmallBankClients

MCOpening == [r \in Records |-> IF r[1] = "saving" THEN 1 ELSE 2]

==================================================
