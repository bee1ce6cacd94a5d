--------------------------- MODULE MCTpccClients ---------------------------
(***************************************************************************)
(* An instance of TpccClients for TLC.  Stored: an order of one line that  *)
(* leaves exactly nothing of the loaded stock, one that names an item      *)
(* twice, and one with a line from another warehouse.  Interactive: tasks  *)
(* that meet in one district of one warehouse and in the stock of item 1.  *)
(***************************************************************************)
EXTENDS TpccClients, TLC

CONSTANTS d1, d2, c1, c2

Line(i, s_w, q) == [item |-> i, s_w |-> s_w, quantity |-> q]

Exact == <<Line(1, 1, 10)>>
Twice == <<Line(1, 1, 5), Line(1, 1, 10)>>
Remote == <<Line(2, 1, 5), Line(1, 2, 5)>>

MCLineLists == {Exact, Twice, Remote}

MCPrice == [i \in Items |-> i]

MCTasks ==
  {[op |-> "neworder", w |-> 1, d |-> d1, c |-> c1, lines |-> Exact],
   [op |-> "neworder", w |-> 1, d |-> d1, c |-> c2, lines |-> Remote],
   [op |-> "neworder", w |-> 1, d |-> d2, c |-> c1, lines |-> Twice],
   [op |-> "payment", w |-> 1, d |-> d1, c |-> c1],
   [op |-> "orderstatus", w |-> 1, d |-> d1, c |-> c1],
   [op |-> "delivery", w |-> 1],
   [op |-> "stocklevel", w |-> 1, d |-> d1]}

Symmetry == Permutations(Clients)
=============================================================================
