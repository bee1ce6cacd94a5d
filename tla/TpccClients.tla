---------------------------- MODULE TpccClients ----------------------------
(***************************************************************************)
(* The TPC-C workload (workload/tpcc/tpcc.cc) in either execution mode:    *)
(* "stored" posts every transaction to the endpoints of CcfTpcc, which are *)
(* atomic; "interactive" runs them in client processes, one transaction    *)
(* per process at a time, in batches of reads and one commit.              *)
(*                                                                         *)
(* The interactive store is the external one of SmallBankClients: the rows *)
(* of a batch are read one by one, Put only buffers, and Commit is accepted*)
(* iff every version read is still current.  Rows that no interactive      *)
(* transaction changes (names, taxes, prices, balances, next_d) count as   *)
(* read with the first batch.                                              *)
(*                                                                         *)
(* Bound: the clients begin at most MaxTxns transactions together.         *)
(***************************************************************************)
EXTENDS CcfTpcc

CONSTANTS Clients, Tasks, MaxTxns

TaskSet ==
  [op : {"neworder"}, w : Warehouses, d : Districts, c : Customers, lines : LineLists]
    \cup [op : {"payment", "orderstatus"}, w : Warehouses, d : Districts, c : Customers]
    \cup [op : {"delivery"}, w : Warehouses]
    \cup [op : {"stocklevel"}, w : Warehouses, d : Districts]

ASSUME ClientsAssumption ==
  /\ Tasks \subseteq TaskSet
  /\ MaxTxns \in Nat

VARIABLES
  mode,     \* main.cc's -i or -p
  task,     \* the task each client executes, NoTask or Dead
  phase,    \* the batch its transaction is reading
  reads,    \* what it has read: row -> value and version
  version,  \* how often a row was put, for rows that were
  told,     \* of a customer: how many interactive payments reported success
  begun     \* interactive transactions so far

clients == <<task, phase, reads>>
clientVars == <<mode, task, phase, reads, version, told, begun>>

NoTask == [op |-> "none"]
Dead == [op |-> "dead"]   \* the transaction thread has thrown or crashed

ClientsInit ==
  /\ Init
  /\ mode \in {"interactive", "stored"}
  /\ task = [a \in Clients |-> NoTask]
  /\ phase = [a \in Clients |-> 1]
  /\ reads = [a \in Clients |-> Empty]
  /\ version = Empty
  /\ told = [r \in CDW |-> 0]
  /\ begun = 0

----------------------------------------------------------------------------
(* Rows.                                                                   *)

Row(table, key) == [table |-> table, key |-> key]

Absent == [absent |-> TRUE]

InTable(table, key) == IF key \in DOMAIN table THEN table[key] ELSE Absent

RowValue(row) ==
  CASE row.table = "next_o" -> next_o[row.key]
    [] row.table = "stock" -> stock[row.key]
    [] row.table = "lastOrder" -> lastOrder[row.key]
    [] row.table = "orders" -> InTable(orders, row.key)
    [] row.table = "orderLines" -> InTable(orderLines, row.key)

Version(row) == IF row \in DOMAIN version THEN version[row] ELSE 0

(* The rows a new order puts.                                              *)
PutRows(t, o) ==
  {Row("next_o", <<t.d, t.w>>), Row("lastOrder", <<t.c, t.d, t.w>>),
   Row("orders", <<o, t.d, t.w>>)}
    \cup {Row("stock", StockKey(t.lines[n])) : n \in DOMAIN t.lines}
    \cup {Row("orderLines", <<o, t.d, t.w, n>>) : n \in DOMAIN t.lines}

----------------------------------------------------------------------------
(* The batches of reads.  Each is computed from what the earlier ones have *)
(* returned.                                                               *)

(* Client a's view of the rows it read.                                    *)
Seen(a) == [row \in DOMAIN reads[a] |-> reads[a][row].value]

LineRows(orderRows, seen) ==
  UNION {{Row("orderLines", LineKey(row.key, n)) : n \in 1 .. seen[row].cnt} : row \in orderRows}

NewOrderBatch(t) ==
  {Row("next_o", <<t.d, t.w>>)} \cup {Row("stock", StockKey(t.lines[n])) : n \in DOMAIN t.lines}

OrderStatusBatch(t, n, seen) ==
  LET last == Row("lastOrder", <<t.c, t.d, t.w>>)
      order == Row("orders", <<seen[last], t.d, t.w>>)
  IN  CASE n = 1 -> {last}
        [] n = 2 -> {order}
        [] n = 3 -> LineRows({order}, seen)

Due_AtEqual(t, seen) ==
  {d \in Districts : next_d[<<d, t.w>>] <= seen[Row("next_o", <<d, t.w>>)]}

(* The districts with an order left, as a delivery has read them.          *)
Due(t, seen) ==
  {d \in Districts : next_d[<<d, t.w>>] < seen[Row("next_o", <<d, t.w>>)]}

(* next_d is never put, so this is always the first order of a district.   *)
DeliveryBatch(t, n, seen) ==
  LET oldest == {Row("orders", <<next_d[<<d, t.w>>], d, t.w>>) : d \in Due(t, seen)}
  IN  CASE n = 1 -> {Row("next_o", <<d, t.w>>) : d \in Districts}
        [] n = 2 -> oldest
        [] n = 3 -> LineRows(oldest, seen)

StockLevelBatch(t, n, seen) ==
  LET next == Row("next_o", <<t.d, t.w>>)
      recent == {Row("orders", <<o, t.d, t.w>>) : o \in seen[next] - Window .. seen[next] - 1}
      items == {seen[row].item : row \in {l \in LineRows(recent, seen) : seen[l].s_w = t.w}}
  IN  CASE n = 1 -> {next}
        [] n = 2 -> recent
        [] n = 3 -> LineRows(recent, seen)
        [] n = 4 -> {Row("stock", <<i, t.w>>) : i \in items}

Batch(t, n, seen) ==
  CASE t.op = "neworder" -> NewOrderBatch(t)
    [] t.op = "payment" -> {}
    [] t.op = "orderstatus" -> OrderStatusBatch(t, n, seen)
    [] t.op = "delivery" -> DeliveryBatch(t, n, seen)
    [] t.op = "stocklevel" -> StockLevelBatch(t, n, seen)

Batches(t) ==
  CASE t.op \in {"neworder", "payment"} -> 1
    [] t.op \in {"orderstatus", "delivery"} -> 3
    [] t.op = "stocklevel" -> 4

(* What an operation tests between two batches.                            *)
ReturnsEarly(t, seen) ==
  \/ /\ t.op = "orderstatus"
     /\ \E row \in DOMAIN seen : row.table = "lastOrder" /\ seen[row] = 0
  \/ /\ t.op = "stocklevel"
     /\ \E row \in DOMAIN seen : row.table \in {"orders", "orderLines"} /\ seen[row] = Absent

----------------------------------------------------------------------------
(* The clients.                                                            *)

Busy(a) == task[a] \notin {NoTask, Dead}

BatchRead(a) == Busy(a) /\ Batch(task[a], phase[a], Seen(a)) \subseteq DOMAIN reads[a]

(* The last batch has been read.                                           *)
HasRead(a) == BatchRead(a) /\ phase[a] = Batches(task[a])

Current_NotChecked(a) == TRUE

Current(a) == \A row \in DOMAIN reads[a] : reads[a][row].version = Version(row)

Begin(a) ==
  /\ task[a] = NoTask
  /\ begun < MaxTxns
  /\ \E t \in Tasks : task' = [task EXCEPT ![a] = t]
  /\ begun' = begun + 1
  /\ UNCHANGED <<tables, committed, mode, phase, reads, version, told>>

Read(a) ==
  /\ Busy(a)
  /\ \E row \in Batch(task[a], phase[a], Seen(a)) \ DOMAIN reads[a] :
       reads' = [reads EXCEPT ![a] =
                   With(@, [r \in {row} |-> [value |-> RowValue(r), version |-> Version(r)]])]
  /\ UNCHANGED <<tables, committed, mode, task, phase, version, told, begun>>

NextBatch(a) ==
  /\ BatchRead(a)
  /\ phase[a] < Batches(task[a])
  /\ ~ReturnsEarly(task[a], Seen(a))
  /\ phase' = [phase EXCEPT ![a] = @ + 1]
  /\ UNCHANGED <<tables, committed, mode, task, reads, version, told, begun>>

Finish(a) ==
  /\ task' = [task EXCEPT ![a] = NoTask]
  /\ phase' = [phase EXCEPT ![a] = 1]
  /\ reads' = [reads EXCEPT ![a] = Empty]
  /\ UNCHANGED <<committed, mode, begun>>

EarlyReturn(a) ==
  /\ BatchRead(a)
  /\ ReturnsEarly(task[a], Seen(a))
  /\ Finish(a)
  /\ UNCHANGED <<tables, version, told>>

(* A batch fails or lacks values: the status is ignored, and the fields of *)
(* an empty row are converted (stod and stol throw) or are not there.  Only*)
(* where an operation tests for the empty row, or does not use it, does it *)
(* return.                                                                 *)
GetFails(a) ==
  /\ Busy(a)
  /\ IF \/ task[a].op = "orderstatus" /\ phase[a] # 2
        \/ task[a].op = "stocklevel" /\ phase[a] > 1
       THEN Finish(a)
       ELSE /\ task' = [task EXCEPT ![a] = Dead]
            /\ UNCHANGED <<phase, reads, committed, mode, begun>>
  /\ UNCHANGED <<tables, version, told>>

CommitNewOrder(a) ==
  LET t == task[a]
      o == Seen(a)[Row("next_o", <<t.d, t.w>>)]
      quantities == [k \in {StockKey(t.lines[n]) : n \in DOMAIN t.lines} |->
                       Seen(a)[Row("stock", k)]]
  IN  /\ t.op = "neworder"
      /\ HasRead(a)
      /\ Current(a)
      /\ PutOrder(t.w, t.d, t.c, t.lines, o, quantities)
      /\ version' = With(version, [row \in PutRows(t, o) |-> Version(row) + 1])
      /\ Finish(a)
      /\ UNCHANGED told

(* The changed rows stay in putkeys and putvals: nothing is put.           *)
CommitPayment(a) ==
  LET t == task[a]
  IN  /\ t.op = "payment"
      /\ HasRead(a)
      /\ told' = [told EXCEPT ![<<t.c, t.d, t.w>>] = @ + 1]
      /\ Finish(a)
      /\ UNCHANGED <<tables, version>>

(* Nor here.                                                               *)
CommitDelivery(a) ==
  /\ task[a].op = "delivery"
  /\ HasRead(a)
  /\ Current(a)
  /\ Finish(a)
  /\ UNCHANGED <<tables, version, told>>

(* The store refuses the commit; the workload reports status 1 and goes on.*)
Conflict(a) ==
  /\ task[a].op \in {"neworder", "delivery"}
  /\ HasRead(a)
  /\ ~Current(a)
  /\ Finish(a)
  /\ UNCHANGED <<tables, version, told>>

(* OrderStatus and StockLevel return without a Commit or an Abort.         *)
ReturnUncommitted(a) ==
  /\ task[a].op \in {"orderstatus", "stocklevel"}
  /\ HasRead(a)
  /\ ~ReturnsEarly(task[a], Seen(a))
  /\ Finish(a)
  /\ UNCHANGED <<tables, version, told>>

Client(a) ==
  \/ Begin(a)
  \/ Read(a)
  \/ NextBatch(a)
  \/ EarlyReturn(a)
  \/ GetFails(a)
  \/ CommitNewOrder(a)
  \/ CommitPayment(a)
  \/ CommitDelivery(a)
  \/ Conflict(a)
  \/ ReturnUncommitted(a)

ClientsNext ==
  \/ mode = "interactive" /\ \E a \in Clients : Client(a)
  \/ mode = "stored" /\ Next /\ UNCHANGED clientVars

ClientsSpec == ClientsInit /\ [][ClientsNext]_<<vars, clientVars>>

----------------------------------------------------------------------------
(* Properties.                                                             *)

Rows ==
  {Row("next_o", k) : k \in DW} \cup {Row("stock", k) : k \in Items \X Warehouses}
    \cup {Row("lastOrder", k) : k \in CDW}
    \cup [table : {"orders"}, key : Int \X Districts \X Warehouses]
    \cup [table : {"orderLines"}, key : Int \X Districts \X Warehouses \X Nat]

(* The tables keep their types (a stock quantity stays between 1 and 100,  *)
(* tpcc.cc:194, app.cpp:280) and a client between two transactions holds   *)
(* no read set.                                                           *)
ClientsTypeOK ==
  /\ TypeOK
  /\ mode \in {"interactive", "stored"}
  /\ task \in [Clients -> Tasks \cup {NoTask, Dead}]
  /\ phase \in [Clients -> 1..4]
  /\ \A a \in Clients :
       /\ DOMAIN reads[a] \subseteq Rows
       /\ \A row \in DOMAIN reads[a] : reads[a][row].version \in Nat
       /\ task[a] = NoTask => reads[a] = Empty /\ phase[a] = 1
  /\ DOMAIN version \subseteq Rows
  /\ \A row \in DOMAIN version : version[row] \in Nat
  /\ told \in [CDW -> Nat]
  /\ begun \in 0..MaxTxns

(* However the reads and commits of the clients interleave, what they put  *)
(* is what an atomic NewOrder at the moment of the commit would put: no    *)
(* order number is given twice and no stock update is lost.                *)
OrdersAreAtomic ==
  [][mode = "interactive" =>
       \E w \in Warehouses, d \in Districts, c \in Customers, lines \in LineLists :
         NewOrder(w, d, c, lines)]_tables

(* A transaction that follows the numbers it has read from batch to batch, *)
(* while other clients commit, finds every row it asks for (OrderStatus and*)
(* Delivery would index into an empty one); only StockLevel in a district  *)
(* with fewer orders than it looks at asks for orders that never were.     *)
ReadersMeetNoGap ==
  \A a \in Clients : \A row \in DOMAIN reads[a] :
    row.table \in {"orders", "orderLines"} /\ reads[a][row].value = Absent =>
      /\ task[a].op = "stocklevel"
      /\ reads[a][Row("next_o", <<task[a].d, task[a].w>>)].value <= Window

(* A payment that was reported as committed is in the customer's record.   *)
CommittedPaymentsCount ==
  \A r \in CDW : customer[r].payments = Len(committed[r]) + told[r]
=============================================================================
