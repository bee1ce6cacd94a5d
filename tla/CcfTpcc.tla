------------------------------ MODULE CcfTpcc ------------------------------
(***************************************************************************)
(* TPC-C as stored procedures: the tpcc* endpoints of the CCF application  *)
(* (dbadapter/ccf/conf/cpp/app/app.cpp), one atomic CCF transaction per    *)
(* request.  TpccClients adds the interactive transactions of the same     *)
(* names (workload/tpcc/tpcc.cc).                                          *)
(*                                                                         *)
(* The code keeps every row as comma separated text under a composed key;  *)
(* here each kind of row is a table, with the columns that change.  Money  *)
(* counts from the loaded values.  Taxes and discounts never change: they  *)
(* are factors left out of an order line's amount.  The loaded data is not *)
(* in the repository; Delivery starts at order 1 of each district, so the  *)
(* model starts before that order is entered.                              *)
(*                                                                         *)
(* Bounds: MaxPosts new orders and payments together, within the           *)
(* milliseconds 0..MaxTime of the system clock, which may stand still and  *)
(* be set back.                                                            *)
(***************************************************************************)
EXTENDS Integers, Sequences, FiniteSetsExt

CONSTANTS
  Warehouses, Districts, Customers, Items,
  LineLists,      \* the item lists a new order can have
  Payments,       \* the amounts a payment can have
  Carriers,
  Price,          \* of each item
  LoadedStock,    \* of each item in each warehouse
  Window,         \* how many orders StockLevel looks at, 20 in the code
  MaxPosts, MaxTime

NoCarrier == "none"

Lines == [item : Items, s_w : Warehouses, quantity : 5..14]

ASSUME TpccAssumption ==
  /\ IsFiniteSet(Districts) /\ IsFiniteSet(Customers)
  /\ LineLists \subseteq Seq(Lines)
  /\ Payments \subseteq Nat
  /\ NoCarrier \notin Carriers
  /\ Price \in [Items -> Nat]
  /\ LoadedStock \in 1..100
  /\ Window \in Nat \ {0}
  /\ MaxPosts \in Nat
  /\ MaxTime \in Nat

DW == Districts \X Warehouses
CDW == Customers \X Districts \X Warehouses

VARIABLES
  next_o,      \* d_tax_<d>_<w>: the next order number of a district
  next_d,      \* next_d_id_<d>_<w>: the next order to deliver, 1 if no row
  stock,       \* s_<i>_<w>: the quantity
  orders,      \* o_<o>_<d>_<w>
  orderLines,  \* ol_<o>_<d>_<w>_<n>
  lastOrder,   \* c_last_order_<c>_<d>_<w>, 0 if there is no row
  w_ytd,       \* w_<w>
  d_ytd,       \* d_<d>_<w>
  customer,    \* c_<c>_<d>_<w>
  history,     \* h_<c>_<d>_<w>_<time>
  committed    \* of a customer: the payments reported as committed, in order

tables == <<next_o, next_d, stock, orders, orderLines, lastOrder,
            w_ytd, d_ytd, customer, history>>
vars == <<tables, committed>>

Empty == [k \in {} |-> 0]

(* A table with the rows of puts added or replaced.                        *)
With(table, puts) ==
  [k \in DOMAIN table \cup DOMAIN puts |-> IF k \in DOMAIN puts THEN puts[k] ELSE table[k]]

Init ==
  /\ next_o = [k \in DW |-> 1]
  /\ next_d = [k \in DW |-> 1]
  /\ stock = [k \in Items \X Warehouses |-> LoadedStock]
  /\ orders = Empty
  /\ orderLines = Empty
  /\ lastOrder = [k \in CDW |-> 0]
  /\ w_ytd = [w \in Warehouses |-> 0]
  /\ d_ytd = [k \in DW |-> 0]
  /\ customer = [k \in CDW |-> [balance |-> 0, ytd |-> 0, payments |-> 0, deliveries |-> 0]]
  /\ history = Empty
  /\ committed = [k \in CDW |-> <<>>]

(* New orders and payments so far.                                         *)
Posts == Cardinality(DOMAIN orders) + MapThenSumSet(LAMBDA r : Len(committed[r]), CDW)

----------------------------------------------------------------------------
(* NewOrder.                                                               *)

Amount(line) == line.quantity * Price[line.item]

Refilled_AtEqual(s, q) == IF s >= q THEN s - q ELSE s - q + 100

(* The stock after an order line.                                          *)
Refilled(s, q) == IF s > q THEN s - q ELSE s - q + 100

StockKey(line) == <<line.item, line.s_w>>

StockPuts_FirstWins(lines, read) ==
  [k \in {StockKey(lines[n]) : n \in DOMAIN lines} |->
     Refilled(read[k], lines[Min({n \in DOMAIN lines : StockKey(lines[n]) = k})].quantity)]

(* Every line computes with the quantity that was read; if two name the    *)
(* same item of the same warehouse, the put of the later one stays.        *)
StockPuts(lines, read) ==
  [k \in {StockKey(lines[n]) : n \in DOMAIN lines} |->
     Refilled(read[k], lines[Max({n \in DOMAIN lines : StockKey(lines[n]) = k})].quantity)]

LinePuts_FromZero(o, d, w, lines) ==
  [k \in {<<o, d, w, n - 1>> : n \in DOMAIN lines} |->
     [item |-> lines[k[4] + 1].item, s_w |-> lines[k[4] + 1].s_w,
      quantity |-> lines[k[4] + 1].quantity, amount |-> Amount(lines[k[4] + 1]),
      delivered |-> FALSE]]

LinePuts(o, d, w, lines) ==
  [k \in {<<o, d, w, n>> : n \in DOMAIN lines} |->
     [item |-> lines[k[4]].item, s_w |-> lines[k[4]].s_w,
      quantity |-> lines[k[4]].quantity, amount |-> Amount(lines[k[4]]),
      delivered |-> FALSE]]

LastOrder_KeptIfAny(o, k) == IF lastOrder[k] = 0 THEN o ELSE lastOrder[k]

LastOrder(o, k) == o

(* The puts of a new order that has read the order number o and the        *)
(* quantities read.                                                        *)
PutOrder(w, d, c, lines, o, read) ==
  /\ stock' = With(stock, StockPuts(lines, read))
  /\ orders' = With(orders, [k \in {<<o, d, w>>} |->
                 [c |-> c, cnt |-> Len(lines), carrier |-> NoCarrier]])
  /\ orderLines' = With(orderLines, LinePuts(o, d, w, lines))
  /\ lastOrder' = [lastOrder EXCEPT ![<<c, d, w>>] = LastOrder(o, <<c, d, w>>)]
  /\ next_o' = [next_o EXCEPT ![<<d, w>>] = o + 1]
  /\ UNCHANGED <<next_d, w_ytd, d_ytd, customer, history>>

NewOrder(w, d, c, lines) ==
  /\ PutOrder(w, d, c, lines, next_o[<<d, w>>], stock)
  /\ UNCHANGED committed

----------------------------------------------------------------------------
(* Payment.  Two payments of a customer in one millisecond share a row of  *)
(* the history.                                                            *)

Paid_NotFromBalance(row, amount) ==
  [row EXCEPT !.balance = @ + amount, !.ytd = @ + amount, !.payments = @ + 1]

Paid(row, amount) ==
  [row EXCEPT !.balance = @ - amount, !.ytd = @ + amount, !.payments = @ + 1]

HistoryKey_OneRow(w, d, c, time) == <<c, d, w, 0>>

HistoryKey(w, d, c, time) == <<c, d, w, time>>

Payment(w, d, c, amount, time) ==
  /\ w_ytd' = [w_ytd EXCEPT ![w] = @ + amount]
  /\ d_ytd' = [d_ytd EXCEPT ![<<d, w>>] = @ + amount]
  /\ customer' = [customer EXCEPT ![<<c, d, w>>] = Paid(@, amount)]
  /\ history' = With(history, [k \in {HistoryKey(w, d, c, time)} |-> amount])
  /\ committed' = [committed EXCEPT ![<<c, d, w>>] = Append(@, [amount |-> amount, time |-> time])]
  /\ UNCHANGED <<next_o, next_d, stock, orders, orderLines, lastOrder>>

----------------------------------------------------------------------------
(* Delivery: the oldest order of every district that has one left.         *)

Pending(w) == {d \in Districts : next_d[<<d, w>>] < next_o[<<d, w>>]}

Oldest(w) == {<<next_d[<<d, w>>], d, w>> : d \in Pending(w)}

LineKey(k, n) == <<k[1], k[2], k[3], n>>

LineKeys(k) == {LineKey(k, n) : n \in 1..orders[k].cnt}

Total(k) == SumFunction([l \in LineKeys(k) |-> orderLines[l].amount])

Marked_CarrierOnly(row) == row

(* An order line with its delivery date.                                   *)
Marked(row) == [row EXCEPT !.delivered = TRUE]

Delivery(w, carrier) ==
  /\ next_d' = [k \in DW |-> IF k[2] = w /\ k[1] \in Pending(w) THEN next_d[k] + 1 ELSE next_d[k]]
  /\ orders' = With(orders, [k \in Oldest(w) |-> [orders[k] EXCEPT !.carrier = carrier]])
  /\ orderLines' = With(orderLines,
                     [l \in UNION {LineKeys(k) : k \in Oldest(w)} |-> Marked(orderLines[l])])
  /\ customer' = With(customer,
                   [r \in {<<orders[k].c, k[2], w>> : k \in Oldest(w)} |->
                      [customer[r] EXCEPT !.balance = @ + Total(<<next_d[<<r[2], w>>], r[2], w>>),
                                          !.deliveries = @ + 1]])
  /\ UNCHANGED <<next_o, stock, lastOrder, w_ytd, d_ytd, history, committed>>

----------------------------------------------------------------------------
(* OrderStatus and StockLevel put nothing; what can go wrong is a row that *)
(* is not there.  A missing order or, in StockLevel, a missing line ends   *)
(* the endpoint with an error; OrderStatus takes a missing line for an     *)
(* empty one and succeeds.                                                 *)

OrderStatusMisses(w, d, c) ==
  LET k == <<lastOrder[<<c, d, w>>], d, w>>
  IN  k \notin DOMAIN orders \/ ~(LineKeys(k) \subseteq DOMAIN orderLines)

StockLevelMisses(w, d) ==
  \E o \in next_o[<<d, w>>] - Window .. next_o[<<d, w>>] - 1 :
    <<o, d, w>> \notin DOMAIN orders \/ ~(LineKeys(<<o, d, w>>) \subseteq DOMAIN orderLines)

----------------------------------------------------------------------------
(* A request that fails was executed or it was not: this step or none.     *)
Post(w) ==
  \/ /\ Posts < MaxPosts
     /\ \E d \in Districts, c \in Customers, lines \in LineLists : NewOrder(w, d, c, lines)
  \/ /\ Posts < MaxPosts
     /\ \E d \in Districts, c \in Customers, amount \in Payments, time \in 0..MaxTime :
          Payment(w, d, c, amount, time)
  \/ \E carrier \in Carriers : Delivery(w, carrier)

Next == \E w \in Warehouses : Post(w)

Spec == Init /\ [][Next]_vars

----------------------------------------------------------------------------
(* Properties.                                                             *)

Orders == [c : Customers, cnt : Nat, carrier : Carriers \cup {NoCarrier}]

OrderLines == [item : Items, s_w : Warehouses, quantity : 5..14, amount : Nat, delivered : BOOLEAN]

CustomerRows == [balance : Int, ytd : Nat, payments : Nat, deliveries : Nat]

TypeOK ==
  /\ next_o \in [DW -> Nat \ {0}]
  /\ next_d \in [DW -> Nat \ {0}]
  /\ stock \in [Items \X Warehouses -> 1..100]
  /\ \A k \in DOMAIN orders : orders[k] \in Orders
  /\ \A l \in DOMAIN orderLines : orderLines[l] \in OrderLines
  /\ lastOrder \in [CDW -> Nat]
  /\ w_ytd \in [Warehouses -> Nat]
  /\ d_ytd \in [DW -> Nat]
  /\ customer \in [CDW -> CustomerRows]
  /\ \A k \in DOMAIN history : history[k] \in Nat
  /\ committed \in [CDW -> Seq([amount : Payments, time : 0..MaxTime])]

(* The orders of a district are numbered without a gap up to its next      *)
(* number, and each has exactly the lines 1 to its count, so that no reader*)
(* of a district row, an order row or a last order meets a missing row.    *)
OrdersAreDense ==
  /\ DOMAIN orders = UNION {{<<o, k[1], k[2]>> : o \in 1 .. next_o[k] - 1} : k \in DW}
  /\ DOMAIN orderLines = UNION {LineKeys(k) : k \in DOMAIN orders}

(* Orders of a district are delivered in the order they were entered: a    *)
(* carrier and the delivery dates of all lines appear together, exactly on *)
(* the orders below next_d.                                                *)
DeliveredInOrder ==
  /\ \A k \in DW : next_d[k] <= next_o[k]
  /\ \A k \in DOMAIN orders :
       LET done == k[1] < next_d[<<k[2], k[3]>>]
       IN  /\ done <=> orders[k].carrier # NoCarrier
           /\ \A l \in LineKeys(k) : orderLines[l].delivered <=> done

(* The money of the warehouse, its districts and their customers agrees,   *)
(* and each customer is charged once for each delivered order.             *)
MoneyAddsUp ==
  /\ \A w \in Warehouses :
       w_ytd[w] = SumFunction([d \in Districts |-> d_ytd[<<d, w>>]])
  /\ \A k \in DW :
       d_ytd[k] = SumFunction([c \in Customers |-> customer[<<c, k[1], k[2]>>].ytd])
  /\ \A r \in CDW :
       LET delivered == {k \in DOMAIN orders : /\ orders[k].c = r[1] /\ k[2] = r[2] /\ k[3] = r[3]
                                               /\ orders[k].carrier # NoCarrier}
       IN  /\ customer[r].deliveries = Cardinality(delivered)
           /\ customer[r].balance + customer[r].ytd = SumFunction([k \in delivered |-> Total(k)])

(* The stock that is left accounts for what the order lines sold, up to    *)
(* refills of 100; of several lines of one order for the same item only    *)
(* the last one counts.                                                    *)
StockAccountsForSales ==
  \A s \in DOMAIN stock :
    LET last(k) == {l \in LineKeys(k) :
                      /\ StockKey(orderLines[l]) = s
                      /\ \A m \in LineKeys(k) : StockKey(orderLines[m]) = s => m[4] <= l[4]}
        sold == [l \in UNION {last(k) : k \in DOMAIN orders} |-> orderLines[l].quantity]
    IN  (LoadedStock - SumFunction(sold) - stock[s]) % 100 = 0

(* A customer's last order is the newest of its orders, so OrderStatus     *)
(* misses rows only for a customer that has none, and StockLevel only in a *)
(* district with fewer orders than it looks at.                            *)
StatusFindsTheNewest ==
  /\ \A r \in CDW :
       LET own == {k[1] : k \in {k \in DOMAIN orders : <<orders[k].c, k[2], k[3]>> = r}}
       IN  /\ lastOrder[r] = Max(own \cup {0})
           /\ OrderStatusMisses(r[3], r[2], r[1]) <=> own = {}
  /\ \A k \in DW : StockLevelMisses(k[2], k[1]) <=> next_o[k] <= Window

(* The history of a customer holds what it has paid; a payment is missing  *)
(* only if a later one of the same customer fell into its millisecond.     *)
HistoryKeepsPayments ==
  \A r \in CDW :
    LET made == committed[r]
    IN  /\ \A n \in DOMAIN made :
             \/ \E m \in n + 1 .. Len(made) : made[m].time = made[n].time
             \/ LET row == <<r[1], r[2], r[3], made[n].time>>
                IN  row \in DOMAIN history /\ history[row] = made[n].amount
        /\ \A k \in DOMAIN history :
             <<k[1], k[2], k[3]>> = r => \E n \in DOMAIN made : made[n].time = k[4]
=============================================================================
