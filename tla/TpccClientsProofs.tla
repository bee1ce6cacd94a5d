------------------------- MODULE TpccClientsProofs -------------------------
(***************************************************************************)
(* Proofs about TPC-C: CcfTpcc for any number of warehouses, districts,    *)
(* customers and items, any orders and any clock, and TpccClients for any  *)
(* number of clients and transactions, in either execution mode.           *)
(*                                                                         *)
(*   1. Sums over finite sets.                                             *)
(*   2. What the three procedures do to the keys and rows (TInv).          *)
(*   3. The money and the stock, which are sums over them (MInv).          *)
(*   4. Interactive clients: a row whose version has not changed has the   *)
(*      value that was read (AInv).                                        *)
(*   5. What is read without being validated (RInv), and its types.        *)
(***************************************************************************)
EXTENDS TpccClients, FiniteSetTheorems, TLAPS

----------------------------------------------------------------------------
(* Sums over finite sets.  Induction over a finite set is a fact about a   *)
(* set of its subsets, and that over the numbers one about the least one.  *)

(* A set of natural numbers has a least one.                               *)
LEMMA LeastNumber ==
  ASSUME NEW T \in SUBSET Nat, T # {}
  PROVE  \E n \in T : \A m \in T : n <= m
<1> DEFINE R == OpToRel(<, Nat)
<1>1. PICK n \in T : \A m \in T : <<m, n>> \notin R
  <2>1. IsWellFoundedOn(R, Nat)
    BY NatLessThanWellFounded
  <2> HIDE DEF R
  <2> QED BY <2>1, WFMin
<1>2. \A m \in T : n <= m
  <2>1. \A m \in Nat : m < n => <<m, n>> \in R
    <3> TAKE m \in Nat
    <3>1. ASSUME m < n PROVE <<m, n>> \in R
      <4>1. R = {p \in Nat \X Nat : p[1] < p[2]}
        BY Zenon DEF OpToRel
      <4> HIDE DEF R
      <4>2. <<m, n>> \in Nat \X Nat /\ <<m, n>>[1] < <<m, n>>[2]
        BY <3>1
      <4> QED BY <4>1, <4>2
    <3> QED BY <3>1
  <2> HIDE DEF R
  <2> SUFFICES ASSUME NEW m \in T, ~(n <= m) PROVE FALSE
    OBVIOUS
  <2>2. m \in Nat /\ n \in Nat /\ m < n
    OBVIOUS
  <2>3. <<m, n>> \in R
    BY <2>1, <2>2
  <2> QED BY <1>1, <2>3
<1> HIDE DEF R
<1> QED BY <1>2

(* Induction over a finite set, as a fact about a set of its subsets.      *)
LEMMA SubsetInduction ==
  ASSUME NEW D, IsFiniteSet(D), NEW Good,
         \A s \in SUBSET D : (\A x \in s : s \ {x} \in Good) => s \in Good
  PROVE  SUBSET D \subseteq Good
<1> DEFINE Bad == {s \in SUBSET D : s \notin Good}
           sizes == {Cardinality(s) : s \in Bad}
<1>1. \A s \in SUBSET D : IsFiniteSet(s) /\ Cardinality(s) \in Nat
  BY FS_Subset, FS_CardinalityType
<1> SUFFICES ASSUME Bad # {} PROVE FALSE
  OBVIOUS
<1>2. PICK s \in Bad : \A t \in Bad : Cardinality(s) <= Cardinality(t)
  <2>1. sizes \in SUBSET Nat /\ sizes # {}
    BY <1>1
  <2> HIDE DEF sizes
  <2>2. PICK n \in sizes : \A m \in sizes : n <= m
    BY <2>1, LeastNumber
  <2> QED BY <2>2 DEF sizes
<1>3. PICK x \in s : s \ {x} \notin Good
  OBVIOUS
<1>4. Cardinality(s \ {x}) = Cardinality(s) - 1
  BY <1>1, FS_RemoveElement
<1> QED BY <1>1, <1>2, <1>3, <1>4

(* SumFunctionOnSet takes the sum of a set out of a table of the sums of its*)
(* subsets, each of which is an element plus the sum of the rest.          *)
SumTable(f, D, it) ==
  it = [s \in SUBSET D |->
          IF s = {} THEN 0
          ELSE LET x == CHOOSE x \in s : TRUE IN f[x] + it[s \ {x}]]

LEMMA FoldIsTable ==
  ASSUME NEW f, NEW D
  PROVE  SumFunctionOnSet(f, D) = (CHOOSE it : SumTable(f, D, it))[D]
BY DEF SumFunctionOnSet, FoldFunctionOnSet, MapThenFoldSet, SumTable

Summand(f, it, s) ==
  IF s = {} THEN 0 ELSE LET x == CHOOSE x \in s : TRUE IN f[x] + it[s \ {x}]

Tables(f, D) == {s \in SUBSET D : \E it : SumTable(f, s, it)}

(* Two functions that agree have tables that agree.                        *)
LEMMA SameTables ==
  ASSUME NEW f, NEW g, NEW s, NEW t, IsFiniteSet(s), IsFiniteSet(t),
         NEW it, SumTable(f, s, it), NEW jt, SumTable(g, t, jt),
         \A x \in s \cap t : f[x] = g[x]
  PROVE  \A u \in SUBSET (s \cap t) : it[u] = jt[u]
<1> DEFINE Good == {u \in SUBSET (s \cap t) : it[u] = jt[u]}
<1>1. IsFiniteSet(s \cap t)
  BY FS_Intersection
<1>2. \A u \in SUBSET (s \cap t) : (\A x \in u : u \ {x} \in Good) => u \in Good
  <2> SUFFICES ASSUME NEW u \in SUBSET (s \cap t), \A x \in u : u \ {x} \in Good
               PROVE  it[u] = jt[u]
    OBVIOUS
  <2>1. it[u] = Summand(f, it, u) /\ jt[u] = Summand(g, jt, u)
    <3>1. it[u] = IF u = {} THEN 0
                  ELSE LET x == CHOOSE x \in u : TRUE IN f[x] + it[u \ {x}]
      BY DEF SumTable
    <3>2. jt[u] = IF u = {} THEN 0
                  ELSE LET x == CHOOSE x \in u : TRUE IN g[x] + jt[u \ {x}]
      BY DEF SumTable
    <3> QED BY <3>1, <3>2 DEF Summand
  <2>2. CASE u = {}
    BY <2>1, <2>2 DEF Summand
  <2>3. CASE u # {}
    <3> DEFINE x == CHOOSE x \in u : TRUE
    <3>1. x \in u
      BY <2>3
    <3>2. it[u \ {x}] = jt[u \ {x}] /\ f[x] = g[x]
      BY <3>1
    <3> QED BY <2>1, <2>3, <3>2 DEF Summand
  <2> QED BY <2>2, <2>3
<1> HIDE DEF Good
<1>3. SUBSET (s \cap t) \subseteq Good
  BY <1>1, <1>2, SubsetInduction
<1> QED BY <1>3 DEF Good

(* There is a table: that of a set is put together from those of the set   *)
(* without one element.                                                    *)
LEMMA TableExists ==
  ASSUME NEW f, NEW D, IsFiniteSet(D)
  PROVE  \E it : SumTable(f, D, it)
<1> DEFINE Good == Tables(f, D)
<1>1. ASSUME NEW s \in SUBSET D, \A x \in s : s \ {x} \in Good
      PROVE  \E it : SumTable(f, s, it)
  <2> DEFINE part == [x \in s |-> CHOOSE it : SumTable(f, s \ {x}, it)]
             it == [t \in SUBSET s |->
                      IF t = {} THEN 0
                      ELSE LET x == CHOOSE x \in t : TRUE IN f[x] + part[x][t \ {x}]]
  <2>1. \A x \in s : SumTable(f, s \ {x}, part[x])
    <3> TAKE x \in s
    <3>1. \E jt : SumTable(f, s \ {x}, jt)
      BY <1>1 DEF Tables
    <3> QED BY <3>1
  <2>2. \A x \in s : \A t \in SUBSET (s \ {x}) : it[t] = part[x][t]
    <3> SUFFICES ASSUME NEW x \in s, NEW t \in SUBSET (s \ {x}) PROVE it[t] = part[x][t]
      OBVIOUS
    <3>1. SumTable(f, s \ {x}, part[x])
      BY <2>1
    <3>2. part[x][t] = Summand(f, part[x], t)
      BY <3>1 DEF SumTable, Summand
    <3>3. CASE t = {}
      BY <3>2, <3>3 DEF Summand
    <3>4. CASE t # {}
      <4> DEFINE y == CHOOSE y \in t : TRUE
      <4>1. y \in t /\ y \in s
        BY <3>4
      <4>2. it[t] = f[y] + part[y][t \ {y}]
        BY <3>4
      <4>3. part[x][t] = f[y] + part[x][t \ {y}]
        BY <3>2, <3>4 DEF Summand
      <4>4. SumTable(f, s \ {y}, part[y])
        BY <2>1, <4>1
      <4>5. IsFiniteSet(s \ {x}) /\ IsFiniteSet(s \ {y})
        BY FS_Subset
      <4>6. t \ {y} \in SUBSET ((s \ {y}) \cap (s \ {x}))
        OBVIOUS
      <4> HIDE DEF part, it, y
      <4>7. part[y][t \ {y}] = part[x][t \ {y}]
        BY <3>1, <4>4, <4>5, <4>6, SameTables
      <4> QED BY <4>2, <4>3, <4>7
    <3> QED BY <3>3, <3>4
  <2>3. \A t \in SUBSET s : it[t] = Summand(f, it, t)
    <3> SUFFICES ASSUME NEW t \in SUBSET s, t # {}
                 PROVE  it[t] = Summand(f, it, t)
      BY DEF Summand
    <3> DEFINE y == CHOOSE y \in t : TRUE
    <3>1. y \in t /\ y \in s
      OBVIOUS
    <3>2. it[t] = f[y] + part[y][t \ {y}]
      OBVIOUS
    <3>3. it[t \ {y}] = part[y][t \ {y}]
      <4> HIDE DEF it, part, y
      <4>1. t \ {y} \in SUBSET (s \ {y})
        OBVIOUS
      <4> QED BY <2>2, <3>1, <4>1
    <3> HIDE DEF it, part
    <3> QED BY <3>2, <3>3 DEF Summand
  <2>4. it = [t \in SUBSET s |-> it[t]]
    OBVIOUS
  <2> HIDE DEF it
  <2>5. it = [t \in SUBSET s |-> Summand(f, it, t)]
    BY <2>3, <2>4
  <2>6. SumTable(f, s, it)
    BY <2>5 DEF SumTable, Summand
  <2> QED BY <2>6
<1>2. \A s \in SUBSET D : (\A x \in s : s \ {x} \in Good) => s \in Good
  BY <1>1 DEF Tables
<1> HIDE DEF Good
<1>3. SUBSET D \subseteq Good
  BY <1>2, SubsetInduction
<1> QED BY <1>3 DEF Good, Tables

(* Sums of numbers are numbers.                                            *)
LEMMA TableTyped ==
  ASSUME NEW f, NEW D, IsFiniteSet(D), NEW it, SumTable(f, D, it),
         NEW N, N = Int \/ N = Nat, \A x \in D : f[x] \in N
  PROVE  \A s \in SUBSET D : it[s] \in N
<1> DEFINE Good == {s \in SUBSET D : it[s] \in N}
<1>1. ASSUME NEW s \in SUBSET D, \A x \in s : s \ {x} \in Good
      PROVE  s \in Good
  <2>1. it[s] = IF s = {} THEN 0
                ELSE LET x == CHOOSE x \in s : TRUE IN f[x] + it[s \ {x}]
    BY DEF SumTable
  <2>2. CASE s = {}
    BY <2>1, <2>2
  <2>3. CASE s # {}
    <3> DEFINE x == CHOOSE x \in s : TRUE
    <3>1. x \in s /\ it[s] = f[x] + it[s \ {x}]
      BY <2>1, <2>3
    <3> HIDE DEF x
    <3>2. it[s \ {x}] \in N /\ f[x] \in N
      BY <1>1, <3>1
    <3> QED BY <3>1, <3>2
  <2> QED BY <2>2, <2>3
<1>2. \A s \in SUBSET D : (\A x \in s : s \ {x} \in Good) => s \in Good
  BY <1>1
<1> HIDE DEF Good
<1>3. SUBSET D \subseteq Good
  BY <1>2, SubsetInduction
<1> QED BY <1>3 DEF Good

TakenFrom(f, it, s, x) == f[x] + it[s \ {x}]

(* It makes no difference which element is taken first.                    *)
LEMMA TableEntries ==
  ASSUME NEW f, NEW D, IsFiniteSet(D), NEW it, SumTable(f, D, it),
         \A x \in D : f[x] \in Int
  PROVE  \A s \in SUBSET D : \A x \in s : it[s] = TakenFrom(f, it, s, x)
<1> DEFINE Good == {s \in SUBSET D : \A x \in s : it[s] = f[x] + it[s \ {x}]}
<1>1. \A s \in SUBSET D : it[s] \in Int
  BY TableTyped
<1>2. ASSUME NEW s \in SUBSET D, \A x \in s : s \ {x} \in Good
      PROVE  s \in Good
  <2> SUFFICES ASSUME NEW y \in s PROVE it[s] = f[y] + it[s \ {y}]
    OBVIOUS
  <2> DEFINE x == CHOOSE x \in s : TRUE
  <2>1. it[s] = IF s = {} THEN 0 ELSE LET z == CHOOSE z \in s : TRUE IN f[z] + it[s \ {z}]
    BY DEF SumTable
  <2>2. x \in s /\ it[s] = f[x] + it[s \ {x}]
    BY <2>1
  <2> HIDE DEF x
  <2>3. CASE x = y
    BY <2>2, <2>3
  <2>4. CASE x # y
    <3>1. s \ {x} \in Good /\ s \ {y} \in Good /\ y \in s \ {x} /\ x \in s \ {y}
      BY <1>2, <2>2, <2>4
    <3>2. it[s \ {x}] = f[y] + it[(s \ {x}) \ {y}]
      BY <3>1
    <3>3. it[s \ {y}] = f[x] + it[(s \ {y}) \ {x}]
      BY <3>1
    <3>4. (s \ {x}) \ {y} = (s \ {y}) \ {x}
      OBVIOUS
    <3>5. it[(s \ {x}) \ {y}] \in Int /\ f[x] \in Int /\ f[y] \in Int
      BY <1>1, <2>2
    <3> HIDE DEF Good
    <3>6. \A a, b, c \in Int : a + (b + c) = b + (a + c)
      OBVIOUS
    <3>7. it[s] = f[x] + (f[y] + it[(s \ {x}) \ {y}])
      BY <2>2, <3>2
    <3>8. it[s] = f[y] + (f[x] + it[(s \ {x}) \ {y}])
      BY <3>5, <3>6, <3>7
    <3> QED BY <3>3, <3>4, <3>8
  <2> QED BY <2>3, <2>4
<1>3. \A s \in SUBSET D : (\A x \in s : s \ {x} \in Good) => s \in Good
  BY <1>2
<1> HIDE DEF Good
<1>4. SUBSET D \subseteq Good
  BY <1>3, SubsetInduction
<1> QED BY <1>4 DEF Good, TakenFrom

----------------------------------------------------------------------------
(* What the proofs about sums use.                                         *)

LEMMA SumIsEntry ==
  ASSUME NEW f, IsFiniteSet(DOMAIN f)
  PROVE  \E it : SumTable(f, DOMAIN f, it) /\ SumFunction(f) = it[DOMAIN f]
<1>1. SumFunction(f) = (CHOOSE it : SumTable(f, DOMAIN f, it))[DOMAIN f]
  BY FoldIsTable DEF SumFunction
<1>2. SumTable(f, DOMAIN f, CHOOSE it : SumTable(f, DOMAIN f, it))
  BY TableExists
<1> QED BY <1>1, <1>2

LEMMA SumOfNone ==
  ASSUME NEW f, DOMAIN f = {}
  PROVE  SumFunction(f) = 0
<1>1. PICK it : SumTable(f, {}, it) /\ SumFunction(f) = it[{}]
  BY SumIsEntry, FS_EmptySet
<1>2. it[{}] = IF {} = {} THEN 0 ELSE LET x == CHOOSE x \in {} : TRUE IN f[x] + it[{} \ {x}]
  BY <1>1 DEF SumTable
<1> QED BY <1>1, <1>2

LEMMA SumTyped ==
  ASSUME NEW f, IsFiniteSet(DOMAIN f), NEW N, N = Int \/ N = Nat, \A x \in DOMAIN f : f[x] \in N
  PROVE  SumFunction(f) \in N
<1>1. PICK it : SumTable(f, DOMAIN f, it) /\ SumFunction(f) = it[DOMAIN f]
  BY SumIsEntry
<1>2. \A s \in SUBSET DOMAIN f : it[s] \in N
  BY <1>1, TableTyped
<1> QED BY <1>1, <1>2

LEMMA SumSame ==
  ASSUME NEW f, NEW g, IsFiniteSet(DOMAIN f), DOMAIN f = DOMAIN g, \A x \in DOMAIN f : f[x] = g[x]
  PROVE  SumFunction(f) = SumFunction(g)
<1>1. PICK it : SumTable(f, DOMAIN f, it) /\ SumFunction(f) = it[DOMAIN f]
  BY SumIsEntry
<1>2. PICK jt : SumTable(g, DOMAIN f, jt) /\ SumFunction(g) = jt[DOMAIN f]
  BY SumIsEntry
<1>3. \A u \in SUBSET (DOMAIN f \cap DOMAIN f) : it[u] = jt[u]
  BY <1>1, <1>2, SameTables
<1> QED BY <1>1, <1>2, <1>3

(* One more summand.                                                       *)
LEMMA SumOneMore ==
  ASSUME NEW f, NEW g, NEW x \in DOMAIN g, IsFiniteSet(DOMAIN g),
         \A y \in DOMAIN g : g[y] \in Int,
         DOMAIN f = DOMAIN g \ {x}, \A y \in DOMAIN f : f[y] = g[y]
  PROVE  SumFunction(g) = g[x] + SumFunction(f)
<1>1. IsFiniteSet(DOMAIN f)
  BY FS_RemoveElement
<1>2. PICK it : SumTable(f, DOMAIN f, it) /\ SumFunction(f) = it[DOMAIN f]
  BY <1>1, SumIsEntry
<1>3. PICK jt : SumTable(g, DOMAIN g, jt) /\ SumFunction(g) = jt[DOMAIN g]
  BY SumIsEntry
<1>4. jt[DOMAIN g] = g[x] + jt[DOMAIN g \ {x}]
  <2>1. \A s \in SUBSET DOMAIN g : \A y \in s : jt[s] = g[y] + jt[s \ {y}]
    <3> DEFINE D == DOMAIN g
    <3>1. SumTable(g, D, jt) /\ IsFiniteSet(D) /\ \A y \in D : g[y] \in Int
      BY <1>3
    <3> HIDE DEF D
    <3>2. \A s \in SUBSET D : \A y \in s : jt[s] = TakenFrom(g, jt, s, y)
      BY <3>1, TableEntries
    <3> QED BY <3>2 DEF D, TakenFrom
  <2> QED BY <2>1
<1>5. it[DOMAIN f] = jt[DOMAIN f]
  <2>1. \A u \in SUBSET (DOMAIN f \cap DOMAIN g) : it[u] = jt[u]
    BY <1>1, <1>2, <1>3, SameTables
  <2> QED BY <2>1
<1> QED BY <1>2, <1>3, <1>4, <1>5

LEMMA SumOfZeros ==
  ASSUME NEW f, IsFiniteSet(DOMAIN f), \A x \in DOMAIN f : f[x] = 0
  PROVE  SumFunction(f) = 0
<1> DEFINE D == DOMAIN f
           zeros(s) == [x \in s |-> 0]
           Good == {s \in SUBSET D : SumFunction(zeros(s)) = 0}
<1>1. ASSUME NEW s \in SUBSET D, \A x \in s : s \ {x} \in Good
      PROVE  s \in Good
  <2>1. CASE s = {}
    <3>1. DOMAIN zeros(s) = {}
      BY <2>1
    <3> HIDE DEF zeros
    <3>2. SumFunction(zeros(s)) = 0
      BY <3>1, SumOfNone
    <3> QED BY <3>2
  <2>2. CASE s # {}
    <3>1. PICK x \in s : TRUE
      BY <2>2
    <3> DEFINE g == zeros(s)
               h == zeros(s \ {x})
    <3>2. SumFunction(h) = 0
      BY <1>1
    <3>3. /\ DOMAIN g = s /\ DOMAIN h = s \ {x} /\ \A y \in s : g[y] = 0
          /\ \A y \in s \ {x} : h[y] = 0
      OBVIOUS
    <3>4. IsFiniteSet(s)
      BY FS_Subset
    <3> HIDE DEF g, h, Good
    <3>5. SumFunction(g) = g[x] + SumFunction(h)
      BY <3>3, <3>4, SumOneMore
    <3> QED BY <3>2, <3>3, <3>5 DEF g, Good
  <2> QED BY <2>1, <2>2
<1>2. \A s \in SUBSET D : (\A x \in s : s \ {x} \in Good) => s \in Good
  BY <1>1
<1>3. IsFiniteSet(D)
  OBVIOUS
<1>4. DOMAIN zeros(D) = D /\ \A x \in D : zeros(D)[x] = 0
  OBVIOUS
<1> HIDE DEF Good, zeros
<1>5. SUBSET D \subseteq Good
  BY <1>2, <1>3, SubsetInduction
<1>6. SumFunction(zeros(D)) = 0
  BY <1>5 DEF Good
<1> QED BY <1>4, <1>6, SumSame

(* One summand that changes.                                               *)
LEMMA SumOneChanged ==
  ASSUME NEW f, NEW g, NEW x \in DOMAIN f, IsFiniteSet(DOMAIN f), DOMAIN g = DOMAIN f,
         \A y \in DOMAIN f : f[y] \in Int /\ g[y] \in Int,
         \A y \in DOMAIN f \ {x} : f[y] = g[y]
  PROVE  SumFunction(g) = SumFunction(f) - f[x] + g[x]
<1> DEFINE rest == [y \in DOMAIN f \ {x} |-> f[y]]
<1>1. DOMAIN rest = DOMAIN f \ {x} /\ \A y \in DOMAIN rest : rest[y] = f[y] /\ rest[y] = g[y]
  OBVIOUS
<1> HIDE DEF rest
<1>2. SumFunction(f) = f[x] + SumFunction(rest)
  BY <1>1, SumOneMore
<1>3. SumFunction(g) = g[x] + SumFunction(rest)
  BY <1>1, SumOneMore
<1>4. SumFunction(rest) \in Int
  BY <1>1, SumTyped, FS_RemoveElement
<1> QED BY <1>2, <1>3, <1>4

----------------------------------------------------------------------------
(* Tables.                                                                 *)

LEMMA WithRows ==
  ASSUME NEW table, NEW puts
  PROVE  /\ DOMAIN With(table, puts) = DOMAIN table \cup DOMAIN puts
         /\ \A k \in DOMAIN puts : With(table, puts)[k] = puts[k]
         /\ \A k \in DOMAIN table \ DOMAIN puts : With(table, puts)[k] = table[k]
BY DEF With

(* The columns of the types that proofs need; sums are left out.           *)
Typed ==
  /\ next_o \in [DW -> Nat \ {0}]
  /\ next_d \in [DW -> Nat \ {0}]
  /\ DOMAIN stock = Items \X Warehouses
  /\ \A k \in DOMAIN orders : orders[k] \in Orders
  /\ \A l \in DOMAIN orderLines : orderLines[l] \in OrderLines
  /\ lastOrder \in [CDW -> Nat]
  /\ committed \in [CDW -> Seq([amount : Payments, time : 0..MaxTime])]

(* The parts of the properties that proofs are about.                      *)
DenseOrders ==
  \A k : k \in DOMAIN orders <=>
    \E d \in Districts, w \in Warehouses : \E o \in 1 .. next_o[<<d, w>>] - 1 : k = <<o, d, w>>

DenseLines ==
  \A l : l \in DOMAIN orderLines <=>
    \E k \in DOMAIN orders : \E n \in 1..orders[k].cnt : l = LineKey(k, n)

LEMMA DenseForm == OrdersAreDense <=> DenseOrders /\ DenseLines
<1>1. DOMAIN orders = UNION {{<<o, k[1], k[2]>> : o \in 1 .. next_o[k] - 1} : k \in DW}
        <=> DenseOrders
  <2>1. \A k : k \in UNION {{<<o, j[1], j[2]>> : o \in 1 .. next_o[j] - 1} : j \in DW} <=>
          \E d \in Districts, w \in Warehouses : \E o \in 1 .. next_o[<<d, w>>] - 1 : k = <<o, d, w>>
    <3> TAKE k
    <3>1. ASSUME NEW d \in Districts, NEW w \in Warehouses
          PROVE  <<d, w>> \in DW /\ <<d, w>>[1] = d /\ <<d, w>>[2] = w
      BY DEF DW
    <3>2. ASSUME NEW j \in DW
          PROVE  j[1] \in Districts /\ j[2] \in Warehouses /\ j = <<j[1], j[2]>>
      BY DEF DW
    <3>3. ASSUME k \in UNION {{<<o, j[1], j[2]>> : o \in 1 .. next_o[j] - 1} : j \in DW}
          PROVE  \E d \in Districts, w \in Warehouses :
                   \E o \in 1 .. next_o[<<d, w>>] - 1 : k = <<o, d, w>>
      <4>1. PICK j \in DW : k \in {<<o, j[1], j[2]>> : o \in 1 .. next_o[j] - 1}
        BY <3>3
      <4>2. PICK o \in 1 .. next_o[j] - 1 : k = <<o, j[1], j[2]>>
        BY <4>1
      <4> QED BY <3>2, <4>2
    <3>4. ASSUME NEW d \in Districts, NEW w \in Warehouses,
                 NEW o \in 1 .. next_o[<<d, w>>] - 1, k = <<o, d, w>>
          PROVE  k \in UNION {{<<i, j[1], j[2]>> : i \in 1 .. next_o[j] - 1} : j \in DW}
      <4>1. k \in {<<i, <<d, w>>[1], <<d, w>>[2]>> : i \in 1 .. next_o[<<d, w>>] - 1}
        BY <3>1, <3>4
      <4> QED BY <3>1, <4>1
    <3> QED BY <3>3, <3>4
  <2> QED BY <2>1 DEF DenseOrders
<1>2. DOMAIN orderLines = UNION {LineKeys(k) : k \in DOMAIN orders} <=> DenseLines
  <2>1. \A l : l \in UNION {LineKeys(k) : k \in DOMAIN orders} <=>
          \E k \in DOMAIN orders : \E n \in 1..orders[k].cnt : l = LineKey(k, n)
    BY DEF LineKeys
  <2> QED BY <2>1 DEF DenseLines
<1> QED BY <1>1, <1>2 DEF OrdersAreDense

(* The lines a new order puts.                                             *)
LEMMA LinePutsRows ==
  ASSUME NEW o, NEW d, NEW w, NEW lines \in LineLists
  PROVE  /\ Len(lines) \in Nat
         /\ DOMAIN LinePuts(o, d, w, lines) = {LineKey(<<o, d, w>>, n) : n \in 1..Len(lines)}
         /\ \A l \in DOMAIN LinePuts(o, d, w, lines) :
              /\ LinePuts(o, d, w, lines)[l] \in OrderLines
              /\ LinePuts(o, d, w, lines)[l].delivered = FALSE
<1>1. lines \in Seq(Lines)
  BY TpccAssumption
<1>2. DOMAIN lines = 1..Len(lines) /\ Len(lines) \in Nat
  BY <1>1
<1>3. \A n \in DOMAIN lines : lines[n] \in Lines /\ Amount(lines[n]) \in Nat
  <2> TAKE n \in DOMAIN lines
  <2>1. lines[n] \in Lines
    BY <1>1
  <2>2. lines[n].quantity \in Nat /\ Price[lines[n].item] \in Nat
    BY <2>1, TpccAssumption DEF Lines
  <2> QED BY <2>1, <2>2 DEF Amount
<1>4. ASSUME NEW l \in DOMAIN LinePuts(o, d, w, lines)
      PROVE  LinePuts(o, d, w, lines)[l] \in OrderLines
  <2>1. l[4] \in DOMAIN lines
    BY DEF LinePuts
  <2>2. LinePuts(o, d, w, lines)[l] =
          [item |-> lines[l[4]].item, s_w |-> lines[l[4]].s_w,
           quantity |-> lines[l[4]].quantity, amount |-> Amount(lines[l[4]]), delivered |-> FALSE]
    BY DEF LinePuts
  <2> QED BY <1>3, <2>1, <2>2 DEF OrderLines, Lines
<1> QED BY <1>2, <1>4 DEF LinePuts, LineKey

LEMMA StockPutsRows ==
  ASSUME NEW lines \in LineLists, NEW read
  PROVE  DOMAIN StockPuts(lines, read) \subseteq Items \X Warehouses
<1>1. \A n \in DOMAIN lines : lines[n] \in Lines
  BY TpccAssumption
<1> QED BY <1>1 DEF StockPuts, StockKey, Lines

----------------------------------------------------------------------------
(* The invariant, and what the three procedures do to it.  It does not     *)
(* bound the number of orders and payments.                                *)

Numbered ==
  \A r \in CDW :
    /\ lastOrder[r] # 0 => \E k \in DOMAIN orders :
         k = <<lastOrder[r], r[2], r[3]>> /\ orders[k].c = r[1]
    /\ \A k \in DOMAIN orders :
         k[2] = r[2] /\ k[3] = r[3] /\ orders[k].c = r[1] => k[1] <= lastOrder[r]

TInv ==
  /\ Typed
  /\ DenseOrders
  /\ DenseLines
  /\ DeliveredInOrder
  /\ Numbered
  /\ HistoryKeepsPayments

LEMMA InitTInv == Init => TInv
<1> SUFFICES ASSUME Init PROVE TInv
  OBVIOUS
<1> USE DEF Init, Empty
<1>1. Typed
  BY DEF Typed, CDW
<1>2. DOMAIN orders = {} /\ DOMAIN orderLines = {} /\ DOMAIN history = {}
  OBVIOUS
<1>3. DenseOrders
  <2>1. \A d \in Districts, w \in Warehouses : 1 .. next_o[<<d, w>>] - 1 = {}
    BY DEF DW
  <2> QED BY <1>2, <2>1 DEF DenseOrders
<1>4. DenseLines /\ DeliveredInOrder /\ Numbered
  BY <1>2 DEF DenseLines, DeliveredInOrder, Numbered, CDW, DW
<1>5. HistoryKeepsPayments
  BY <1>2 DEF HistoryKeepsPayments
<1> QED BY <1>1, <1>3, <1>4, <1>5 DEF TInv

(* Keys of a dense table.                                                  *)
LEMMA OrderKeys ==
  ASSUME Typed, DenseOrders, NEW k \in DOMAIN orders
  PROVE  /\ k = <<k[1], k[2], k[3]>>
         /\ k[2] \in Districts /\ k[3] \in Warehouses
         /\ k[1] \in Nat /\ 1 <= k[1] /\ k[1] < next_o[<<k[2], k[3]>>]
<1>1. PICK d \in Districts, w \in Warehouses : \E o \in 1 .. next_o[<<d, w>>] - 1 : k = <<o, d, w>>
  BY DEF DenseOrders
<1>2. PICK o \in 1 .. next_o[<<d, w>>] - 1 : k = <<o, d, w>>
  BY <1>1
<1>3. next_o[<<d, w>>] \in Nat
  BY DEF Typed, DW
<1> QED BY <1>2, <1>3

LEMMA PutOrderKeeps ==
  ASSUME TInv, NEW w \in Warehouses, NEW d \in Districts, NEW c \in Customers,
         NEW lines \in LineLists, NewOrder(w, d, c, lines)
  PROVE  TInv'
<1> DEFINE o == next_o[<<d, w>>]
           key == <<o, d, w>>
           row == [c |-> c, cnt |-> Len(lines), carrier |-> NoCarrier]
           lp == LinePuts(o, d, w, lines)
<1>1. /\ orders' = With(orders, [k \in {key} |-> row])
      /\ orderLines' = With(orderLines, lp)
      /\ lastOrder' = [lastOrder EXCEPT ![<<c, d, w>>] = o]
      /\ next_o' = [next_o EXCEPT ![<<d, w>>] = o + 1]
      /\ UNCHANGED <<next_d, history, committed>>
  BY DEF NewOrder, PutOrder, LastOrder
<1>2. <<d, w>> \in DW /\ <<c, d, w>> \in CDW /\ o \in Nat \ {0}
  BY DEF DW, CDW, TInv, Typed
<1>3. key \notin DOMAIN orders
  <2>1. ASSUME key \in DOMAIN orders PROVE FALSE
    <3>1. key[1] < next_o[<<key[2], key[3]>>]
      BY <2>1, OrderKeys DEF TInv
    <3> QED BY <1>2, <3>1
  <2> QED BY <2>1
<1>4. /\ DOMAIN orders' = DOMAIN orders \cup {key}
      /\ orders'[key] = row
      /\ \A k \in DOMAIN orders : orders'[k] = orders[k]
  <2> DEFINE puts == [k \in {key} |-> row]
  <2>1. DOMAIN puts = {key} /\ puts[key] = row
    OBVIOUS
  <2>2. orders' = With(orders, puts)
    BY <1>1
  <2> HIDE DEF puts, row, key
  <2>3. /\ DOMAIN With(orders, puts) = DOMAIN orders \cup DOMAIN puts
        /\ \A k \in DOMAIN puts : With(orders, puts)[k] = puts[k]
        /\ \A k \in DOMAIN orders \ DOMAIN puts : With(orders, puts)[k] = orders[k]
    BY WithRows
  <2> QED BY <1>3, <2>1, <2>2, <2>3
<1>5. /\ Len(lines) \in Nat
      /\ DOMAIN lp = {LineKey(key, n) : n \in 1..Len(lines)}
      /\ \A l \in DOMAIN lp : lp[l] \in OrderLines /\ lp[l].delivered = FALSE
  BY LinePutsRows
<1>6. /\ DOMAIN orderLines' = DOMAIN orderLines \cup DOMAIN lp
      /\ \A l \in DOMAIN lp : orderLines'[l] = lp[l]
      /\ \A l \in DOMAIN orderLines \ DOMAIN lp : orderLines'[l] = orderLines[l]
  <2> HIDE DEF lp
  <2>1. /\ DOMAIN With(orderLines, lp) = DOMAIN orderLines \cup DOMAIN lp
        /\ \A l \in DOMAIN lp : With(orderLines, lp)[l] = lp[l]
        /\ \A l \in DOMAIN orderLines \ DOMAIN lp : With(orderLines, lp)[l] = orderLines[l]
    BY WithRows
  <2> QED BY <1>1, <2>1
<1> HIDE DEF lp
<1>7. Typed'
  <2>1. next_o' \in [DW -> Nat \ {0}] /\ lastOrder' \in [CDW -> Nat]
    BY <1>1, <1>2 DEF TInv, Typed
  <2>2. orders'[key] \in Orders
    BY <1>4, <1>5 DEF Orders
  <2>3. \A k \in DOMAIN orders' : orders'[k] \in Orders
    BY <1>4, <2>2 DEF TInv, Typed
  <2>4. \A l \in DOMAIN orderLines' : orderLines'[l] \in OrderLines
    BY <1>5, <1>6 DEF TInv, Typed
  <2>5. DOMAIN stock' = Items \X Warehouses
    <3>1. stock' = With(stock, StockPuts(lines, stock))
      BY DEF NewOrder, PutOrder
    <3>2. DOMAIN With(stock, StockPuts(lines, stock)) = DOMAIN stock \cup DOMAIN StockPuts(lines, stock)
      BY WithRows
    <3> QED BY <3>1, <3>2, StockPutsRows DEF TInv, Typed
  <2> QED BY <1>1, <2>1, <2>3, <2>4, <2>5 DEF TInv, Typed
<1>8. DenseOrders'
  <2>1. \A e \in Districts, v \in Warehouses : \A i :
          i \in 1 .. next_o'[<<e, v>>] - 1 <=>
            i \in 1 .. next_o[<<e, v>>] - 1 \/ (e = d /\ v = w /\ i = o)
    <3>1. \A e \in Districts, v \in Warehouses :
            /\ next_o[<<e, v>>] \in Nat \ {0}
            /\ next_o'[<<e, v>>] = IF e = d /\ v = w THEN o + 1 ELSE next_o[<<e, v>>]
      BY <1>1 DEF TInv, Typed, DW
    <3> QED BY <1>2, <3>1
  <2>2. ASSUME NEW k
        PROVE  k \in DOMAIN orders' <=>
          \E e \in Districts, v \in Warehouses : \E i \in 1 .. next_o'[<<e, v>>] - 1 : k = <<i, e, v>>
    <3>1. k \in DOMAIN orders <=>
            \E e \in Districts, v \in Warehouses : \E i \in 1 .. next_o[<<e, v>>] - 1 : k = <<i, e, v>>
      BY DEF TInv, DenseOrders
    <3>2. k \in DOMAIN orders' <=> k \in DOMAIN orders \/ k = <<o, d, w>>
      BY <1>4
    <3>3. ASSUME k = <<o, d, w>>
          PROVE  \E e \in Districts, v \in Warehouses :
                   \E i \in 1 .. next_o'[<<e, v>>] - 1 : k = <<i, e, v>>
      BY <2>1, <3>3
    <3> HIDE DEF o, key
    <3>4. ASSUME NEW e \in Districts, NEW v \in Warehouses,
                 NEW i \in 1 .. next_o[<<e, v>>] - 1, k = <<i, e, v>>
          PROVE  \E x \in Districts, y \in Warehouses :
                   \E j \in 1 .. next_o'[<<x, y>>] - 1 : k = <<j, x, y>>
      BY <2>1, <3>4
    <3>5. ASSUME NEW e \in Districts, NEW v \in Warehouses,
                 NEW i \in 1 .. next_o'[<<e, v>>] - 1, k = <<i, e, v>>
          PROVE  k \in DOMAIN orders'
      BY <2>1, <3>1, <3>2, <3>5
    <3> QED BY <3>1, <3>2, <3>3, <3>4, <3>5
  <2> QED BY <2>2 DEF DenseOrders
<1>9. DenseLines'
  <2>1. \A k \in DOMAIN orders : orders'[k].cnt = orders[k].cnt
    BY <1>4
  <2>2. orders'[key].cnt = Len(lines)
    BY <1>4
  <2> HIDE DEF key, o, row
  <2>3. ASSUME NEW l
        PROVE  l \in DOMAIN orderLines' <=>
                 \E k \in DOMAIN orders' : \E n \in 1..orders'[k].cnt : l = LineKey(k, n)
    <3>1. l \in DOMAIN orderLines <=>
            \E k \in DOMAIN orders : \E n \in 1..orders[k].cnt : l = LineKey(k, n)
      BY DEF TInv, DenseLines
    <3>2. l \in DOMAIN lp <=> \E n \in 1..Len(lines) : l = LineKey(key, n)
      BY <1>5
    <3>3. (\E k \in DOMAIN orders' : \E n \in 1..orders'[k].cnt : l = LineKey(k, n)) <=>
            \/ \E k \in DOMAIN orders : \E n \in 1..orders[k].cnt : l = LineKey(k, n)
            \/ \E n \in 1..Len(lines) : l = LineKey(key, n)
      BY <1>4, <2>1, <2>2
    <3> QED BY <1>6, <3>1, <3>2, <3>3
  <2> QED BY <2>3 DEF DenseLines
<1>10. DeliveredInOrder'
  <2>1. ASSUME NEW k \in DW PROVE next_d'[k] <= next_o'[k]
    <3>1. next_d[k] <= next_o[k] /\ next_d[k] \in Nat /\ next_o[k] \in Nat
      BY DEF TInv, Typed, DeliveredInOrder
    <3>2. next_o'[k] = IF k = <<d, w>> THEN o + 1 ELSE next_o[k]
      BY <1>1 DEF TInv, Typed
    <3> QED BY <1>1, <3>1, <3>2
  <2>2. ASSUME NEW k \in DOMAIN orders
        PROVE  /\ k[1] < next_d'[<<k[2], k[3]>>] <=> orders'[k].carrier # NoCarrier
               /\ \A n \in 1..orders'[k].cnt :
                    /\ LineKey(k, n) \in DOMAIN orderLines \ DOMAIN lp
                    /\ orderLines'[LineKey(k, n)].delivered <=> k[1] < next_d'[<<k[2], k[3]>>]
    <3>1. k[1] < next_d[<<k[2], k[3]>>] <=> orders[k].carrier # NoCarrier
      BY DEF TInv, DeliveredInOrder
    <3>2. ASSUME NEW n \in 1..orders[k].cnt
          PROVE  /\ LineKey(k, n) \in DOMAIN orderLines \ DOMAIN lp
                 /\ orderLines[LineKey(k, n)].delivered <=> k[1] < next_d[<<k[2], k[3]>>]
      <4>1. LineKey(k, n) \in DOMAIN orderLines
        BY DEF TInv, DenseLines
      <4>2. k = <<k[1], k[2], k[3]>>
        BY OrderKeys DEF TInv
      <4>3. \A m : LineKey(k, n) = LineKey(key, m) => k = key
        BY <4>2 DEF LineKey
      <4>4. LineKey(k, n) \notin DOMAIN lp
        BY <1>3, <1>5, <4>3
      <4>5. LineKey(k, n) \in LineKeys(k)
        BY DEF LineKeys
      <4> QED BY <4>1, <4>4, <4>5 DEF TInv, DeliveredInOrder
    <3> QED BY <1>1, <1>4, <1>6, <3>1, <3>2
  <2>3. /\ ~(key[1] < next_d'[<<key[2], key[3]>>]) /\ orders'[key].carrier = NoCarrier
        /\ \A n \in 1..orders'[key].cnt : orderLines'[LineKey(key, n)].delivered = FALSE
    <3>1. next_d'[<<d, w>>] <= o /\ next_d'[<<d, w>>] \in Nat
      BY <1>1, <1>2 DEF TInv, Typed, DeliveredInOrder
    <3>2. orders'[key].cnt = Len(lines) /\ orders'[key].carrier = NoCarrier
      BY <1>4
    <3>3. ~(key[1] < next_d'[<<key[2], key[3]>>])
      BY <1>2, <3>1
    <3> HIDE DEF key
    <3>4. \A n \in 1..Len(lines) : LineKey(key, n) \in DOMAIN lp
      BY <1>5
    <3>5. \A n \in 1..Len(lines) : orderLines'[LineKey(key, n)].delivered = FALSE
      BY <1>5, <1>6, <3>4
    <3> QED BY <3>2, <3>3, <3>5
  <2> QED BY <1>4, <2>1, <2>2, <2>3 DEF DeliveredInOrder, LineKeys
<1>11. Numbered'
  <2> SUFFICES ASSUME NEW r \in CDW
               PROVE  /\ lastOrder'[r] # 0 => \E k \in DOMAIN orders' :
                           k = <<lastOrder'[r], r[2], r[3]>> /\ orders'[k].c = r[1]
                      /\ \A k \in DOMAIN orders' :
                           k[2] = r[2] /\ k[3] = r[3] /\ orders'[k].c = r[1] =>
                             k[1] <= lastOrder'[r]
    BY DEF Numbered
  <2>1. r = <<r[1], r[2], r[3]>>
    BY DEF CDW
  <2>2. orders'[key].c = c
    BY <1>4
  <2>3. CASE r = <<c, d, w>>
    <3>1. lastOrder'[r] = o
      BY <1>1, <1>2, <2>3 DEF TInv, Typed
    <3>2. \A k \in DOMAIN orders : k[2] = d /\ k[3] = w => k[1] <= o
      BY <1>2, OrderKeys DEF TInv
    <3> QED BY <1>2, <1>4, <2>2, <2>3, <3>1, <3>2
  <2>4. CASE r # <<c, d, w>>
    <3>1. lastOrder'[r] = lastOrder[r]
      BY <1>1, <2>4 DEF TInv, Typed
    <3> QED BY <1>4, <2>1, <2>2, <2>4, <3>1 DEF TInv, Numbered
  <2> QED BY <2>3, <2>4
<1>12. HistoryKeepsPayments'
  BY <1>1 DEF TInv, HistoryKeepsPayments
<1> QED BY <1>7, <1>8, <1>9, <1>10, <1>11, <1>12 DEF TInv

LEMMA PaymentKeeps ==
  ASSUME TInv, NEW w \in Warehouses, NEW d \in Districts, NEW c \in Customers,
         NEW amount \in Payments, NEW time \in 0..MaxTime, Payment(w, d, c, amount, time)
  PROVE  TInv'
<1> DEFINE key == <<c, d, w>>
           entry == [amount |-> amount, time |-> time]
           row == <<c, d, w, time>>
           puts == [k \in {row} |-> amount]
<1>1. /\ UNCHANGED <<next_o, next_d, stock, orders, orderLines, lastOrder>>
      /\ history' = With(history, puts)
      /\ committed' = [committed EXCEPT ![key] = Append(@, entry)]
  BY DEF Payment, HistoryKey
<1>2. key \in CDW /\ entry \in [amount : Payments, time : 0..MaxTime]
  BY DEF CDW
<1>3. DenseOrders' /\ DenseLines' /\ Numbered' /\ DeliveredInOrder'
  <2>1. DenseOrders' /\ DenseLines'
    BY <1>1 DEF TInv, DenseOrders, DenseLines
  <2>2. Numbered'
    BY <1>1 DEF TInv, Numbered
  <2>3. DeliveredInOrder'
    BY <1>1 DEF TInv, DeliveredInOrder, LineKeys
  <2> QED BY <2>1, <2>2, <2>3
<1>4. committed' \in [CDW -> Seq([amount : Payments, time : 0..MaxTime])]
  <2> DEFINE Entries == [amount : Payments, time : 0..MaxTime]
  <2> HIDE DEF key, entry, Entries
  <2>1. committed \in [CDW -> Seq(Entries)] /\ entry \in Entries
    BY <1>2 DEF TInv, Typed, Entries
  <2>2. Append(committed[key], entry) \in Seq(Entries)
    BY <1>2, <2>1
  <2>3. committed' \in [CDW -> Seq(Entries)]
    BY <1>1, <2>1, <2>2
  <2> QED BY <2>3 DEF Entries
<1>5. Typed'
  BY <1>1, <1>4 DEF TInv, Typed
<1>6. /\ DOMAIN history' = DOMAIN history \cup {row}
      /\ history'[row] = amount
      /\ \A k \in DOMAIN history : k # row => history'[k] = history[k]
  <2>1. DOMAIN puts = {row} /\ puts[row] = amount
    OBVIOUS
  <2> HIDE DEF puts, row
  <2>2. /\ DOMAIN With(history, puts) = DOMAIN history \cup DOMAIN puts
        /\ \A k \in DOMAIN puts : With(history, puts)[k] = puts[k]
        /\ \A k \in DOMAIN history \ DOMAIN puts : With(history, puts)[k] = history[k]
    BY WithRows
  <2> QED BY <1>1, <2>1, <2>2
<1>7. HistoryKeepsPayments'
  <2> SUFFICES ASSUME NEW r \in CDW
               PROVE  /\ \A n \in DOMAIN committed'[r] :
                           \/ \E m \in n + 1 .. Len(committed'[r]) :
                                committed'[r][m].time = committed'[r][n].time
                           \/ LET h == <<r[1], r[2], r[3], committed'[r][n].time>>
                              IN  h \in DOMAIN history' /\ history'[h] = committed'[r][n].amount
                      /\ \A k \in DOMAIN history' :
                           <<k[1], k[2], k[3]>> = r =>
                             \E n \in DOMAIN committed'[r] : committed'[r][n].time = k[4]
    BY DEF HistoryKeepsPayments
  <2>1. r = <<r[1], r[2], r[3]>>
    BY DEF CDW
  <2>2. /\ \A n \in DOMAIN committed[r] :
             \/ \E m \in n + 1 .. Len(committed[r]) : committed[r][m].time = committed[r][n].time
             \/ LET h == <<r[1], r[2], r[3], committed[r][n].time>>
                IN  h \in DOMAIN history /\ history[h] = committed[r][n].amount
        /\ \A k \in DOMAIN history :
             <<k[1], k[2], k[3]>> = r =>
               \E n \in DOMAIN committed[r] : committed[r][n].time = k[4]
    BY DEF TInv, HistoryKeepsPayments
  <2>3. CASE r # key
    <3>1. committed'[r] = committed[r]
      BY <1>1, <2>3 DEF TInv, Typed
    <3>2. \A time2 : <<r[1], r[2], r[3], time2>> # row
      BY <2>1, <2>3
    <3>3. <<row[1], row[2], row[3]>> # r
      BY <2>3
    <3> HIDE DEF row, key
    <3> QED BY <1>6, <2>2, <3>1, <3>2, <3>3
  <2>4. CASE r = key
    <3> DEFINE made == committed[r]
               made2 == committed'[r]
    <3>1. made \in Seq([amount : Payments, time : 0..MaxTime])
      BY DEF TInv, Typed
    <3>2. made2 = Append(made, entry)
      BY <1>1, <1>2, <2>4 DEF TInv, Typed
    <3>3. /\ DOMAIN made = 1..Len(made) /\ Len(made) \in Nat
          /\ DOMAIN made2 = 1 .. Len(made) + 1 /\ Len(made2) = Len(made) + 1
          /\ \A n \in 1..Len(made) : made2[n] = made[n]
          /\ made2[Len(made) + 1] = entry
      <4> HIDE DEF entry, made, made2
      <4> QED BY <3>1, <3>2
    <3>4. row = <<r[1], r[2], r[3], time>> /\ row[4] = time
      BY <2>4
    <3>5. ASSUME NEW n \in 1 .. Len(made)
          PROVE  \/ \E m \in n + 1 .. Len(made2) : made2[m].time = made2[n].time
                 \/ LET h == <<r[1], r[2], r[3], made2[n].time>>
                    IN  h \in DOMAIN history' /\ history'[h] = made2[n].amount
      <4>1. CASE made[n].time = time
        <5>1. Len(made) + 1 \in n + 1 .. Len(made2) /\ made2[Len(made) + 1].time = time
          BY <3>3
        <5> QED BY <3>3, <4>1, <5>1
      <4>2. CASE made[n].time # time
        <5>1. <<r[1], r[2], r[3], made[n].time>> # row
          BY <3>4, <4>2
        <5>2. CASE \E m \in n + 1 .. Len(made) : made[m].time = made[n].time
          <6>1. PICK m \in n + 1 .. Len(made) : made[m].time = made[n].time
            BY <5>2
          <6>2. m \in n + 1 .. Len(made2) /\ made2[m].time = made2[n].time
            BY <3>3, <6>1
          <6> QED BY <6>2
        <5>3. CASE LET h == <<r[1], r[2], r[3], made[n].time>>
                   IN  h \in DOMAIN history /\ history[h] = made[n].amount
          <6> HIDE DEF row
          <6> QED BY <1>6, <3>3, <5>1, <5>3
        <5> QED BY <2>2, <3>3, <5>2, <5>3
      <4> QED BY <4>1, <4>2
    <3>6. LET h == <<r[1], r[2], r[3], made2[Len(made) + 1].time>>
          IN  h \in DOMAIN history' /\ history'[h] = made2[Len(made) + 1].amount
      <4>1. <<r[1], r[2], r[3], made2[Len(made) + 1].time>> = row
        BY <3>3, <3>4
      <4>2. made2[Len(made) + 1].amount = amount
        BY <3>3
      <4> HIDE DEF row
      <4> QED BY <1>6, <4>1, <4>2
    <3>7. ASSUME NEW k \in DOMAIN history', <<k[1], k[2], k[3]>> = r
          PROVE  \E n \in 1 .. Len(made) + 1 : made2[n].time = k[4]
      <4>1. CASE k = row
        BY <3>3, <3>4, <4>1
      <4>2. CASE k \in DOMAIN history
        BY <2>2, <3>3, <3>7, <4>2
      <4> HIDE DEF row
      <4> QED BY <1>6, <4>1, <4>2
    <3>8. \A n \in DOMAIN made2 : n \in 1..Len(made) \/ n = Len(made) + 1
      BY <3>3
    <3> HIDE DEF made
    <3> QED BY <3>3, <3>5, <3>6, <3>7, <3>8
  <2> QED BY <2>3, <2>4
<1> QED BY <1>3, <1>5, <1>7 DEF TInv

LEMMA DeliveryKeeps ==
  ASSUME TInv, NEW w \in Warehouses, NEW carrier \in Carriers, Delivery(w, carrier)
  PROVE  TInv'
<1> DEFINE lines == UNION {LineKeys(k) : k \in Oldest(w)}
           op == [k \in Oldest(w) |-> [orders[k] EXCEPT !.carrier = carrier]]
           lp == [l \in lines |-> Marked(orderLines[l])]
<1>1. /\ next_d' = [k \in DW |-> IF k[2] = w /\ k[1] \in Pending(w)
                                  THEN next_d[k] + 1 ELSE next_d[k]]
      /\ orders' = With(orders, op)
      /\ orderLines' = With(orderLines, lp)
      /\ UNCHANGED <<next_o, stock, lastOrder, history, committed>>
  BY DEF Delivery
<1>2. \A k : k \in Oldest(w) <=>
        \E d \in Pending(w) : k = <<next_d[<<d, w>>], d, w>>
  BY DEF Oldest
<1>3. ASSUME NEW d \in Districts
      PROVE  /\ <<d, w>> \in DW
             /\ next_d[<<d, w>>] \in Nat \ {0} /\ next_o[<<d, w>>] \in Nat
             /\ d \in Pending(w) <=> next_d[<<d, w>>] < next_o[<<d, w>>]
  BY DEF TInv, Typed, DW, Pending
<1>4. Oldest(w) \subseteq DOMAIN orders
  <2> SUFFICES ASSUME NEW d \in Pending(w) PROVE <<next_d[<<d, w>>], d, w>> \in DOMAIN orders
    BY <1>2
  <2>1. d \in Districts
    BY DEF Pending
  <2>2. next_d[<<d, w>>] \in 1 .. next_o[<<d, w>>] - 1
    BY <1>3, <2>1
  <2> QED BY <2>1, <2>2 DEF TInv, DenseOrders
<1>5. ASSUME NEW k \in DOMAIN orders
      PROVE  /\ k \in Oldest(w) <=> k[3] = w /\ k[1] = next_d[<<k[2], k[3]>>]
             /\ <<k[2], k[3]>> \in DW
             /\ next_d'[<<k[2], k[3]>>] =
                  IF k[3] = w /\ k[2] \in Pending(w)
                    THEN next_d[<<k[2], k[3]>>] + 1 ELSE next_d[<<k[2], k[3]>>]
  <2>1. /\ k = <<k[1], k[2], k[3]>> /\ k[2] \in Districts /\ k[3] \in Warehouses
        /\ k[1] \in Nat /\ k[1] < next_o[<<k[2], k[3]>>]
    BY OrderKeys DEF TInv
  <2>2. ASSUME k \in Oldest(w) PROVE k[3] = w /\ k[1] = next_d[<<k[2], k[3]>>]
    <3>1. PICK d \in Pending(w) : k = <<next_d[<<d, w>>], d, w>>
      BY <1>2, <2>2
    <3> QED BY <3>1
  <2>3. ASSUME k[3] = w, k[1] = next_d[<<k[2], k[3]>>] PROVE k \in Oldest(w)
    <3>1. k[2] \in Pending(w)
      BY <1>3, <2>1, <2>3
    <3> QED BY <1>2, <2>1, <2>3, <3>1
  <2>4. <<k[2], k[3]>> \in DW
    BY <2>1 DEF DW
  <2> QED BY <1>1, <2>2, <2>3, <2>4
<1>6. /\ DOMAIN orders' = DOMAIN orders
      /\ \A k \in Oldest(w) : orders'[k] = [orders[k] EXCEPT !.carrier = carrier]
      /\ \A k \in DOMAIN orders \ Oldest(w) : orders'[k] = orders[k]
  <2>1. DOMAIN op = Oldest(w) /\ \A k \in Oldest(w) : op[k] = [orders[k] EXCEPT !.carrier = carrier]
    OBVIOUS
  <2> HIDE DEF op
  <2>2. /\ DOMAIN With(orders, op) = DOMAIN orders \cup DOMAIN op
        /\ \A k \in DOMAIN op : With(orders, op)[k] = op[k]
        /\ \A k \in DOMAIN orders \ DOMAIN op : With(orders, op)[k] = orders[k]
    BY WithRows
  <2> QED BY <1>1, <1>4, <2>1, <2>2
<1>7. \A k \in DOMAIN orders :
        /\ orders'[k] \in Orders /\ orders'[k].c = orders[k].c /\ orders'[k].cnt = orders[k].cnt
        /\ orders'[k].carrier = IF k \in Oldest(w) THEN carrier ELSE orders[k].carrier
  <2>1. \A k \in DOMAIN orders : orders[k] \in Orders
    BY DEF TInv, Typed
  <2> QED BY <1>6, <2>1 DEF Orders
<1>8. /\ DOMAIN orderLines' = DOMAIN orderLines
      /\ \A l \in lines : orderLines'[l] \in OrderLines /\ orderLines'[l].delivered = TRUE
      /\ \A l \in DOMAIN orderLines \ lines : orderLines'[l] = orderLines[l]
  <2>1. lines \subseteq DOMAIN orderLines
    <3> SUFFICES ASSUME NEW k \in Oldest(w), NEW n \in 1..orders[k].cnt
                 PROVE  LineKey(k, n) \in DOMAIN orderLines
      BY DEF LineKeys
    <3> QED BY <1>4 DEF TInv, DenseLines
  <2>2. /\ DOMAIN lp = lines
        /\ \A l \in lines : lp[l] \in OrderLines /\ lp[l].delivered = TRUE
    <3>1. DOMAIN lp = lines /\ \A l \in lines : lp[l] = [orderLines[l] EXCEPT !.delivered = TRUE]
      BY DEF Marked
    <3>2. \A l \in lines : orderLines[l] \in OrderLines
      BY <2>1 DEF TInv, Typed
    <3> HIDE DEF lp, lines
    <3> QED BY <3>1, <3>2 DEF OrderLines
  <2> HIDE DEF lp, lines
  <2>3. /\ DOMAIN With(orderLines, lp) = DOMAIN orderLines \cup DOMAIN lp
        /\ \A l \in DOMAIN lp : With(orderLines, lp)[l] = lp[l]
        /\ \A l \in DOMAIN orderLines \ DOMAIN lp : With(orderLines, lp)[l] = orderLines[l]
    BY WithRows
  <2> QED BY <1>1, <2>1, <2>2, <2>3
<1>9. Typed' /\ DenseOrders' /\ DenseLines' /\ Numbered'
  <2>1. next_d' \in [DW -> Nat \ {0}]
    BY <1>1 DEF TInv, Typed
  <2>6. \A l \in DOMAIN orderLines' : orderLines'[l] \in OrderLines
    <3> HIDE DEF lines
    <3> QED BY <1>8 DEF TInv, Typed
  <2>2. Typed'
    BY <1>1, <1>6, <1>7, <2>1, <2>6 DEF TInv, Typed
  <2>3. DenseOrders'
    BY <1>1, <1>6 DEF TInv, DenseOrders
  <2>4. DenseLines'
    BY <1>6, <1>7, <1>8 DEF TInv, DenseLines
  <2>5. Numbered'
    <3> HIDE DEF op, lp, lines
    <3>1. /\ lastOrder' = lastOrder /\ DOMAIN orders' = DOMAIN orders
          /\ \A k \in DOMAIN orders : orders'[k].c = orders[k].c
      BY <1>1, <1>6, <1>7
    <3> QED BY <3>1 DEF TInv, Numbered
  <2> QED BY <2>2, <2>3, <2>4, <2>5
<1>10. HistoryKeepsPayments'
  BY <1>1 DEF TInv, HistoryKeepsPayments
<1>11. DeliveredInOrder'
  <2>1. \A k \in DW : next_d'[k] <= next_o'[k]
    <3> SUFFICES ASSUME NEW k \in DW PROVE next_d'[k] <= next_o'[k]
      OBVIOUS
    <3>1. next_d[k] <= next_o[k] /\ next_d[k] \in Nat /\ next_o[k] \in Nat
      BY DEF TInv, Typed, DeliveredInOrder
    <3>2. k[2] = w /\ k[1] \in Pending(w) => next_d[k] < next_o[k]
      BY DEF Pending, DW
    <3> QED BY <1>1, <3>1, <3>2
  <2>2. ASSUME NEW k \in DOMAIN orders
        PROVE  LET yes == k[1] < next_d'[<<k[2], k[3]>>]
               IN  /\ yes <=> orders'[k].carrier # NoCarrier
                   /\ \A n \in 1..orders'[k].cnt : orderLines'[LineKey(k, n)].delivered <=> yes
    <3> DEFINE next == next_d[<<k[2], k[3]>>]
    <3>1. /\ k[1] < next <=> orders[k].carrier # NoCarrier
          /\ \A n \in 1..orders[k].cnt : orderLines[LineKey(k, n)].delivered <=> k[1] < next
      BY DEF TInv, DeliveredInOrder, LineKeys
    <3>2. /\ k = <<k[1], k[2], k[3]>> /\ k[2] \in Districts /\ k[1] \in Nat
          /\ <<k[2], k[3]>> \in DW /\ next \in Nat
          /\ k[1] < next_o[<<k[2], k[3]>>]
      BY <1>5, OrderKeys DEF TInv, Typed
    <3>3. CASE k \in Oldest(w)
      <4>1. k[3] = w /\ k[1] = next /\ k[2] \in Pending(w)
        BY <1>3, <1>5, <3>2, <3>3
      <4>2. k[1] < next_d'[<<k[2], k[3]>>]
        BY <1>5, <3>2, <4>1
      <4>3. orders'[k].carrier # NoCarrier
        BY <1>7, <3>3, TpccAssumption
      <4>4. \A n \in 1..orders[k].cnt : LineKey(k, n) \in lines
        BY <3>3 DEF LineKeys
      <4>5. \A n \in 1..orders'[k].cnt : orderLines'[LineKey(k, n)].delivered = TRUE
        <5> HIDE DEF lines, lp, op
        <5> QED BY <1>7, <1>8, <4>4
      <4> QED BY <4>2, <4>3, <4>5
    <3>4. CASE k \notin Oldest(w)
      <4>1. k[1] < next_d'[<<k[2], k[3]>>] <=> k[1] < next
        BY <1>5, <3>2, <3>4
      <4>2. orders'[k].carrier = orders[k].carrier /\ orders'[k].cnt = orders[k].cnt
        BY <1>7, <3>4
      <4>3. ASSUME NEW n \in 1..orders[k].cnt PROVE orderLines'[LineKey(k, n)] = orderLines[LineKey(k, n)]
        <5>1. LineKey(k, n) \in DOMAIN orderLines
          BY DEF TInv, DenseLines
        <5>2. LineKey(k, n) \notin lines
          <6>1. ASSUME NEW j \in Oldest(w), NEW m, LineKey(k, n) = LineKey(j, m) PROVE FALSE
            <7>1. j = <<j[1], j[2], j[3]>>
              BY <1>4, OrderKeys DEF TInv
            <7>2. k[1] = j[1] /\ k[2] = j[2] /\ k[3] = j[3]
              BY <6>1 DEF LineKey
            <7>3. k = j
              BY <3>2, <7>1, <7>2
            <7> QED BY <3>4, <7>3
          <6> QED BY <6>1 DEF LineKeys
        <5> HIDE DEF lines, lp, op
        <5> QED BY <1>8, <5>1, <5>2
      <4> HIDE DEF next, lines, lp, op
      <4> QED BY <3>1, <4>1, <4>2, <4>3
    <3> QED BY <3>3, <3>4
  <2>3. ASSUME NEW k \in DOMAIN orders'
        PROVE  LET yes == k[1] < next_d'[<<k[2], k[3]>>]
               IN  /\ yes <=> orders'[k].carrier # NoCarrier
                   /\ \A l \in LineKeys(k)' : orderLines'[l].delivered <=> yes
    <3>1. k \in DOMAIN orders
      BY <1>6
    <3> QED BY <2>2, <3>1 DEF LineKeys
  <2> QED BY <2>1, <2>3 DEF DeliveredInOrder
<1> QED BY <1>9, <1>10, <1>11 DEF TInv

LEMMA StandsStill ==
  ASSUME TInv, UNCHANGED tables, UNCHANGED committed
  PROVE  TInv'
<1> USE DEF TInv, tables
<1>1. Typed' /\ Numbered'
  BY DEF Typed, Numbered
<1>2. DenseOrders' /\ DenseLines'
  BY DEF DenseOrders, DenseLines
<1>3. DeliveredInOrder'
  BY DEF DeliveredInOrder, LineKeys
<1>4. HistoryKeepsPayments'
  BY DEF HistoryKeepsPayments
<1> QED BY <1>1, <1>2, <1>3, <1>4

LEMMA StoredKeeps == TInv /\ [Next]_vars => TInv'
<1> SUFFICES ASSUME TInv, [Next]_vars PROVE TInv'
  OBVIOUS
<1>1. CASE UNCHANGED vars
  BY <1>1, StandsStill DEF vars
<1>2. ASSUME NEW w \in Warehouses, Post(w) PROVE TInv'
  BY <1>2, PutOrderKeeps, PaymentKeeps, DeliveryKeeps DEF Post
<1> QED BY <1>1, <1>2 DEF Next

----------------------------------------------------------------------------
(* What the invariant means for the readers.                               *)

LEMMA MaxIs ==
  ASSUME NEW S \in SUBSET Int, NEW m \in S, \A y \in S : m >= y
  PROVE  Max(S) = m
<1>1. Max(S) \in S /\ \A y \in S : Max(S) >= y
  <2>1. \E x \in S : \A y \in S : x >= y
    OBVIOUS
  <2> QED BY <2>1, Zenon DEF Max
<1>2. Max(S) \in Int /\ m \in Int /\ Max(S) >= m /\ m >= Max(S)
  BY <1>1
<1> QED BY <1>2

LEMMA OrderHasLines ==
  ASSUME DenseLines, NEW k \in DOMAIN orders
  PROVE  LineKeys(k) \subseteq DOMAIN orderLines
BY DEF DenseLines, LineKeys

LEMMA NewestInvariant == TInv => StatusFindsTheNewest
<1> SUFFICES ASSUME TInv PROVE StatusFindsTheNewest
  OBVIOUS
<1>1. ASSUME NEW r \in CDW
      PROVE  LET own == {k[1] : k \in {k \in DOMAIN orders : <<orders[k].c, k[2], k[3]>> = r}}
             IN  /\ lastOrder[r] = Max(own \cup {0})
                 /\ OrderStatusMisses(r[3], r[2], r[1]) <=> own = {}
  <2> DEFINE rows == {k \in DOMAIN orders : <<orders[k].c, k[2], k[3]>> = r}
             own == {k[1] : k \in rows}
             last == lastOrder[r]
  <2>1. r = <<r[1], r[2], r[3]>> /\ r[2] \in Districts /\ r[3] \in Warehouses
    BY DEF CDW
  <2>2. last \in Nat
    BY DEF TInv, Typed
  <2>3. \A k \in rows : k[1] \in Nat /\ 1 <= k[1] /\ k[1] <= last
    <3> TAKE k \in rows
    <3>1. k[2] = r[2] /\ k[3] = r[3] /\ orders[k].c = r[1]
      OBVIOUS
    <3> QED BY <3>1, OrderKeys DEF TInv, Numbered
  <2>4. last # 0 => last \in own /\ <<last, r[2], r[3]>> \in DOMAIN orders
    <3> SUFFICES ASSUME last # 0 PROVE last \in own /\ <<last, r[2], r[3]>> \in DOMAIN orders
      OBVIOUS
    <3>1. PICK k \in DOMAIN orders : k = <<last, r[2], r[3]>> /\ orders[k].c = r[1]
      BY DEF TInv, Numbered
    <3>2. k \in rows /\ k[1] = last
      BY <2>1, <3>1
    <3> QED BY <3>1, <3>2
  <2>5. lastOrder[r] = Max(own \cup {0})
    <3>1. own \cup {0} \in SUBSET Int /\ last \in own \cup {0} /\ \A y \in own \cup {0} : last >= y
      BY <2>2, <2>3, <2>4
    <3> HIDE DEF own, last
    <3>2. Max(own \cup {0}) = last
      BY <3>1, MaxIs
    <3> QED BY <3>2 DEF last
  <2>6. own = {} <=> last = 0
    BY <2>2, <2>3, <2>4
  <2>7. <<0, r[2], r[3]>> \notin DOMAIN orders
    <3>1. ASSUME <<0, r[2], r[3]>> \in DOMAIN orders PROVE FALSE
      <4>1. 1 <= <<0, r[2], r[3]>>[1]
        BY <3>1, OrderKeys DEF TInv
      <4> QED BY <4>1
    <3> QED BY <3>1
  <2>8. OrderStatusMisses(r[3], r[2], r[1]) <=> last = 0
    <3>1. lastOrder[<<r[1], r[2], r[3]>>] = last
      BY <2>1
    <3> HIDE DEF last, own, rows
    <3>2. CASE last = 0
      BY <2>7, <3>1, <3>2 DEF OrderStatusMisses
    <3>3. CASE last # 0
      BY <2>4, <3>1, <3>3, OrderHasLines DEF OrderStatusMisses, TInv
    <3> QED BY <3>2, <3>3
  <2> HIDE DEF last, own, rows
  <2>9. /\ lastOrder[r] = Max(own \cup {0})
        /\ OrderStatusMisses(r[3], r[2], r[1]) <=> own = {}
    BY <2>5, <2>6, <2>8
  <2> QED BY <2>9 DEF own, rows
<1>2. ASSUME NEW k \in DW PROVE StockLevelMisses(k[2], k[1]) <=> next_o[k] <= Window
  <2>1. k = <<k[1], k[2]>> /\ k[1] \in Districts /\ k[2] \in Warehouses
    BY DEF DW
  <2>2. next_o[k] \in Nat \ {0} /\ next_o[<<k[1], k[2]>>] = next_o[k] /\ Window \in Nat \ {0}
    BY <2>1, TpccAssumption DEF TInv, Typed
  <2>3. \A o \in 1 .. next_o[k] - 1 : <<o, k[1], k[2]>> \in DOMAIN orders
    BY <2>1, <2>2 DEF TInv, DenseOrders
  <2>4. ASSUME next_o[k] <= Window PROVE StockLevelMisses(k[2], k[1])
    <3> DEFINE o == next_o[k] - Window
    <3>1. o \in next_o[k] - Window .. next_o[k] - 1 /\ ~(1 <= o)
      BY <2>2, <2>4
    <3>2. <<o, k[1], k[2]>> \notin DOMAIN orders
      <4>1. ASSUME <<o, k[1], k[2]>> \in DOMAIN orders PROVE FALSE
        <5>1. 1 <= <<o, k[1], k[2]>>[1]
          BY <4>1, OrderKeys DEF TInv
        <5> QED BY <3>1, <5>1
      <4> QED BY <4>1
    <3> HIDE DEF o
    <3> QED BY <2>2, <3>1, <3>2 DEF StockLevelMisses
  <2>5. ASSUME Window < next_o[k], StockLevelMisses(k[2], k[1]) PROVE FALSE
    <3>1. PICK o \in next_o[k] - Window .. next_o[k] - 1 :
            <<o, k[1], k[2]>> \notin DOMAIN orders
              \/ ~(LineKeys(<<o, k[1], k[2]>>) \subseteq DOMAIN orderLines)
      BY <2>2, <2>5 DEF StockLevelMisses
    <3>2. o \in 1 .. next_o[k] - 1
      BY <2>2, <2>5
    <3> QED BY <2>3, <3>1, <3>2, OrderHasLines DEF TInv
  <2> QED BY <2>2, <2>4, <2>5
<1> QED BY <1>1, <1>2 DEF StatusFindsTheNewest

----------------------------------------------------------------------------
(* Finite tables, and what a new order and a delivery put in them.         *)

(* Finite sets.                                                            *)
LEMMA ImageIsFinite ==
  ASSUME NEW S, IsFiniteSet(S), NEW f, DOMAIN f = S
  PROVE  IsFiniteSet({f[x] : x \in S})
<1> DEFINE T == {f[x] : x \in S}
           g == [x \in S |-> f[x]]
<1>1. g \in Surjection(S, T)
  BY DEF Surjection
<1> HIDE DEF T, g
<1>2. IsFiniteSet(T)
  BY <1>1, FS_Surjection
<1> QED BY <1>2 DEF T

LEMMA LinesAreFinite ==
  ASSUME NEW k, NEW n \in Nat
  PROVE  IsFiniteSet({LineKey(k, i) : i \in 1..n})
<1> DEFINE f == [i \in 1..n |-> LineKey(k, i)]
<1>1. IsFiniteSet(1..n)
  BY FS_Interval
<1>2. DOMAIN f = 1..n /\ {f[i] : i \in 1..n} = {LineKey(k, i) : i \in 1..n}
  OBVIOUS
<1> HIDE DEF f
<1> QED BY <1>1, <1>2, ImageIsFinite

(* The last of some positions in a list.                                   *)
LEMMA LastPosition ==
  ASSUME NEW n \in Nat, NEW S \in SUBSET (1..n), S # {}
  PROVE  Max(S) \in S /\ \A i \in S : i <= Max(S)
<1> DEFINE T == {n - i : i \in S}
<1>1. T \in SUBSET Nat /\ T # {}
  OBVIOUS
<1> HIDE DEF T
<1>2. PICK t \in T : \A u \in T : t <= u
  BY <1>1, LeastNumber
<1>3. PICK m \in S : t = n - m
  BY <1>2 DEF T
<1>4. \A i \in S : m >= i
  <2> TAKE i \in S
  <2>1. n - i \in T
    BY DEF T
  <2> QED BY <1>2, <1>3, <2>1
<1>5. Max(S) = m
  <2>1. S \in SUBSET Int
    OBVIOUS
  <2> QED BY <1>4, <2>1, MaxIs
<1> QED BY <1>4, <1>5

(* The tables with one more order, of customer c, under key.               *)
Entered(key, c, lines) ==
  /\ key \notin DOMAIN orders
  /\ DOMAIN orders' = DOMAIN orders \cup {key}
  /\ orders'[key] = [c |-> c, cnt |-> Len(lines), carrier |-> NoCarrier]
  /\ \A k \in DOMAIN orders : orders'[k] = orders[k]
  /\ Len(lines) \in Nat
  /\ DOMAIN orderLines' = DOMAIN orderLines \cup {LineKey(key, n) : n \in 1..Len(lines)}
  /\ \A n \in 1..Len(lines) :
       /\ lines[n] \in Lines
       /\ LineKey(key, n) \notin DOMAIN orderLines
       /\ orderLines'[LineKey(key, n)] =
            [item |-> lines[n].item, s_w |-> lines[n].s_w, quantity |-> lines[n].quantity,
             amount |-> Amount(lines[n]), delivered |-> FALSE]
  /\ \A l \in DOMAIN orderLines : orderLines'[l] = orderLines[l]

(* NewOrder leaves the tables with that order and what was there before.   *)
LEMMA NewOrderEffect ==
  ASSUME TInv, NEW w \in Warehouses, NEW d \in Districts, NEW c \in Customers,
         NEW lines \in LineLists, NewOrder(w, d, c, lines)
  PROVE  \E key : key = <<next_o[<<d, w>>], d, w>> /\ Entered(key, c, lines)
<1> PICK key : key = <<next_o[<<d, w>>], d, w>>
  OBVIOUS
<1> SUFFICES Entered(key, c, lines)
  OBVIOUS
<1> DEFINE o == next_o[<<d, w>>]
           row == [c |-> c, cnt |-> Len(lines), carrier |-> NoCarrier]
           op == [k \in {key} |-> row]
           lp == LinePuts(o, d, w, lines)
<1>1. /\ orders' = With(orders, op)
      /\ orderLines' = With(orderLines, lp)
  BY DEF NewOrder, PutOrder
<1>2. <<d, w>> \in DW /\ o \in Nat \ {0} /\ lines \in Seq(Lines)
  BY TpccAssumption DEF DW, TInv, Typed
<1>3. key \notin DOMAIN orders
  <2>1. ASSUME key \in DOMAIN orders PROVE FALSE
    <3>1. key[1] < next_o[<<key[2], key[3]>>]
      BY <2>1, OrderKeys DEF TInv
    <3> QED BY <1>2, <3>1
  <2> QED BY <2>1
<1>4. /\ DOMAIN orders' = DOMAIN orders \cup {key}
      /\ orders'[key] = row
      /\ \A k \in DOMAIN orders : orders'[k] = orders[k]
  <2>1. DOMAIN op = {key} /\ op[key] = row
    OBVIOUS
  <2> HIDE DEF op, row
  <2>2. /\ DOMAIN With(orders, op) = DOMAIN orders \cup DOMAIN op
        /\ \A k \in DOMAIN op : With(orders, op)[k] = op[k]
        /\ \A k \in DOMAIN orders \ DOMAIN op : With(orders, op)[k] = orders[k]
    BY WithRows
  <2> QED BY <1>1, <1>3, <2>1, <2>2
<1>5. /\ Len(lines) \in Nat
      /\ DOMAIN lp = {LineKey(key, n) : n \in 1..Len(lines)}
  <2>1. DOMAIN lp = {LineKey(<<o, d, w>>, n) : n \in 1..Len(lines)}
    <3> HIDE DEF o
    <3>1. /\ Len(lines) \in Nat
          /\ DOMAIN LinePuts(o, d, w, lines) = {LineKey(<<o, d, w>>, n) : n \in 1..Len(lines)}
          /\ \A l \in DOMAIN LinePuts(o, d, w, lines) :
              /\ LinePuts(o, d, w, lines)[l] \in OrderLines
              /\ LinePuts(o, d, w, lines)[l].delivered = FALSE
      BY LinePutsRows
    <3> QED BY <3>1
  <2>2. Len(lines) \in Nat
    BY <1>2
  <2> QED BY <2>1, <2>2
<1>6. ASSUME NEW n \in 1..Len(lines)
      PROVE  /\ lines[n] \in Lines
             /\ LineKey(key, n) \notin DOMAIN orderLines
             /\ lp[LineKey(key, n)] =
                  [item |-> lines[n].item, s_w |-> lines[n].s_w, quantity |-> lines[n].quantity,
                   amount |-> Amount(lines[n]), delivered |-> FALSE]
  <2>1. n \in DOMAIN lines /\ lines[n] \in Lines
    BY <1>2
  <2>2. LineKey(key, n) = <<o, d, w, n>>
    BY DEF LineKey
  <2>3. lp[LineKey(key, n)] =
          [item |-> lines[n].item, s_w |-> lines[n].s_w, quantity |-> lines[n].quantity,
           amount |-> Amount(lines[n]), delivered |-> FALSE]
    <3>1. <<o, d, w, n>> \in {<<o, d, w, m>> : m \in DOMAIN lines} /\ <<o, d, w, n>>[4] = n
      BY <2>1
    <3>2. lp[<<o, d, w, n>>] =
            [item |-> lines[<<o, d, w, n>>[4]].item, s_w |-> lines[<<o, d, w, n>>[4]].s_w,
             quantity |-> lines[<<o, d, w, n>>[4]].quantity,
             amount |-> Amount(lines[<<o, d, w, n>>[4]]), delivered |-> FALSE]
      BY <3>1, Zenon DEF LinePuts
    <3> QED BY <2>2, <3>1, <3>2
  <2>4. LineKey(key, n) \notin DOMAIN orderLines
    <3> SUFFICES ASSUME LineKey(key, n) \in DOMAIN orderLines PROVE FALSE
      OBVIOUS
    <3>1. PICK k \in DOMAIN orders : \E m \in 1..orders[k].cnt : LineKey(key, n) = LineKey(k, m)
      BY DEF TInv, DenseLines
    <3>2. k = <<k[1], k[2], k[3]>>
      BY OrderKeys DEF TInv
    <3>3. k = key
      BY <3>1, <3>2 DEF LineKey
    <3> QED BY <1>3, <3>3
  <2> QED BY <2>1, <2>3, <2>4
<1>7. /\ DOMAIN orderLines' = DOMAIN orderLines \cup DOMAIN lp
      /\ \A l \in DOMAIN lp : orderLines'[l] = lp[l]
      /\ \A l \in DOMAIN orderLines \ DOMAIN lp : orderLines'[l] = orderLines[l]
  <2> HIDE DEF lp
  <2>1. /\ DOMAIN With(orderLines, lp) = DOMAIN orderLines \cup DOMAIN lp
        /\ \A l \in DOMAIN lp : With(orderLines, lp)[l] = lp[l]
        /\ \A l \in DOMAIN orderLines \ DOMAIN lp : With(orderLines, lp)[l] = orderLines[l]
    BY WithRows
  <2> QED BY <1>1, <2>1
<1> HIDE DEF lp
<1>8. \A n \in 1..Len(lines) :
        orderLines'[LineKey(key, n)] =
          [item |-> lines[n].item, s_w |-> lines[n].s_w, quantity |-> lines[n].quantity,
           amount |-> Amount(lines[n]), delivered |-> FALSE]
  BY <1>5, <1>6, <1>7
<1>9. \A l \in DOMAIN orderLines : orderLines'[l] = orderLines[l]
  BY <1>5, <1>6, <1>7
<1> QED BY <1>3, <1>4, <1>5, <1>6, <1>7, <1>8, <1>9 DEF Entered

(* What a delivery leaves in the tables.                                   *)
LEMMA DeliveryEffect ==
  ASSUME TInv, NEW w \in Warehouses, NEW carrier \in Carriers, Delivery(w, carrier)
  PROVE  /\ DOMAIN orders' = DOMAIN orders
         /\ \A k \in DOMAIN orders :
              /\ k \in Oldest(w) <=> k[3] = w /\ k[1] = next_d[<<k[2], w>>]
              /\ orders'[k].c = orders[k].c /\ orders'[k].cnt = orders[k].cnt
              /\ orders'[k] \in Orders
              /\ orders'[k].carrier = IF k \in Oldest(w) THEN carrier ELSE orders[k].carrier
         /\ DOMAIN orderLines' = DOMAIN orderLines
         /\ \A l \in DOMAIN orderLines :
              /\ orderLines'[l] \in OrderLines
              /\ orderLines'[l].item = orderLines[l].item
              /\ orderLines'[l].s_w = orderLines[l].s_w
              /\ orderLines'[l].quantity = orderLines[l].quantity
              /\ orderLines'[l].amount = orderLines[l].amount
         /\ \A d \in Pending(w) : <<next_d[<<d, w>>], d, w>> \in DOMAIN orders
         /\ Oldest(w) \subseteq DOMAIN orders
<1> DEFINE lines == UNION {LineKeys(k) : k \in Oldest(w)}
           op == [k \in Oldest(w) |-> [orders[k] EXCEPT !.carrier = carrier]]
           lp == [l \in lines |-> Marked(orderLines[l])]
<1>1. orders' = With(orders, op) /\ orderLines' = With(orderLines, lp)
  BY DEF Delivery
<1>2. \A d \in Pending(w) : <<next_d[<<d, w>>], d, w>> \in DOMAIN orders
  <2> TAKE d \in Pending(w)
  <2>1. d \in Districts /\ next_d[<<d, w>>] < next_o[<<d, w>>]
    BY DEF Pending
  <2>2. next_d[<<d, w>>] \in Nat \ {0} /\ next_o[<<d, w>>] \in Nat
    BY <2>1 DEF TInv, Typed, DW
  <2>3. next_d[<<d, w>>] \in 1 .. next_o[<<d, w>>] - 1
    BY <2>1, <2>2
  <2> QED BY <2>1, <2>3 DEF TInv, DenseOrders
<1>3. Oldest(w) \subseteq DOMAIN orders
  BY <1>2 DEF Oldest
<1>4. ASSUME NEW k \in DOMAIN orders
      PROVE  k \in Oldest(w) <=> k[3] = w /\ k[1] = next_d[<<k[2], w>>]
  <2>1. /\ k = <<k[1], k[2], k[3]>> /\ k[2] \in Districts /\ k[3] \in Warehouses
        /\ k[1] < next_o[<<k[2], k[3]>>]
    BY OrderKeys DEF TInv
  <2>2. ASSUME k \in Oldest(w) PROVE k[3] = w /\ k[1] = next_d[<<k[2], w>>]
    <3>1. PICK d \in Pending(w) : k = <<next_d[<<d, w>>], d, w>>
      BY <2>2 DEF Oldest
    <3> QED BY <3>1
  <2>3. ASSUME k[3] = w, k[1] = next_d[<<k[2], w>>] PROVE k \in Oldest(w)
    <3>1. k[2] \in Pending(w)
      BY <2>1, <2>3 DEF Pending
    <3>2. k = <<next_d[<<k[2], w>>], k[2], w>>
      BY <2>1, <2>3
    <3> QED BY <3>1, <3>2 DEF Oldest
  <2> QED BY <2>2, <2>3
<1>5. /\ DOMAIN orders' = DOMAIN orders
      /\ \A k \in Oldest(w) : orders'[k] = [orders[k] EXCEPT !.carrier = carrier]
      /\ \A k \in DOMAIN orders \ Oldest(w) : orders'[k] = orders[k]
  <2>1. DOMAIN op = Oldest(w) /\ \A k \in Oldest(w) : op[k] = [orders[k] EXCEPT !.carrier = carrier]
    OBVIOUS
  <2> HIDE DEF op
  <2>2. /\ DOMAIN With(orders, op) = DOMAIN orders \cup DOMAIN op
        /\ \A k \in DOMAIN op : With(orders, op)[k] = op[k]
        /\ \A k \in DOMAIN orders \ DOMAIN op : With(orders, op)[k] = orders[k]
    BY WithRows
  <2> QED BY <1>1, <1>3, <2>1, <2>2
<1>6. \A k \in DOMAIN orders :
        /\ orders'[k].c = orders[k].c /\ orders'[k].cnt = orders[k].cnt
        /\ orders'[k] \in Orders
        /\ orders'[k].carrier = IF k \in Oldest(w) THEN carrier ELSE orders[k].carrier
  <2>1. \A k \in DOMAIN orders : orders[k] \in Orders
    BY DEF TInv, Typed
  <2> QED BY <1>5, <2>1 DEF Orders
<1>7. lines \subseteq DOMAIN orderLines
  <2> SUFFICES ASSUME NEW k \in Oldest(w), NEW n \in 1..orders[k].cnt
               PROVE  LineKey(k, n) \in DOMAIN orderLines
    BY DEF LineKeys
  <2> QED BY <1>3 DEF TInv, DenseLines
<1>8. DOMAIN lp = lines /\ \A l \in lines : lp[l] = [orderLines[l] EXCEPT !.delivered = TRUE]
  BY DEF Marked
<1>9. /\ DOMAIN orderLines' = DOMAIN orderLines
      /\ \A l \in lines : orderLines'[l] = [orderLines[l] EXCEPT !.delivered = TRUE]
      /\ \A l \in DOMAIN orderLines \ lines : orderLines'[l] = orderLines[l]
  <2> HIDE DEF lp, lines
  <2>1. /\ DOMAIN With(orderLines, lp) = DOMAIN orderLines \cup DOMAIN lp
        /\ \A l \in DOMAIN lp : With(orderLines, lp)[l] = lp[l]
        /\ \A l \in DOMAIN orderLines \ DOMAIN lp : With(orderLines, lp)[l] = orderLines[l]
    BY WithRows
  <2> QED BY <1>1, <1>7, <1>8, <2>1
<1>10. \A l \in DOMAIN orderLines :
         /\ orderLines'[l] \in OrderLines
         /\ orderLines'[l].item = orderLines[l].item
         /\ orderLines'[l].s_w = orderLines[l].s_w
         /\ orderLines'[l].quantity = orderLines[l].quantity
         /\ orderLines'[l].amount = orderLines[l].amount
  <2> HIDE DEF lp, lines
  <2> TAKE l \in DOMAIN orderLines
  <2>1. orderLines[l] \in OrderLines
    BY DEF TInv, Typed
  <2>2. orderLines'[l] = orderLines[l] \/ orderLines'[l] = [orderLines[l] EXCEPT !.delivered = TRUE]
    BY <1>9
  <2> QED BY <2>1, <2>2 DEF OrderLines
<1> HIDE DEF lp, lines, op
<1> QED BY <1>2, <1>3, <1>4, <1>5, <1>6, <1>9, <1>10

----------------------------------------------------------------------------
(* The parts of MoneyAddsUp and StockAccountsForSales.                     *)

Delivered(r) ==
  {k \in DOMAIN orders : /\ orders[k].c = r[1] /\ k[2] = r[2] /\ k[3] = r[3]
                         /\ orders[k].carrier # NoCarrier}

Charged(r) == SumFunction([k \in Delivered(r) |-> Total(k)])

LastLines(s, k) ==
  {l \in LineKeys(k) :
     /\ StockKey(orderLines[l]) = s
     /\ \A m \in LineKeys(k) : StockKey(orderLines[m]) = s => m[4] <= l[4]}

SoldLines(s) == UNION {LastLines(s, k) : k \in DOMAIN orders}

Sold(s) == [l \in SoldLines(s) |-> orderLines[l].quantity]

LEMMA StockForm ==
  StockAccountsForSales <=>
    \A s \in DOMAIN stock : (LoadedStock - SumFunction(Sold(s)) - stock[s]) % 100 = 0
BY DEF StockAccountsForSales, Sold, SoldLines, LastLines

LEMMA MoneyForm ==
  MoneyAddsUp <=>
    /\ \A w \in Warehouses :
         w_ytd[w] = SumFunction([d \in Districts |-> d_ytd[<<d, w>>]])
    /\ \A k \in DW :
         d_ytd[k] = SumFunction([c \in Customers |-> customer[<<c, k[1], k[2]>>].ytd])
    /\ \A r \in CDW : /\ customer[r].deliveries = Cardinality(Delivered(r))
                      /\ customer[r].balance + customer[r].ytd = Charged(r)
BY DEF MoneyAddsUp, Delivered, Charged

FiniteTables == IsFiniteSet(DOMAIN orders) /\ IsFiniteSet(DOMAIN orderLines)

(* Sums are over what is in the tables, so the tables have to be finite and*)
(* typed for the money and the stock to be accounted for.                  *)
MInv ==
  /\ TInv
  /\ TypeOK
  /\ FiniteTables
  /\ MoneyAddsUp
  /\ StockAccountsForSales

(* An order keeps its total and its last lines if its lines keep theirs.   *)
LEMMA OrderStays ==
  ASSUME NEW k, orders'[k].cnt = orders[k].cnt,
         \A l \in LineKeys(k) : /\ orderLines'[l].item = orderLines[l].item
                                /\ orderLines'[l].s_w = orderLines[l].s_w
                                /\ orderLines'[l].amount = orderLines[l].amount
  PROVE  /\ LineKeys(k)' = LineKeys(k)
         /\ Total(k)' = Total(k)
         /\ \A s : LastLines(s, k)' = LastLines(s, k)
<1>1. LineKeys(k)' = LineKeys(k)
  BY DEF LineKeys
<1>2. Total(k)' = Total(k)
  <2>1. [l \in LineKeys(k)' |-> orderLines'[l].amount] = [l \in LineKeys(k) |-> orderLines[l].amount]
    BY <1>1
  <2> QED BY <2>1 DEF Total
<1>3. ASSUME NEW s PROVE LastLines(s, k)' = LastLines(s, k)
  <2>1. \A l \in LineKeys(k) : StockKey(orderLines'[l]) = StockKey(orderLines[l])
    BY DEF StockKey
  <2> QED BY <1>1, <2>1 DEF LastLines
<1> QED BY <1>1, <1>2, <1>3

(* What an order comes to is a number.                                     *)
LEMMA TotalIsNat ==
  ASSUME Typed, DenseLines, NEW k \in DOMAIN orders
  PROVE  Total(k) \in Nat
<1> DEFINE f == [l \in LineKeys(k) |-> orderLines[l].amount]
<1>1. IsFiniteSet(LineKeys(k))
  <2>1. orders[k].cnt \in Nat
    BY DEF Typed, Orders
  <2>2. IsFiniteSet({LineKey(k, i) : i \in 1..orders[k].cnt})
    BY <2>1, LinesAreFinite
  <2> QED BY <2>2 DEF LineKeys
<1>2. DOMAIN f = LineKeys(k) /\ \A l \in DOMAIN f : f[l] \in Nat
  <2>1. \A l \in LineKeys(k) : orderLines[l] \in OrderLines
    BY OrderHasLines DEF Typed
  <2> QED BY <2>1 DEF OrderLines
<1>3. Total(k) = SumFunction(f)
  BY DEF Total
<1> HIDE DEF f
<1> QED BY <1>1, <1>2, <1>3, SumTyped

LEMMA DeliveredAreFinite ==
  ASSUME FiniteTables, NEW r
  PROVE  IsFiniteSet(Delivered(r))
<1>1. Delivered(r) \subseteq DOMAIN orders
  BY DEF Delivered
<1> QED BY <1>1, FS_Subset DEF FiniteTables

LEMMA SoldIsTyped ==
  ASSUME Typed, DenseLines, FiniteTables, NEW s
  PROVE  /\ DOMAIN Sold(s) \subseteq DOMAIN orderLines
         /\ IsFiniteSet(DOMAIN Sold(s))
         /\ \A l \in DOMAIN Sold(s) : Sold(s)[l] \in Nat /\ Sold(s)[l] = orderLines[l].quantity
         /\ SumFunction(Sold(s)) \in Nat
<1>1. DOMAIN Sold(s) = SoldLines(s) /\ \A l \in SoldLines(s) : Sold(s)[l] = orderLines[l].quantity
  BY DEF Sold
<1>2. SoldLines(s) \subseteq DOMAIN orderLines
  BY OrderHasLines DEF SoldLines, LastLines
<1>3. \A l \in SoldLines(s) : orderLines[l].quantity \in Nat
  <2>1. \A l \in SoldLines(s) : orderLines[l] \in OrderLines
    BY <1>2 DEF Typed
  <2> QED BY <2>1 DEF OrderLines
<1>4. IsFiniteSet(DOMAIN Sold(s))
  BY <1>1, <1>2, FS_Subset DEF FiniteTables
<1>5. SumFunction(Sold(s)) \in Nat
  BY <1>1, <1>3, <1>4, SumTyped
<1> QED BY <1>1, <1>2, <1>3, <1>4, <1>5

----------------------------------------------------------------------------
(* A new order.                                                            *)

LEMMA RefilledIsTyped ==
  ASSUME NEW s \in 1..100, NEW q \in 5..14
  PROVE  /\ Refilled(s, q) \in 1..100
         /\ Refilled(s, q) = s - q \/ Refilled(s, q) = s - q + 100
BY DEF Refilled

(* The line of an order that decides over the stock of s.                  *)
Naming(lines, s) == {n \in 1..Len(lines) : StockKey(lines[n]) = s}

LEMMA NamingLines ==
  ASSUME NEW lines \in LineLists, NEW s, Naming(lines, s) # {}
  PROVE  /\ Max(Naming(lines, s)) \in Naming(lines, s)
         /\ \A n \in Naming(lines, s) : n <= Max(Naming(lines, s))
         /\ Max(Naming(lines, s)) \in 1..Len(lines)
         /\ lines[Max(Naming(lines, s))] \in Lines
<1>1. lines \in Seq(Lines)
  BY TpccAssumption
<1>2. Len(lines) \in Nat /\ \A n \in 1..Len(lines) : lines[n] \in Lines
  BY <1>1
<1>3. Naming(lines, s) \in SUBSET (1..Len(lines))
  BY DEF Naming
<1>4. /\ Max(Naming(lines, s)) \in Naming(lines, s)
      /\ \A n \in Naming(lines, s) : n <= Max(Naming(lines, s))
  BY <1>2, <1>3, LastPosition
<1> QED BY <1>2, <1>3, <1>4

LEMMA StockAfterOrder ==
  ASSUME TypeOK, NEW w \in Warehouses, NEW d \in Districts, NEW c \in Customers,
         NEW lines \in LineLists, NewOrder(w, d, c, lines), NEW s \in Items \X Warehouses
  PROVE  /\ DOMAIN stock' = Items \X Warehouses
         /\ Naming(lines, s) = {} => stock'[s] = stock[s]
         /\ Naming(lines, s) # {} =>
              stock'[s] = Refilled(stock[s], lines[Max(Naming(lines, s))].quantity)
<1> DEFINE puts == StockPuts(lines, stock)
<1>1. lines \in Seq(Lines)
  BY TpccAssumption
<1>2. DOMAIN lines = 1..Len(lines)
  BY <1>1
<1>3. DOMAIN puts \subseteq Items \X Warehouses
  BY StockPutsRows
<1>4. s \in DOMAIN puts <=> Naming(lines, s) # {}
  BY <1>2 DEF StockPuts, Naming
<1>5. ASSUME s \in DOMAIN puts
      PROVE  puts[s] = Refilled(stock[s], lines[Max(Naming(lines, s))].quantity)
  <2>1. {n \in DOMAIN lines : StockKey(lines[n]) = s} = Naming(lines, s)
    BY <1>2 DEF Naming
  <2>2. puts[s] = Refilled(stock[s], lines[Max({n \in DOMAIN lines : StockKey(lines[n]) = s})].quantity)
    BY <1>5, Zenon DEF StockPuts
  <2> QED BY <2>1, <2>2
<1>6. /\ DOMAIN stock = Items \X Warehouses
      /\ DOMAIN stock' = DOMAIN stock \cup DOMAIN puts
      /\ \A k \in DOMAIN puts : stock'[k] = puts[k]
      /\ \A k \in DOMAIN stock \ DOMAIN puts : stock'[k] = stock[k]
  <2>1. stock' = With(stock, puts) /\ DOMAIN stock = Items \X Warehouses
    BY DEF NewOrder, PutOrder, TypeOK
  <2> HIDE DEF puts
  <2>2. /\ DOMAIN With(stock, puts) = DOMAIN stock \cup DOMAIN puts
        /\ \A k \in DOMAIN puts : With(stock, puts)[k] = puts[k]
        /\ \A k \in DOMAIN stock \ DOMAIN puts : With(stock, puts)[k] = stock[k]
    BY WithRows
  <2> QED BY <2>1, <2>2
<1> HIDE DEF puts
<1>7. DOMAIN stock' = Items \X Warehouses
  BY <1>3, <1>6
<1>8. Naming(lines, s) = {} => stock'[s] = stock[s]
  BY <1>4, <1>6
<1>9. Naming(lines, s) # {} =>
        stock'[s] = Refilled(stock[s], lines[Max(Naming(lines, s))].quantity)
  BY <1>4, <1>5, <1>6
<1> QED BY <1>7, <1>8, <1>9 

(* The orders that were there keep their lines.                            *)
LEMMA OldOrdersStay ==
  ASSUME TInv, NEW w \in Warehouses, NEW d \in Districts, NEW c \in Customers,
         NEW lines \in LineLists, NewOrder(w, d, c, lines), NEW k \in DOMAIN orders
  PROVE  /\ orders'[k] = orders[k]
         /\ LineKeys(k)' = LineKeys(k)
         /\ Total(k)' = Total(k)
         /\ \A s : LastLines(s, k)' = LastLines(s, k)
<1>1. /\ \A j \in DOMAIN orders : orders'[j] = orders[j]
      /\ \A l \in DOMAIN orderLines : orderLines'[l] = orderLines[l]
  BY NewOrderEffect DEF Entered
<1>2. LineKeys(k) \subseteq DOMAIN orderLines
  BY OrderHasLines DEF TInv
<1>3. /\ LineKeys(k)' = LineKeys(k)
      /\ Total(k)' = Total(k)
      /\ \A s : LastLines(s, k)' = LastLines(s, k)
  BY <1>1, <1>2, OrderStays
<1> QED BY <1>1, <1>3

LEMMA NewOrderKeepsMoney ==
  ASSUME MInv, NEW w \in Warehouses, NEW d \in Districts, NEW c \in Customers,
         NEW lines \in LineLists, NewOrder(w, d, c, lines)
  PROVE  MoneyAddsUp'
<1>1. TInv /\ MoneyAddsUp /\ FiniteTables
  BY DEF MInv
<1> PICK key : Entered(key, c, lines)
  BY <1>1, NewOrderEffect
<1>2. UNCHANGED <<w_ytd, d_ytd, customer>>
  BY DEF NewOrder, PutOrder
<1>3. /\ DOMAIN orders' = DOMAIN orders \cup {key}
      /\ orders'[key] = [c |-> c, cnt |-> Len(lines), carrier |-> NoCarrier]
  BY DEF Entered
<1>4. \A k \in DOMAIN orders : orders'[k] = orders[k] /\ Total(k)' = Total(k)
  BY <1>1, OldOrdersStay
<1>5. ASSUME NEW r PROVE Delivered(r)' = Delivered(r) /\ Charged(r)' = Charged(r)
  <2>1. orders'[key].carrier = NoCarrier
    BY <1>3
  <2>2. Delivered(r)' = Delivered(r)
    BY <1>3, <1>4, <2>1 DEF Delivered
  <2>3. \A k \in Delivered(r) : Total(k)' = Total(k)
    BY <1>4 DEF Delivered
  <2>4. [k \in Delivered(r)' |-> Total(k)'] = [k \in Delivered(r) |-> Total(k)]
    BY <2>2, <2>3
  <2> QED BY <2>2, <2>4 DEF Charged
<1>6. /\ \A v \in Warehouses :
           w_ytd'[v] = SumFunction([e \in Districts |-> d_ytd'[<<e, v>>]])
      /\ \A k \in DW :
           d_ytd'[k] = SumFunction([e \in Customers |-> customer'[<<e, k[1], k[2]>>].ytd])
      /\ \A r \in CDW : /\ customer'[r].deliveries = Cardinality(Delivered(r)')
                        /\ customer'[r].balance + customer'[r].ytd = Charged(r)'
  BY <1>1, <1>2, <1>5, MoneyForm
<1> QED BY <1>6 DEF MoneyAddsUp, Delivered, Charged

LEMMA NewOrderKeepsStock ==
  ASSUME MInv, NEW w \in Warehouses, NEW d \in Districts, NEW c \in Customers,
         NEW lines \in LineLists, NewOrder(w, d, c, lines), NEW s \in Items \X Warehouses
  PROVE  (LoadedStock - SumFunction(Sold(s)') - stock'[s]) % 100 = 0
<1> DEFINE n0 == Max(Naming(lines, s))
<1>1. TInv /\ TypeOK /\ FiniteTables /\ StockAccountsForSales
  BY DEF MInv
<1> PICK key : Entered(key, c, lines)
  BY <1>1, NewOrderEffect
<1>2. /\ DOMAIN orders' = DOMAIN orders \cup {key}
      /\ orders'[key].cnt = Len(lines)
      /\ key \notin DOMAIN orders
      /\ Len(lines) \in Nat
      /\ DOMAIN orderLines' = DOMAIN orderLines \cup {LineKey(key, n) : n \in 1..Len(lines)}
      /\ \A n \in 1..Len(lines) :
           /\ lines[n] \in Lines
           /\ LineKey(key, n) \notin DOMAIN orderLines
           /\ orderLines'[LineKey(key, n)] =
                [item |-> lines[n].item, s_w |-> lines[n].s_w, quantity |-> lines[n].quantity,
                 amount |-> Amount(lines[n]), delivered |-> FALSE]
      /\ \A l \in DOMAIN orderLines : orderLines'[l] = orderLines[l]
  BY DEF Entered
<1>3. \A k \in DOMAIN orders : LastLines(s, k)' = LastLines(s, k)
  BY <1>1, OldOrdersStay
<1>4. stock' = With(stock, StockPuts(lines, stock)) /\ stock \in [Items \X Warehouses -> 1..100]
  BY <1>1 DEF NewOrder, PutOrder, TypeOK
<1>20. /\ Naming(lines, s) = {} => stock'[s] = stock[s]
       /\ Naming(lines, s) # {} =>
            stock'[s] = Refilled(stock[s], lines[Max(Naming(lines, s))].quantity)
  BY <1>1, StockAfterOrder
<1>5. \A n \in 1..Len(lines) : /\ StockKey(orderLines'[LineKey(key, n)]) = StockKey(lines[n])
                               /\ orderLines'[LineKey(key, n)].quantity = lines[n].quantity
                               /\ LineKey(key, n)[4] = n
  <2> TAKE n \in 1..Len(lines)
  <2>1. LineKey(key, n)[4] = n
    BY DEF LineKey
  <2>2. orderLines'[LineKey(key, n)] =
          [item |-> lines[n].item, s_w |-> lines[n].s_w, quantity |-> lines[n].quantity,
           amount |-> Amount(lines[n]), delivered |-> FALSE]
    BY <1>2
  <2> QED BY <2>1, <2>2 DEF StockKey
<1>6. LineKeys(key)' = {LineKey(key, n) : n \in 1..Len(lines)}
  BY <1>2 DEF LineKeys
<1>7. SoldLines(s)' = SoldLines(s) \cup LastLines(s, key)'
  BY <1>2, <1>3 DEF SoldLines
<1>8. /\ DOMAIN Sold(s) = SoldLines(s)
      /\ DOMAIN Sold(s) \subseteq DOMAIN orderLines
      /\ IsFiniteSet(DOMAIN Sold(s))
      /\ \A l \in DOMAIN Sold(s) : Sold(s)[l] \in Nat /\ Sold(s)[l] = orderLines[l].quantity
      /\ SumFunction(Sold(s)) \in Nat
  BY <1>1, SoldIsTyped DEF TInv, Sold
<1>9. DOMAIN Sold(s)' = SoldLines(s)' /\ \A l \in SoldLines(s)' : Sold(s)'[l] = orderLines'[l].quantity
  BY DEF Sold
<1>10. \A l \in DOMAIN Sold(s) : l \in DOMAIN Sold(s)' /\ Sold(s)'[l] = Sold(s)[l]
  BY <1>2, <1>7, <1>8, <1>9
<1>11. (LoadedStock - SumFunction(Sold(s)) - stock[s]) % 100 = 0
  BY <1>1, <1>4, StockForm
<1>12. stock[s] \in 1..100 /\ LoadedStock \in 1..100
  BY <1>4, TpccAssumption
<1>13. CASE Naming(lines, s) = {}
  <2>1. LastLines(s, key)' = {}
    BY <1>5, <1>6, <1>13 DEF LastLines, Naming
  <2>2. DOMAIN Sold(s)' = DOMAIN Sold(s)
    BY <1>7, <1>8, <1>9, <2>1
  <2>3. SumFunction(Sold(s)') = SumFunction(Sold(s))
    BY <1>8, <1>10, <2>2, SumSame
  <2>4. stock'[s] = stock[s]
    BY <1>20, <1>13
  <2> QED BY <1>11, <2>3, <2>4
<1>14. CASE Naming(lines, s) # {}
  <2>1. /\ n0 \in Naming(lines, s) /\ \A n \in Naming(lines, s) : n <= n0
        /\ n0 \in 1..Len(lines) /\ lines[n0] \in Lines
    BY <1>14, NamingLines
  <2> DEFINE x == LineKey(key, n0)
             q == lines[n0].quantity
  <2> HIDE DEF n0
  <2>2. q \in 5..14
    BY <2>1 DEF Lines
  <2>3. LastLines(s, key)' = {x}
    <3>1. x \in LineKeys(key)' /\ StockKey(orderLines'[x]) = s
      BY <1>5, <1>6, <2>1 DEF Naming
    <3>2. ASSUME NEW m \in LineKeys(key)', StockKey(orderLines'[m]) = s
          PROVE  m[4] <= x[4] /\ (x[4] <= m[4] => m = x)
      <4>1. PICK n \in 1..Len(lines) : m = LineKey(key, n)
        BY <1>6
      <4>2. n \in Naming(lines, s)
        BY <1>5, <3>2, <4>1 DEF Naming
      <4>3. n <= n0 /\ m[4] = n /\ x[4] = n0 /\ n \in Nat /\ n0 \in Nat
        BY <1>5, <2>1, <4>1, <4>2
      <4> QED BY <4>1, <4>3
    <3> HIDE DEF x
    <3> QED BY <3>1, <3>2 DEF LastLines
  <2>4. x \in DOMAIN Sold(s)' /\ x \notin DOMAIN Sold(s) /\ Sold(s)'[x] = q
    BY <1>2, <1>5, <1>7, <1>8, <1>9, <2>1, <2>3
  <2>5. DOMAIN Sold(s)' = DOMAIN Sold(s) \cup {x}
    BY <1>7, <1>8, <1>9, <2>3
  <2> HIDE DEF x, q
  <2>6. IsFiniteSet(DOMAIN Sold(s)') /\ DOMAIN Sold(s) = DOMAIN Sold(s)' \ {x}
    BY <1>8, <2>4, <2>5, FS_AddElement
  <2>7. \A y \in DOMAIN Sold(s)' : Sold(s)'[y] \in Int
    BY <1>8, <1>10, <2>2, <2>4, <2>5
  <2>8. SumFunction(Sold(s)') = q + SumFunction(Sold(s))
    <3>1. SumFunction(Sold(s)') = Sold(s)'[x] + SumFunction(Sold(s))
      BY <1>10, <2>4, <2>6, <2>7, SumOneMore
    <3> QED BY <2>4, <3>1
  <2>9. stock'[s] = Refilled(stock[s], q)
    BY <1>20, <1>14 DEF q, n0
  <2>10. stock'[s] = stock[s] - q \/ stock'[s] = stock[s] - q + 100
    BY <1>12, <2>2, <2>9, RefilledIsTyped
  <2> DEFINE sum == SumFunction(Sold(s))
             rest == LoadedStock - sum - stock[s]
  <2>11. rest \in Int /\ sum \in Nat /\ rest % 100 = 0
    BY <1>8, <1>11, <1>12
  <2>12. \/ LoadedStock - (q + sum) - stock'[s] = rest
         \/ LoadedStock - (q + sum) - stock'[s] = rest - 100
    BY <1>8, <1>12, <2>2, <2>10
  <2> HIDE DEF rest, sum
  <2>13. (rest - 100) % 100 = 0
    BY <2>11
  <2> QED BY <2>8, <2>11, <2>12, <2>13 DEF sum
<1> QED BY <1>13, <1>14

LEMMA NewOrderKeepsTypes ==
  ASSUME MInv, NEW w \in Warehouses, NEW d \in Districts, NEW c \in Customers,
         NEW lines \in LineLists, NewOrder(w, d, c, lines)
  PROVE  TypeOK' /\ FiniteTables'
<1>1. TInv /\ TypeOK /\ FiniteTables
  BY DEF MInv
<1>2. TInv'
  BY <1>1, PutOrderKeeps
<1>3. stock' = With(stock, StockPuts(lines, stock)) /\ stock \in [Items \X Warehouses -> 1..100]
  BY <1>1 DEF NewOrder, PutOrder, TypeOK
<1>4. stock' \in [Items \X Warehouses -> 1..100]
  <2>1. ASSUME NEW s \in Items \X Warehouses
        PROVE  /\ DOMAIN stock' = Items \X Warehouses
               /\ stock'[s] \in 1..100
    <3>1. /\ DOMAIN stock' = Items \X Warehouses
          /\ Naming(lines, s) = {} => stock'[s] = stock[s]
          /\ Naming(lines, s) # {} =>
               stock'[s] = Refilled(stock[s], lines[Max(Naming(lines, s))].quantity)
      BY <1>1, StockAfterOrder
    <3>2. stock[s] \in 1..100
      BY <1>3
    <3>3. CASE Naming(lines, s) = {}
      BY <3>1, <3>2, <3>3
    <3>4. CASE Naming(lines, s) # {}
      <4>1. lines[Max(Naming(lines, s))].quantity \in 5..14
        BY <3>4, NamingLines DEF Lines
      <4>2. Refilled(stock[s], lines[Max(Naming(lines, s))].quantity) \in 1..100
        BY <3>2, <4>1, RefilledIsTyped
      <4> QED BY <3>1, <3>4, <4>2
    <3> QED BY <3>3, <3>4
  <2>2. DOMAIN stock' = Items \X Warehouses
    <3>1. DOMAIN StockPuts(lines, stock) \subseteq Items \X Warehouses
      BY StockPutsRows
    <3> QED BY <1>3, <3>1, WithRows
  <2>3. stock' = [s \in DOMAIN stock' |-> stock'[s]]
    BY <1>3 DEF With
  <2> QED BY <2>1, <2>2, <2>3
<1>5. UNCHANGED <<next_d, w_ytd, d_ytd, customer, history, committed>>
  BY DEF NewOrder, PutOrder
<1>6. TypeOK'
  BY <1>1, <1>2, <1>4, <1>5 DEF TypeOK, TInv, Typed
<1>7. FiniteTables'
  <2>1. PICK key : Entered(key, c, lines)
    BY <1>1, NewOrderEffect
  <2>2. IsFiniteSet(DOMAIN orders \cup {key})
    BY <1>1, FS_AddElement DEF FiniteTables
  <2>3. IsFiniteSet(DOMAIN orderLines \cup {LineKey(key, n) : n \in 1..Len(lines)})
    <3>1. IsFiniteSet({LineKey(key, n) : n \in 1..Len(lines)})
      BY <2>1, LinesAreFinite DEF Entered
    <3> QED BY <1>1, <3>1, FS_Union DEF FiniteTables
  <2> QED BY <2>1, <2>2, <2>3 DEF FiniteTables, Entered
<1> QED BY <1>6, <1>7

LEMMA NewOrderKeepsMInv ==
  ASSUME MInv, NEW w \in Warehouses, NEW d \in Districts, NEW c \in Customers,
         NEW lines \in LineLists, NewOrder(w, d, c, lines)
  PROVE  MInv'
<1>1. TInv'
  BY PutOrderKeeps DEF MInv
<1>2. TypeOK' /\ FiniteTables'
  BY NewOrderKeepsTypes
<1>3. MoneyAddsUp'
  BY NewOrderKeepsMoney
<1>4. StockAccountsForSales'
  <2>1. DOMAIN stock' = Items \X Warehouses
    BY <1>2 DEF TypeOK
  <2>2. \A s \in DOMAIN stock' : (LoadedStock - SumFunction(Sold(s)') - stock'[s]) % 100 = 0
    BY <2>1, NewOrderKeepsStock
  <2> QED BY <2>2 DEF StockAccountsForSales, Sold, SoldLines, LastLines
<1> QED BY <1>1, <1>2, <1>3, <1>4 DEF MInv

----------------------------------------------------------------------------
(* A payment.                                                              *)

LEMMA PaidRow ==
  ASSUME NEW row \in CustomerRows, NEW amount \in Nat
  PROVE  /\ Paid(row, amount) \in CustomerRows
         /\ Paid(row, amount).balance + Paid(row, amount).ytd = row.balance + row.ytd
         /\ Paid(row, amount).ytd = row.ytd + amount
         /\ Paid(row, amount).deliveries = row.deliveries
<1>1. PICK b \in Int, y \in Nat, p \in Nat, n \in Nat :
        row = [balance |-> b, ytd |-> y, payments |-> p, deliveries |-> n]
  BY DEF CustomerRows
<1>2. Paid(row, amount) =
        [balance |-> b - amount, ytd |-> y + amount, payments |-> p + 1, deliveries |-> n]
  <2>1. /\ Paid(row, amount).balance = b - amount
        /\ Paid(row, amount).ytd = y + amount
        /\ Paid(row, amount).payments = p + 1
        /\ Paid(row, amount).deliveries = n
    BY <1>1 DEF Paid
  <2>2. DOMAIN Paid(row, amount) = {"balance", "ytd", "payments", "deliveries"}
    BY <1>1 DEF Paid
  <2>3. Paid(row, amount) = [x \in DOMAIN Paid(row, amount) |-> Paid(row, amount)[x]]
    BY DEF Paid
  <2> QED BY <2>1, <2>2, <2>3
<1>3. (b - amount) + (y + amount) = b + y
  OBVIOUS
<1> QED BY <1>1, <1>2, <1>3 DEF CustomerRows

LEMMA PaymentKeepsMInv ==
  ASSUME MInv, NEW w \in Warehouses, NEW d \in Districts, NEW c \in Customers,
         NEW amount \in Payments, NEW time \in 0..MaxTime, Payment(w, d, c, amount, time)
  PROVE  MInv'
<1> DEFINE r0 == <<c, d, w>>
<1>1. TInv /\ TypeOK /\ FiniteTables /\ MoneyAddsUp /\ StockAccountsForSales
  BY DEF MInv
<1>2. /\ w_ytd' = [w_ytd EXCEPT ![w] = @ + amount]
      /\ d_ytd' = [d_ytd EXCEPT ![<<d, w>>] = @ + amount]
      /\ customer' = [customer EXCEPT ![r0] = Paid(@, amount)]
      /\ history' = With(history, [k \in {HistoryKey(w, d, c, time)} |-> amount])
      /\ UNCHANGED <<next_o, next_d, stock, orders, orderLines, lastOrder>>
  BY DEF Payment
<1>3. amount \in Nat /\ <<d, w>> \in DW /\ r0 \in CDW
  BY TpccAssumption DEF DW, CDW
<1>4. /\ w_ytd \in [Warehouses -> Nat] /\ d_ytd \in [DW -> Nat]
      /\ customer \in [CDW -> CustomerRows]
  BY <1>1 DEF TypeOK
<1>5. TInv'
  BY <1>1, PaymentKeeps
<1>6. FiniteTables'
  BY <1>1, <1>2 DEF FiniteTables
<1>7. Paid(customer[r0], amount) \in CustomerRows
      /\ Paid(customer[r0], amount).balance + Paid(customer[r0], amount).ytd
           = customer[r0].balance + customer[r0].ytd
      /\ Paid(customer[r0], amount).ytd = customer[r0].ytd + amount
      /\ Paid(customer[r0], amount).deliveries = customer[r0].deliveries
  <2>1. customer[r0] \in CustomerRows
    BY <1>3, <1>4
  <2> HIDE DEF r0
  <2> QED BY <1>3, <2>1, PaidRow
<1>8. \A r \in CDW : customer'[r] = IF r = r0 THEN Paid(customer[r0], amount) ELSE customer[r]
  BY <1>2, <1>3, <1>4
<1>9. TypeOK'
  <2>1. w_ytd' \in [Warehouses -> Nat] /\ d_ytd' \in [DW -> Nat]
    BY <1>2, <1>3, <1>4
  <2>2. customer' \in [CDW -> CustomerRows]
    BY <1>2, <1>4, <1>7
  <2>3. \A k \in DOMAIN history' : history'[k] \in Nat
    BY <1>1, <1>2, <1>3 DEF TypeOK, With
  <2> QED BY <1>1, <1>2, <1>5, <2>1, <2>2, <2>3 DEF TypeOK, TInv, Typed
<1>10. ASSUME NEW r PROVE Delivered(r)' = Delivered(r) /\ Charged(r)' = Charged(r)
  BY <1>2 DEF Delivered, Charged, Total, LineKeys
<1>11. StockAccountsForSales'
  BY <1>1, <1>2 DEF StockAccountsForSales, LineKeys
<1>12. ASSUME NEW v \in Warehouses
       PROVE  w_ytd'[v] = SumFunction([e \in Districts |-> d_ytd'[<<e, v>>]])
  <2> DEFINE f == [e \in Districts |-> d_ytd[<<e, v>>]]
             g == [e \in Districts |-> d_ytd'[<<e, v>>]]
  <2>1. w_ytd[v] = SumFunction(f)
    BY <1>1, MoneyForm
  <2>2. /\ DOMAIN f = Districts /\ DOMAIN g = Districts /\ IsFiniteSet(Districts)
        /\ \A e \in Districts : f[e] \in Nat
    BY <1>4, TpccAssumption DEF DW
  <2>3. \A e \in Districts : g[e] = IF v = w /\ e = d THEN f[e] + amount ELSE f[e]
    BY <1>2, <1>4 DEF DW
  <2> HIDE DEF f, g
  <2>4. CASE v = w
    <3>1. SumFunction(g) = SumFunction(f) - f[d] + g[d]
      <4>1. \A e \in Districts : g[e] \in Int /\ f[e] \in Int
        <5>1. \A e \in Districts : f[e] \in Int
          BY <2>2
        <5> QED BY <1>3, <2>3, <5>1
      <4>2. \A e \in Districts \ {d} : f[e] = g[e]
        BY <2>3
      <4> QED BY <2>2, <4>1, <4>2, SumOneChanged
    <3>2. SumFunction(f) \in Nat
      BY <2>2, SumTyped
    <3>3. SumFunction(g) = SumFunction(f) + amount
      BY <1>3, <2>2, <2>3, <2>4, <3>1, <3>2
    <3>4. w_ytd'[v] = w_ytd[v] + amount
      BY <1>2, <1>4, <2>4
    <3> QED BY <2>1, <3>3, <3>4 DEF g
  <2>5. CASE v # w
    <3>1. SumFunction(g) = SumFunction(f)
      BY <2>2, <2>3, <2>5, SumSame
    <3>2. w_ytd'[v] = w_ytd[v]
      BY <1>2, <1>4, <2>5
    <3> QED BY <2>1, <3>1, <3>2 DEF g
  <2> QED BY <2>4, <2>5
<1>13. ASSUME NEW k \in DW
       PROVE  d_ytd'[k] = SumFunction([e \in Customers |-> customer'[<<e, k[1], k[2]>>].ytd])
  <2> DEFINE f == [e \in Customers |-> customer[<<e, k[1], k[2]>>].ytd]
             g == [e \in Customers |-> customer'[<<e, k[1], k[2]>>].ytd]
  <2>0. k = <<k[1], k[2]>> /\ k[1] \in Districts /\ k[2] \in Warehouses
    BY DEF DW
  <2>1. d_ytd[k] = SumFunction(f)
    BY <1>1, MoneyForm
  <2>2. /\ DOMAIN f = Customers /\ DOMAIN g = Customers /\ IsFiniteSet(Customers)
        /\ \A e \in Customers : f[e] \in Nat
    <3>1. \A e \in Customers : customer[<<e, k[1], k[2]>>] \in CustomerRows
      BY <1>4, <2>0 DEF CDW
    <3> QED BY <3>1, TpccAssumption DEF CustomerRows
  <2>3. \A e \in Customers : g[e] = IF k = <<d, w>> /\ e = c THEN f[e] + amount ELSE f[e]
    <3> TAKE e \in Customers
    <3>1. <<e, k[1], k[2]>> \in CDW /\ (<<e, k[1], k[2]>> = r0 <=> k = <<d, w>> /\ e = c)
      BY <2>0 DEF CDW
    <3>2. customer'[<<e, k[1], k[2]>>] =
            IF <<e, k[1], k[2]>> = r0 THEN Paid(customer[r0], amount)
            ELSE customer[<<e, k[1], k[2]>>]
      BY <1>8, <3>1
    <3> HIDE DEF r0
    <3> QED BY <1>7, <3>1, <3>2
  <2> HIDE DEF f, g
  <2>4. CASE k = <<d, w>>
    <3>1. SumFunction(g) = SumFunction(f) - f[c] + g[c]
      BY <1>3, <2>2, <2>3, SumOneChanged
    <3>2. SumFunction(f) \in Nat
      BY <2>2, SumTyped
    <3>3. SumFunction(g) = SumFunction(f) + amount
      BY <1>3, <2>2, <2>3, <2>4, <3>1, <3>2
    <3>4. d_ytd'[k] = d_ytd[k] + amount
      BY <1>2, <1>4, <2>4
    <3> QED BY <2>1, <3>3, <3>4 DEF g
  <2>5. CASE k # <<d, w>>
    <3>1. SumFunction(g) = SumFunction(f)
      BY <2>2, <2>3, <2>5, SumSame
    <3>2. d_ytd'[k] = d_ytd[k]
      BY <1>2, <1>4, <2>5
    <3> QED BY <2>1, <3>1, <3>2 DEF g
  <2> QED BY <2>4, <2>5
<1>14. ASSUME NEW r \in CDW
       PROVE  /\ customer'[r].deliveries = Cardinality(Delivered(r)')
              /\ customer'[r].balance + customer'[r].ytd = Charged(r)'
  <2>1. /\ customer[r].deliveries = Cardinality(Delivered(r))
        /\ customer[r].balance + customer[r].ytd = Charged(r)
    BY <1>1, MoneyForm
  <2>2. /\ customer'[r].deliveries = customer[r].deliveries
        /\ customer'[r].balance + customer'[r].ytd = customer[r].balance + customer[r].ytd
    <3> HIDE DEF r0
    <3> QED BY <1>7, <1>8
  <2> QED BY <1>10, <2>1, <2>2
<1>15. MoneyAddsUp'
  <2> HIDE DEF r0
  <2> QED BY <1>12, <1>13, <1>14 DEF MoneyAddsUp, Delivered, Charged
<1> QED BY <1>5, <1>6, <1>9, <1>11, <1>15 DEF MInv

----------------------------------------------------------------------------
(* A delivery.                                                             *)

Credited(row, total) == [row EXCEPT !.balance = @ + total, !.deliveries = @ + 1]

LEMMA CreditedRow ==
  ASSUME NEW row \in CustomerRows, NEW total \in Nat
  PROVE  /\ Credited(row, total) \in CustomerRows
         /\ Credited(row, total).balance + Credited(row, total).ytd = total + (row.balance + row.ytd)
         /\ Credited(row, total).ytd = row.ytd
         /\ Credited(row, total).deliveries = row.deliveries + 1
<1>1. PICK b \in Int, y \in Nat, p \in Nat, n \in Nat :
        row = [balance |-> b, ytd |-> y, payments |-> p, deliveries |-> n]
  BY DEF CustomerRows
<1>2. Credited(row, total) =
        [balance |-> b + total, ytd |-> y, payments |-> p, deliveries |-> n + 1]
  <2>1. /\ Credited(row, total).balance = b + total
        /\ Credited(row, total).ytd = y
        /\ Credited(row, total).payments = p
        /\ Credited(row, total).deliveries = n + 1
    BY <1>1 DEF Credited
  <2>2. DOMAIN Credited(row, total) = {"balance", "ytd", "payments", "deliveries"}
    BY <1>1 DEF Credited
  <2>3. Credited(row, total) = [x \in DOMAIN Credited(row, total) |-> Credited(row, total)[x]]
    BY DEF Credited
  <2> QED BY <2>1, <2>2, <2>3
<1>3. (b + total) + y = total + (b + y)
  OBVIOUS
<1> QED BY <1>1, <1>2, <1>3 DEF CustomerRows

(* The order a delivery of warehouse w takes in district d.                *)
NextUndelivered(d, w) == <<next_d[<<d, w>>], d, w>>

(* Customer r has an order in a delivery of warehouse w.                   *)
Receives(r, w) == /\ r[3] = w /\ r[2] \in Pending(w)
                  /\ orders[NextUndelivered(r[2], w)].c = r[1]

LEMMA DeliveryCredits ==
  ASSUME TInv, TypeOK, NEW w \in Warehouses, NEW carrier \in Carriers, Delivery(w, carrier)
  PROVE  /\ DOMAIN customer' = CDW
         /\ customer' = [r \in DOMAIN customer' |-> customer'[r]]
         /\ \A r \in CDW :
              customer'[r] = IF Receives(r, w)
                               THEN Credited(customer[r], Total(NextUndelivered(r[2], w)))
                               ELSE customer[r]
<1> DEFINE rows == {<<orders[k].c, k[2], w>> : k \in Oldest(w)}
           puts == [r \in rows |-> Credited(customer[r], Total(NextUndelivered(r[2], w)))]
<1>1. customer' = With(customer, puts)
  BY Zenon DEF Delivery, Credited, NextUndelivered
<1>2. DOMAIN customer = CDW
  BY DEF TypeOK
<1>3. \A d \in Pending(w) : NextUndelivered(d, w) \in DOMAIN orders /\ d \in Districts
  BY DeliveryEffect DEF NextUndelivered, Pending
<1>4. \A k : k \in Oldest(w) <=> \E d \in Pending(w) : k = NextUndelivered(d, w)
  BY DEF Oldest, NextUndelivered
<1>5. \A d : NextUndelivered(d, w)[2] = d
  BY DEF NextUndelivered
<1>6. rows \subseteq CDW
  <2> SUFFICES ASSUME NEW k \in Oldest(w) PROVE <<orders[k].c, k[2], w>> \in CDW
    OBVIOUS
  <2>1. PICK d \in Pending(w) : k = NextUndelivered(d, w)
    BY <1>4
  <2>2. k \in DOMAIN orders /\ k[2] \in Districts
    BY <1>3, <1>5, <2>1
  <2>3. orders[k].c \in Customers
    BY <2>2 DEF TypeOK, Orders
  <2> QED BY <2>2, <2>3 DEF CDW
<1>7. \A r \in CDW : r \in rows <=> Receives(r, w)
  <2> TAKE r \in CDW
  <2>1. r = <<r[1], r[2], r[3]>>
    BY DEF CDW
  <2>2. ASSUME r \in rows PROVE Receives(r, w)
    <3>1. PICK k \in Oldest(w) : r = <<orders[k].c, k[2], w>>
      BY <2>2
    <3>2. PICK d \in Pending(w) : k = NextUndelivered(d, w)
      BY <1>4
    <3> QED BY <1>5, <3>1, <3>2 DEF Receives
  <2>3. ASSUME Receives(r, w) PROVE r \in rows
    <3>1. NextUndelivered(r[2], w) \in Oldest(w)
      BY <1>4, <2>3 DEF Receives
    <3>2. r = <<orders[NextUndelivered(r[2], w)].c, NextUndelivered(r[2], w)[2], w>>
      BY <1>5, <2>1, <2>3 DEF Receives
    <3> QED BY <3>1, <3>2
  <2> QED BY <2>2, <2>3
<1>8. DOMAIN puts = rows /\ \A r \in rows : puts[r] = Credited(customer[r], Total(NextUndelivered(r[2], w)))
  OBVIOUS
<1> HIDE DEF rows, puts
<1>9. /\ DOMAIN With(customer, puts) = DOMAIN customer \cup DOMAIN puts
      /\ \A r \in DOMAIN puts : With(customer, puts)[r] = puts[r]
      /\ \A r \in DOMAIN customer \ DOMAIN puts : With(customer, puts)[r] = customer[r]
  BY WithRows
<1>10. DOMAIN customer' = CDW
  BY <1>1, <1>2, <1>6, <1>8, <1>9
<1>11. customer' = [r \in DOMAIN customer' |-> customer'[r]]
  BY <1>1 DEF With
<1>12. ASSUME NEW r \in CDW
       PROVE  customer'[r] = IF Receives(r, w)
                               THEN Credited(customer[r], Total(NextUndelivered(r[2], w)))
                               ELSE customer[r]
  BY <1>1, <1>2, <1>7, <1>8, <1>9
<1> QED BY <1>10, <1>11, <1>12

(* What an order is worth and sold does not change with its delivery.      *)
LEMMA DeliveredOrdersStay ==
  ASSUME TInv, NEW w \in Warehouses, NEW carrier \in Carriers, Delivery(w, carrier),
         NEW k \in DOMAIN orders
  PROVE  /\ LineKeys(k)' = LineKeys(k)
         /\ Total(k)' = Total(k)
         /\ \A s : LastLines(s, k)' = LastLines(s, k)
<1>1. /\ orders'[k].cnt = orders[k].cnt
      /\ \A l \in DOMAIN orderLines :
           /\ orderLines'[l].item = orderLines[l].item
           /\ orderLines'[l].s_w = orderLines[l].s_w
           /\ orderLines'[l].amount = orderLines[l].amount
  BY DeliveryEffect
<1>2. LineKeys(k) \subseteq DOMAIN orderLines
  BY OrderHasLines DEF TInv
<1> QED BY <1>1, <1>2, OrderStays

(* The delivered orders of a customer grow by the one it receives.         *)
LEMMA DeliveryAddsOrder ==
  ASSUME TInv, NEW w \in Warehouses, NEW carrier \in Carriers, Delivery(w, carrier),
         NEW r \in CDW
  PROVE  /\ ~Receives(r, w) => Delivered(r)' = Delivered(r)
         /\ Receives(r, w) => /\ Delivered(r)' = Delivered(r) \cup {NextUndelivered(r[2], w)}
                              /\ NextUndelivered(r[2], w) \in DOMAIN orders
                              /\ NextUndelivered(r[2], w) \notin Delivered(r)
<1>1. /\ DOMAIN orders' = DOMAIN orders
      /\ \A k \in DOMAIN orders :
           /\ k \in Oldest(w) <=> k[3] = w /\ k[1] = next_d[<<k[2], w>>]
           /\ orders'[k].c = orders[k].c
           /\ orders'[k].carrier = IF k \in Oldest(w) THEN carrier ELSE orders[k].carrier
      /\ \A d \in Pending(w) : NextUndelivered(d, w) \in DOMAIN orders
      /\ Oldest(w) \subseteq DOMAIN orders
  BY DeliveryEffect DEF NextUndelivered
<1>2. carrier # NoCarrier
  BY TpccAssumption
<1>3. \A k : k \in Oldest(w) <=> \E d \in Pending(w) : k = NextUndelivered(d, w)
  BY DEF Oldest, NextUndelivered
<1>4. \A d : NextUndelivered(d, w)[2] = d /\ NextUndelivered(d, w)[3] = w
  BY DEF NextUndelivered
<1>5. \A k \in Oldest(w) : orders[k].carrier = NoCarrier
  <2> TAKE k \in Oldest(w)
  <2>1. k \in DOMAIN orders /\ k[3] = w /\ k[1] = next_d[<<k[2], w>>]
    BY <1>1
  <2>2. k[2] \in Districts /\ k[1] \in Nat
    BY <2>1, OrderKeys DEF TInv
  <2>3. ~(k[1] < next_d[<<k[2], k[3]>>])
    BY <2>1, <2>2
  <2> QED BY <2>1, <2>3 DEF TInv, DeliveredInOrder
<1>6. \A k : k \in Oldest(w) /\ orders[k].c = r[1] /\ k[2] = r[2] /\ k[3] = r[3]
               <=> Receives(r, w) /\ k = NextUndelivered(r[2], w)
  BY <1>3, <1>4 DEF Receives
<1>7. \A k : k \in Delivered(r)' <=>
               k \in Delivered(r) \/ (Receives(r, w) /\ k = NextUndelivered(r[2], w))
  <2> TAKE k
  <2>1. k \in Delivered(r)' <=>
          k \in DOMAIN orders /\ orders[k].c = r[1] /\ k[2] = r[2] /\ k[3] = r[3]
            /\ (k \in Oldest(w) \/ orders[k].carrier # NoCarrier)
    BY <1>1, <1>2 DEF Delivered
  <2>2. k \in Delivered(r) <=>
          k \in DOMAIN orders /\ orders[k].c = r[1] /\ k[2] = r[2] /\ k[3] = r[3]
            /\ orders[k].carrier # NoCarrier
    BY DEF Delivered
  <2> QED BY <1>1, <1>6, <2>1, <2>2
<1>8. Receives(r, w) => NextUndelivered(r[2], w) \in Oldest(w) /\ NextUndelivered(r[2], w) \in DOMAIN orders
  BY <1>1, <1>6
<1>9. Receives(r, w) => NextUndelivered(r[2], w) \notin Delivered(r)
  BY <1>5, <1>8 DEF Delivered
<1> QED BY <1>7, <1>8, <1>9

LEMMA DeliveryKeepsMInv ==
  ASSUME MInv, NEW w \in Warehouses, NEW carrier \in Carriers, Delivery(w, carrier)
  PROVE  MInv'
<1>1. TInv /\ TypeOK /\ FiniteTables /\ MoneyAddsUp /\ StockAccountsForSales
  BY DEF MInv
<1>2. UNCHANGED <<next_o, stock, lastOrder, w_ytd, d_ytd, history, committed>>
  BY DEF Delivery
<1>3. TInv'
  BY <1>1, DeliveryKeeps
<1>4. /\ DOMAIN orders' = DOMAIN orders
      /\ DOMAIN orderLines' = DOMAIN orderLines
      /\ \A l \in DOMAIN orderLines : orderLines'[l].quantity = orderLines[l].quantity
  BY <1>1, DeliveryEffect
<1>5. FiniteTables'
  BY <1>1, <1>4 DEF FiniteTables
<1>6. \A k \in DOMAIN orders :
        /\ Total(k)' = Total(k)
        /\ \A s : LastLines(s, k)' = LastLines(s, k)
  BY <1>1, DeliveredOrdersStay
<1>7. /\ DOMAIN customer' = CDW
      /\ customer' = [r \in DOMAIN customer' |-> customer'[r]]
      /\ \A r \in CDW :
           customer'[r] = IF Receives(r, w)
                            THEN Credited(customer[r], Total(NextUndelivered(r[2], w)))
                            ELSE customer[r]
  BY <1>1, DeliveryCredits
<1>8. \A r \in CDW : customer[r] \in CustomerRows
  BY <1>1 DEF TypeOK
<1>9. \A r \in CDW :
        /\ Receives(r, w) => /\ Delivered(r)' = Delivered(r) \cup {NextUndelivered(r[2], w)}
                             /\ NextUndelivered(r[2], w) \in DOMAIN orders
                             /\ NextUndelivered(r[2], w) \notin Delivered(r)
        /\ ~Receives(r, w) => Delivered(r)' = Delivered(r)
  BY <1>1, DeliveryAddsOrder
<1>10. \A k \in DOMAIN orders : Total(k) \in Nat
  BY <1>1, TotalIsNat DEF TInv
<1>11. ASSUME NEW r \in CDW
       PROVE  customer'[r] \in CustomerRows /\ customer'[r].ytd = customer[r].ytd
  BY <1>7, <1>8, <1>9, <1>10, <1>11, CreditedRow
<1>12. TypeOK'
  <2>1. customer' \in [CDW -> CustomerRows]
    BY <1>7, <1>11
  <2> QED BY <1>1, <1>2, <1>3, <2>1 DEF TypeOK, TInv, Typed
<1>13. StockAccountsForSales'
  <2>1. ASSUME NEW s PROVE Sold(s)' = Sold(s)
    <3>1. SoldLines(s)' = SoldLines(s)
      BY <1>4, <1>6 DEF SoldLines
    <3>2. SoldLines(s) \subseteq DOMAIN orderLines
      BY <1>1, OrderHasLines DEF SoldLines, LastLines, TInv
    <3>3. \A l \in SoldLines(s) : orderLines'[l].quantity = orderLines[l].quantity
      BY <1>4, <3>2
    <3>4. [l \in SoldLines(s)' |-> orderLines'[l].quantity] = [l \in SoldLines(s) |-> orderLines[l].quantity]
      BY <3>1, <3>3
    <3> QED BY <3>4 DEF Sold
  <2>2. \A s \in DOMAIN stock : (LoadedStock - SumFunction(Sold(s)) - stock[s]) % 100 = 0
    BY <1>1, StockForm
  <2>3. \A s \in DOMAIN stock' : (LoadedStock - SumFunction(Sold(s)') - stock'[s]) % 100 = 0
    BY <1>2, <2>1, <2>2
  <2> QED BY <2>3 DEF StockAccountsForSales, Sold, SoldLines, LastLines
<1>14. ASSUME NEW r \in CDW
       PROVE  /\ customer'[r].deliveries = Cardinality(Delivered(r)')
              /\ customer'[r].balance + customer'[r].ytd = Charged(r)'
  <2> DEFINE f == [k \in Delivered(r) |-> Total(k)]
             g == [k \in Delivered(r)' |-> Total(k)']
  <2>1. /\ customer[r].deliveries = Cardinality(Delivered(r))
        /\ customer[r].balance + customer[r].ytd = SumFunction(f)
    BY <1>1, MoneyForm DEF Charged
  <2>2. Charged(r)' = SumFunction(g)
    BY DEF Charged
  <2>3. /\ DOMAIN f = Delivered(r) /\ DOMAIN g = Delivered(r)'
        /\ \A k \in Delivered(r) : f[k] = Total(k)
        /\ \A k \in Delivered(r)' : g[k] = Total(k)'
    OBVIOUS
  <2>4. Delivered(r) \subseteq DOMAIN orders /\ IsFiniteSet(Delivered(r))
    BY <1>1, DeliveredAreFinite DEF Delivered
  <2> HIDE DEF f, g
  <2>5. \A k \in Delivered(r) : k \in Delivered(r)' /\ g[k] = f[k]
    BY <1>6, <1>9, <2>3, <2>4
  <2>6. CASE ~Receives(r, w)
    <3>1. SumFunction(g) = SumFunction(f)
      BY <1>9, <2>3, <2>4, <2>5, <2>6, SumSame
    <3> QED BY <1>7, <1>9, <2>1, <2>2, <2>6, <3>1
  <2>7. CASE Receives(r, w)
    <3> DEFINE x == NextUndelivered(r[2], w)
    <3>1. /\ Delivered(r)' = Delivered(r) \cup {x} /\ x \in DOMAIN orders /\ x \notin Delivered(r)
      BY <1>9, <2>7
    <3>2. customer'[r] = Credited(customer[r], Total(x))
      BY <1>7, <2>7
    <3>3. Total(x) \in Nat /\ \A k \in DOMAIN orders : Total(k)' = Total(k)
      BY <1>6, <1>10, <3>1
    <3> PICK y : y = x
      OBVIOUS
    <3> HIDE DEF x
    <3>4. g[y] = Total(x)
      <4>1. y \in Delivered(r)' /\ y \in DOMAIN orders
        BY <3>1
      <4>2. g[y] = Total(y)' /\ Total(y)' = Total(y)
        BY <1>6, <2>3, <4>1
      <4> QED BY <4>2
    <3>5. /\ y \in DOMAIN g /\ IsFiniteSet(DOMAIN g) /\ DOMAIN f = DOMAIN g \ {y}
          /\ Cardinality(Delivered(r)') = Cardinality(Delivered(r)) + 1
      <4>1. /\ IsFiniteSet(Delivered(r) \cup {y})
            /\ Cardinality(Delivered(r) \cup {y}) = Cardinality(Delivered(r)) + 1
        BY <2>4, <3>1, FS_AddElement
      <4>2. DOMAIN g = Delivered(r) \cup {y} /\ y \notin Delivered(r)
        BY <2>3, <3>1
      <4> QED BY <2>3, <3>1, <4>1, <4>2
    <3>6. \A k \in DOMAIN g : g[k] \in Int
      <4>1. \A k \in DOMAIN f : f[k] \in Nat
        BY <1>10, <2>3, <2>4
      <4> QED BY <2>3, <2>5, <3>3, <3>4, <3>5, <4>1
    <3>7. SumFunction(g) = g[y] + SumFunction(f)
      BY <2>3, <2>5, <3>5, <3>6, SumOneMore
    <3>8. /\ Credited(customer[r], Total(x)).balance + Credited(customer[r], Total(x)).ytd
               = Total(x) + (customer[r].balance + customer[r].ytd)
          /\ Credited(customer[r], Total(x)).deliveries = customer[r].deliveries + 1
      BY <1>8, <3>3, CreditedRow
    <3> QED BY <2>1, <2>2, <3>2, <3>4, <3>5, <3>7, <3>8
  <2> QED BY <2>6, <2>7
<1>15. MoneyAddsUp'
  <2>1. ASSUME NEW k \in DW
        PROVE  d_ytd'[k] = SumFunction([e \in Customers |-> customer'[<<e, k[1], k[2]>>].ytd])
    <3>1. \A e \in Customers : <<e, k[1], k[2]>> \in CDW
      BY DEF CDW, DW
    <3>2. [e \in Customers |-> customer'[<<e, k[1], k[2]>>].ytd]
            = [e \in Customers |-> customer[<<e, k[1], k[2]>>].ytd]
      BY <1>11, <3>1
    <3>3. d_ytd[k] = SumFunction([e \in Customers |-> customer[<<e, k[1], k[2]>>].ytd])
      BY <1>1, MoneyForm
    <3> QED BY <1>2, <3>2, <3>3
  <2>2. \A v \in Warehouses : w_ytd'[v] = SumFunction([e \in Districts |-> d_ytd'[<<e, v>>]])
    BY <1>1, <1>2, MoneyForm
  <2> QED BY <1>14, <2>1, <2>2 DEF MoneyAddsUp, Delivered, Charged
<1> QED BY <1>3, <1>5, <1>12, <1>13, <1>15 DEF MInv

----------------------------------------------------------------------------
(* The invariant of the stored procedures.                                 *)

LEMMA InitMInv == Init => MInv
<1> SUFFICES ASSUME Init PROVE MInv
  OBVIOUS
<1>1. TInv
  BY InitTInv
<1>2. DOMAIN orders = {} /\ DOMAIN orderLines = {} /\ DOMAIN history = {}
  BY DEF Init, Empty
<1>3. TypeOK
  <2>1. stock \in [Items \X Warehouses -> 1..100]
    BY TpccAssumption DEF Init
  <2>2. w_ytd \in [Warehouses -> Nat] /\ d_ytd \in [DW -> Nat] /\ customer \in [CDW -> CustomerRows]
    BY DEF Init, CustomerRows
  <2> QED BY <1>1, <1>2, <2>1, <2>2 DEF TypeOK, TInv, Typed
<1>4. FiniteTables
  BY <1>2, FS_EmptySet DEF FiniteTables
<1>5. MoneyAddsUp
  <2>1. ASSUME NEW v \in Warehouses PROVE w_ytd[v] = SumFunction([e \in Districts |-> d_ytd[<<e, v>>]])
    <3> DEFINE f == [e \in Districts |-> d_ytd[<<e, v>>]]
    <3>1. DOMAIN f = Districts /\ \A e \in Districts : f[e] = 0
      BY DEF Init, DW
    <3> HIDE DEF f
    <3>2. SumFunction(f) = 0
      BY <3>1, SumOfZeros, TpccAssumption
    <3> QED BY <3>2 DEF f, Init
  <2>2. ASSUME NEW k \in DW
        PROVE  d_ytd[k] = SumFunction([e \in Customers |-> customer[<<e, k[1], k[2]>>].ytd])
    <3> DEFINE f == [e \in Customers |-> customer[<<e, k[1], k[2]>>].ytd]
    <3>1. DOMAIN f = Customers /\ \A e \in Customers : f[e] = 0
      BY DEF Init, DW, CDW
    <3> HIDE DEF f
    <3>2. SumFunction(f) = 0
      BY <3>1, SumOfZeros, TpccAssumption
    <3> QED BY <3>2 DEF f, Init
  <2>3. ASSUME NEW r \in CDW
        PROVE  /\ customer[r].deliveries = Cardinality(Delivered(r))
               /\ customer[r].balance + customer[r].ytd = Charged(r)
    <3>1. Delivered(r) = {}
      BY <1>2 DEF Delivered
    <3> DEFINE f == [k \in Delivered(r) |-> Total(k)]
    <3>2. DOMAIN f = {}
      BY <3>1
    <3> HIDE DEF f
    <3>3. Charged(r) = 0
      BY <3>2, SumOfNone DEF Charged, f
    <3>4. Cardinality(Delivered(r)) = 0
      BY <3>1, FS_EmptySet
    <3>5. customer[r].deliveries = 0 /\ customer[r].balance = 0 /\ customer[r].ytd = 0
      BY DEF Init
    <3> QED BY <3>3, <3>4, <3>5
  <2> QED BY <2>1, <2>2, <2>3, MoneyForm
<1>6. StockAccountsForSales
  <2> SUFFICES ASSUME NEW s \in DOMAIN stock
               PROVE  (LoadedStock - SumFunction(Sold(s)) - stock[s]) % 100 = 0
    BY StockForm
  <2>1. DOMAIN Sold(s) = {}
    BY <1>2 DEF Sold, SoldLines
  <2>2. SumFunction(Sold(s)) = 0
    BY <2>1, SumOfNone
  <2>3. stock[s] = LoadedStock /\ LoadedStock \in 1..100
    BY TpccAssumption DEF Init
  <2> QED BY <2>2, <2>3
<1> QED BY <1>1, <1>3, <1>4, <1>5, <1>6 DEF MInv

LEMMA MInvStandsStill ==
  ASSUME MInv, UNCHANGED tables, UNCHANGED committed
  PROVE  MInv'
<1> USE DEF tables
<1>1. TInv'
  BY StandsStill DEF MInv
<1>2. TypeOK' /\ FiniteTables'
  BY DEF MInv, TypeOK, FiniteTables
<1>3. MoneyAddsUp'
  BY DEF MInv, MoneyAddsUp, Total, LineKeys
<1>4. StockAccountsForSales'
  BY DEF MInv, StockAccountsForSales, LineKeys
<1> QED BY <1>1, <1>2, <1>3, <1>4 DEF MInv

LEMMA StoredKeepsMInv == MInv /\ [Next]_vars => MInv'
<1> SUFFICES ASSUME MInv, [Next]_vars PROVE MInv'
  OBVIOUS
<1>1. CASE UNCHANGED vars
  BY <1>1, MInvStandsStill DEF vars
<1>2. ASSUME NEW w \in Warehouses, Post(w) PROVE MInv'
  BY <1>2, NewOrderKeepsMInv, PaymentKeepsMInv, DeliveryKeepsMInv DEF Post
<1> QED BY <1>1, <1>2 DEF Next

----------------------------------------------------------------------------
(* Tasks and rows.                                                         *)

LEMMA TaskFields ==
  ASSUME NEW t \in Tasks
  PROVE  /\ t.op \in {"neworder", "payment", "orderstatus", "delivery", "stocklevel"}
         /\ t.w \in Warehouses
         /\ t.op # "delivery" => t.d \in Districts
         /\ t.op \in {"neworder", "payment", "orderstatus"} => t.c \in Customers
         /\ t.op = "neworder" => t.lines \in LineLists
<1>1. t \in TaskSet
  BY ClientsAssumption
<1>2. CASE t \in [op : {"neworder"}, w : Warehouses, d : Districts, c : Customers, lines : LineLists]
  BY <1>2
<1>3. CASE t \in [op : {"payment", "orderstatus"}, w : Warehouses, d : Districts, c : Customers]
  BY <1>3
<1>4. CASE t \in [op : {"delivery"}, w : Warehouses]
  BY <1>4
<1>5. CASE t \in [op : {"stocklevel"}, w : Warehouses, d : Districts]
  BY <1>5
<1> QED BY <1>1, <1>2, <1>3, <1>4, <1>5 DEF TaskSet

(* The rows that decide whether a commit is accepted.                      *)
OrderRows == {Row("next_o", k) : k \in DW} \cup {Row("stock", k) : k \in Items \X Warehouses}

LEMMA NewOrderRows ==
  ASSUME NEW t \in Tasks, t.op = "neworder"
  PROVE  /\ NewOrderBatch(t) \subseteq OrderRows
         /\ Row("next_o", <<t.d, t.w>>) \in NewOrderBatch(t)
         /\ \A n \in DOMAIN t.lines : Row("stock", StockKey(t.lines[n])) \in NewOrderBatch(t)
<1>1. <<t.d, t.w>> \in DW /\ t.lines \in Seq(Lines)
  BY TaskFields, TpccAssumption DEF DW
<1>2. \A n \in DOMAIN t.lines : StockKey(t.lines[n]) \in Items \X Warehouses
  <2>1. \A n \in DOMAIN t.lines : t.lines[n] \in Lines
    BY <1>1
  <2> QED BY <2>1 DEF StockKey, Lines
<1> QED BY <1>1, <1>2 DEF NewOrderBatch, OrderRows

----------------------------------------------------------------------------
(* The inductive invariant.                                                *)

(* In stored mode nobody runs an interactive transaction.                  *)
Idle(a) == task[a] = NoTask /\ phase[a] = 1 /\ reads[a] = Empty

ModeOK ==
  /\ mode \in {"interactive", "stored"}
  /\ mode = "stored" => \A a \in Clients : Idle(a)

ClientsShape ==
  /\ task \in [Clients -> Tasks \cup {NoTask, Dead}]
  /\ phase \in [Clients -> 1..4]
  /\ DOMAIN reads = Clients
  /\ \A row \in DOMAIN version : version[row] \in Nat
  /\ \A a \in Clients : task[a] = NoTask => Idle(a)

(* A row that has kept its version has kept its value.                     *)
Fresh(a) ==
  \A row \in DOMAIN reads[a] \cap OrderRows :
    /\ reads[a][row].version \in Nat
    /\ reads[a][row].version <= Version(row)
    /\ reads[a][row].version = Version(row) => reads[a][row].value = RowValue(row)

AInv ==
  /\ TInv
  /\ ModeOK
  /\ ClientsShape
  /\ \A a \in Clients : Fresh(a)

LEMMA IdleIsFresh ==
  ASSUME NEW a, reads[a] = Empty
  PROVE  Fresh(a)
BY DEF Fresh, Empty

LEMMA VersionIsNat == ClientsShape => \A row : Version(row) \in Nat
BY DEF ClientsShape, Version

LEMMA InitAInv == ClientsInit => AInv
<1> SUFFICES ASSUME ClientsInit PROVE AInv
  OBVIOUS
<1>1. TInv
  BY InitTInv DEF ClientsInit
<1>2. ModeOK
  BY DEF ClientsInit, ModeOK, Idle
<1>3. ClientsShape
  BY DEF ClientsInit, ClientsShape, Empty, Idle
<1>4. \A a \in Clients : Fresh(a)
  BY IdleIsFresh DEF ClientsInit
<1> QED BY <1>1, <1>2, <1>3, <1>4 DEF AInv

(* The commit of a new order that the store accepts is a NewOrder of the   *)
(* stored procedures.                                                      *)
LEMMA CommitIsNewOrder ==
  ASSUME AInv, NEW a \in Clients, CommitNewOrder(a)
  PROVE  /\ task[a] \in Tasks /\ task[a].op = "neworder"
         /\ NewOrder(task[a].w, task[a].d, task[a].c, task[a].lines)
         /\ version' = With(version, [row \in PutRows(task[a], next_o[<<task[a].d, task[a].w>>]) |->
                                        Version(row) + 1])
<1> DEFINE t == task[a]
           o == Seen(a)[Row("next_o", <<t.d, t.w>>)]
           quantities == [k \in {StockKey(t.lines[n]) : n \in DOMAIN t.lines} |->
                            Seen(a)[Row("stock", k)]]
<1>1. /\ t.op = "neworder" /\ HasRead(a) /\ Current(a)
      /\ PutOrder(t.w, t.d, t.c, t.lines, o, quantities)
      /\ version' = With(version, [row \in PutRows(t, o) |-> Version(row) + 1])
      /\ Finish(a)
  BY DEF CommitNewOrder
<1>2. t \in Tasks
  BY <1>1 DEF AInv, ClientsShape, HasRead, BatchRead, Busy
<1>3. NewOrderBatch(t) \subseteq DOMAIN reads[a]
  <2>1. Batch(t, phase[a], Seen(a)) \subseteq DOMAIN reads[a]
    BY <1>1 DEF HasRead, BatchRead
  <2>2. Batch(t, phase[a], Seen(a)) = NewOrderBatch(t)
    BY <1>1 DEF Batch
  <2> QED BY <2>1, <2>2
<1>4. \A row \in NewOrderBatch(t) : Seen(a)[row] = RowValue(row)
  <2> SUFFICES ASSUME NEW row \in NewOrderBatch(t) PROVE Seen(a)[row] = RowValue(row)
    OBVIOUS
  <2>1. row \in DOMAIN reads[a] /\ row \in OrderRows
    BY <1>1, <1>2, <1>3, NewOrderRows
  <2>2. reads[a][row].version = Version(row)
    BY <1>1, <2>1 DEF Current
  <2>3. reads[a][row].value = RowValue(row)
    BY <2>1, <2>2 DEF AInv, Fresh
  <2> QED BY <2>1, <2>3 DEF Seen
<1>5. o = next_o[<<t.d, t.w>>]
  BY <1>1, <1>2, <1>4, NewOrderRows DEF RowValue, Row
<1>6. \A n \in DOMAIN t.lines : quantities[StockKey(t.lines[n])] = stock[StockKey(t.lines[n])]
  BY <1>1, <1>2, <1>4, NewOrderRows DEF RowValue, Row
<1>7. StockPuts(t.lines, quantities) = StockPuts(t.lines, stock)
  <2> HIDE DEF t, o, quantities
  <2> QED BY <1>6 DEF StockPuts
<1>8. committed' = committed
  BY <1>1 DEF Finish
<1> QED BY <1>1, <1>2, <1>5, <1>7, <1>8 DEF NewOrder, PutOrder

(* It puts a row or leaves its value alone.                                *)
LEMMA CommitChangesVersions ==
  ASSUME AInv, NEW a \in Clients, CommitNewOrder(a), NEW row \in OrderRows
  PROVE  \/ Version(row)' = Version(row) + 1
         \/ Version(row)' = Version(row) /\ RowValue(row)' = RowValue(row)
<1> DEFINE t == task[a]
           o == next_o[<<t.d, t.w>>]
           puts == [r \in PutRows(t, o) |-> Version(r) + 1]
<1>1. /\ t \in Tasks /\ t.op = "neworder"
      /\ NewOrder(t.w, t.d, t.c, t.lines)
      /\ version' = With(version, puts)
  BY CommitIsNewOrder
<1>2. /\ DOMAIN version' = DOMAIN version \cup PutRows(t, o)
      /\ \A r \in PutRows(t, o) : version'[r] = Version(r) + 1
      /\ \A r \in DOMAIN version \ PutRows(t, o) : version'[r] = version[r]
  <2>1. DOMAIN puts = PutRows(t, o) /\ \A r \in PutRows(t, o) : puts[r] = Version(r) + 1
    OBVIOUS
  <2> HIDE DEF puts
  <2>2. /\ DOMAIN With(version, puts) = DOMAIN version \cup DOMAIN puts
        /\ \A r \in DOMAIN puts : With(version, puts)[r] = puts[r]
        /\ \A r \in DOMAIN version \ DOMAIN puts : With(version, puts)[r] = version[r]
    BY WithRows
  <2> QED BY <1>1, <2>1, <2>2
<1>3. CASE row \in PutRows(t, o)
  <2> HIDE DEF t, o
  <2> QED BY <1>2, <1>3 DEF Version
<1>4. CASE row \notin PutRows(t, o)
  <2>1. Version(row)' = Version(row)
    <3> HIDE DEF t, o
    <3> QED BY <1>2, <1>4 DEF Version
  <2>2. CASE \E k \in DW : row = Row("next_o", k)
    <3>1. PICK k \in DW : row = Row("next_o", k)
      BY <2>2
    <3>2. k # <<t.d, t.w>>
      BY <1>4, <3>1 DEF PutRows
    <3>3. next_o'[k] = next_o[k]
      BY <1>1, <3>2 DEF NewOrder, PutOrder, AInv, TInv, Typed
    <3> QED BY <2>1, <3>1, <3>3 DEF RowValue, Row
  <2>3. CASE \E k \in Items \X Warehouses : row = Row("stock", k)
    <3>1. PICK k \in Items \X Warehouses : row = Row("stock", k)
      BY <2>3
    <3>2. \A n \in DOMAIN t.lines : k # StockKey(t.lines[n])
      BY <1>4, <3>1 DEF PutRows
    <3>3. k \notin DOMAIN StockPuts(t.lines, stock)
      BY <3>2 DEF StockPuts
    <3>4. stock'[k] = stock[k]
      <4>1. stock' = With(stock, StockPuts(t.lines, stock))
        BY <1>1 DEF NewOrder, PutOrder
      <4>2. \A j \in DOMAIN stock \ DOMAIN StockPuts(t.lines, stock) :
              With(stock, StockPuts(t.lines, stock))[j] = stock[j]
        BY WithRows
      <4> QED BY <3>1, <3>3, <4>1, <4>2 DEF AInv, TInv, Typed
    <3> QED BY <2>1, <3>1, <3>4 DEF RowValue, Row
  <2> QED BY <2>2, <2>3 DEF OrderRows
<1> QED BY <1>3, <1>4

(* What Finish leaves of a client.                                         *)
LEMMA FinishShape ==
  ASSUME ClientsShape, NEW a \in Clients, Finish(a)
  PROVE  /\ Idle(a)'
         /\ \A b \in Clients \ {a} : task'[b] = task[b] /\ phase'[b] = phase[b] /\ reads'[b] = reads[b]
         /\ task' \in [Clients -> Tasks \cup {NoTask, Dead}]
         /\ phase' \in [Clients -> 1..4]
         /\ DOMAIN reads' = Clients
BY DEF ClientsShape, Finish, Idle

LEMMA FinishKeeps ==
  ASSUME AInv, NEW a \in Clients, Finish(a), UNCHANGED <<tables, version>>, mode = "interactive"
  PROVE  AInv'
<1>1. TInv'
  BY StandsStill DEF AInv, Finish
<1>2. ModeOK'
  BY DEF AInv, ModeOK, Finish
<1>3. ClientsShape'
  BY FinishShape DEF AInv, ClientsShape, Idle
<1>4. ASSUME NEW b \in Clients PROVE Fresh(b)'
  <2>1. \A row : Version(row)' = Version(row) /\ RowValue(row)' = RowValue(row)
    BY DEF Version, RowValue, tables, InTable
  <2>2. CASE b = a
    BY <2>2, FinishShape DEF AInv, Idle, Fresh, Empty
  <2>3. CASE b # a
    BY <2>1, <2>3, FinishShape DEF AInv, Fresh
  <2> QED BY <2>2, <2>3
<1> QED BY <1>1, <1>2, <1>3, <1>4 DEF AInv

LEMMA CommitKeeps ==
  ASSUME AInv, NEW a \in Clients, CommitNewOrder(a), mode = "interactive"
  PROVE  AInv'
<1>1. TInv'
  <2>1. task[a].w \in Warehouses /\ task[a].d \in Districts /\ task[a].c \in Customers
        /\ task[a].lines \in LineLists
    BY CommitIsNewOrder, TaskFields
  <2> QED BY <2>1, CommitIsNewOrder, PutOrderKeeps DEF AInv
<1>2. Finish(a)
  BY DEF CommitNewOrder
<1>3. ModeOK'
  BY <1>2 DEF AInv, ModeOK, Finish
<1>4. \A row \in DOMAIN version' : version'[row] \in Nat
  <2> DEFINE puts == [row \in PutRows(task[a], next_o[<<task[a].d, task[a].w>>]) |-> Version(row) + 1]
  <2>1. \A row \in DOMAIN puts : puts[row] \in Nat
    BY VersionIsNat DEF AInv
  <2>2. version' = With(version, puts)
    BY CommitIsNewOrder
  <2> HIDE DEF puts
  <2>3. /\ DOMAIN With(version, puts) = DOMAIN version \cup DOMAIN puts
        /\ \A r \in DOMAIN puts : With(version, puts)[r] = puts[r]
        /\ \A r \in DOMAIN version \ DOMAIN puts : With(version, puts)[r] = version[r]
    BY WithRows
  <2> QED BY <2>1, <2>2, <2>3 DEF AInv, ClientsShape
<1>5. ClientsShape'
  BY <1>2, <1>4, FinishShape DEF AInv, ClientsShape, Idle
<1>6. ASSUME NEW b \in Clients PROVE Fresh(b)'
  <2>1. CASE b = a
    BY <1>2, <2>1, FinishShape DEF AInv, Idle, Fresh, Empty
  <2>2. CASE b # a
    <3>1. reads'[b] = reads[b]
      BY <1>2, <2>2, FinishShape DEF AInv
    <3> SUFFICES ASSUME NEW row \in DOMAIN reads[b] \cap OrderRows
                 PROVE  /\ reads[b][row].version \in Nat
                        /\ reads[b][row].version <= Version(row)'
                        /\ reads[b][row].version = Version(row)' => reads[b][row].value = RowValue(row)'
      BY <3>1 DEF Fresh, OrderRows
    <3>2. /\ reads[b][row].version \in Nat /\ Version(row) \in Nat
          /\ reads[b][row].version <= Version(row)
          /\ reads[b][row].version = Version(row) => reads[b][row].value = RowValue(row)
      BY VersionIsNat DEF AInv, Fresh
    <3>3. \/ Version(row)' = Version(row) + 1
          \/ Version(row)' = Version(row) /\ RowValue(row)' = RowValue(row)
      BY CommitChangesVersions
    <3> QED BY <3>2, <3>3
  <2> QED BY <2>1, <2>2
<1> QED BY <1>1, <1>3, <1>5, <1>6 DEF AInv

(* The steps that change nothing but the task, phase or reads of a client. *)
LEMMA ReadKeeps ==
  ASSUME AInv, NEW a \in Clients, Read(a), mode = "interactive"
  PROVE  AInv'
<1>1. PICK row \in Batch(task[a], phase[a], Seen(a)) \ DOMAIN reads[a] :
        reads' = [reads EXCEPT ![a] =
                    With(@, [r \in {row} |-> [value |-> RowValue(r), version |-> Version(r)]])]
  BY DEF Read
<1>2. UNCHANGED <<tables, committed, mode, task, phase, version>> /\ Busy(a)
  BY DEF Read
<1> DEFINE puts == [r \in {row} |-> [value |-> RowValue(r), version |-> Version(r)]]
<1>3. /\ DOMAIN reads' = Clients
      /\ \A b \in Clients \ {a} : reads'[b] = reads[b]
      /\ reads'[a] = With(reads[a], puts)
  BY <1>1 DEF AInv, ClientsShape
<1>4. /\ DOMAIN reads'[a] = DOMAIN reads[a] \cup {row}
      /\ reads'[a][row] = [value |-> RowValue(row), version |-> Version(row)]
      /\ \A r \in DOMAIN reads[a] : reads'[a][r] = reads[a][r]
  <2>1. DOMAIN puts = {row} /\ puts[row] = [value |-> RowValue(row), version |-> Version(row)]
    OBVIOUS
  <2> HIDE DEF puts
  <2>2. /\ DOMAIN With(reads[a], puts) = DOMAIN reads[a] \cup DOMAIN puts
        /\ \A r \in DOMAIN puts : With(reads[a], puts)[r] = puts[r]
        /\ \A r \in DOMAIN reads[a] \ DOMAIN puts : With(reads[a], puts)[r] = reads[a][r]
    BY WithRows
  <2> QED BY <1>1, <1>3, <2>1, <2>2
<1>5. TInv'
  BY <1>2, StandsStill DEF AInv
<1>6. ModeOK'
  BY <1>2 DEF AInv, ModeOK
<1>7. ClientsShape'
  <2>1. task[a] # NoTask
    BY <1>2 DEF Busy
  <2> QED BY <1>2, <1>3, <2>1 DEF AInv, ClientsShape, Idle
<1>8. ASSUME NEW b \in Clients PROVE Fresh(b)'
  <2>1. \A r : Version(r)' = Version(r) /\ RowValue(r)' = RowValue(r) /\ Version(r) \in Nat
    BY <1>2, VersionIsNat DEF Version, RowValue, tables, InTable, AInv
  <2>2. CASE b = a
    BY <1>4, <2>1, <2>2 DEF AInv, Fresh, OrderRows
  <2>3. CASE b # a
    BY <1>3, <2>1, <2>3 DEF AInv, Fresh, OrderRows
  <2> QED BY <2>2, <2>3
<1> QED BY <1>5, <1>6, <1>7, <1>8 DEF AInv

LEMMA QuietKeeps ==
  ASSUME AInv, NEW a \in Clients, mode = "interactive",
         UNCHANGED <<tables, committed, mode, reads, version>>,
         task' \in [Clients -> Tasks \cup {NoTask, Dead}], phase' \in [Clients -> 1..4],
         \A b \in Clients : task'[b] = NoTask => task[b] = NoTask /\ phase'[b] = phase[b]
  PROVE  AInv'
<1>1. TInv'
  BY StandsStill DEF AInv
<1>2. ModeOK' /\ ClientsShape'
  BY DEF AInv, ModeOK, ClientsShape, Idle
<1>3. \A b \in Clients : Fresh(b)'
  <2>1. \A row : Version(row)' = Version(row) /\ RowValue(row)' = RowValue(row)
    BY DEF Version, RowValue, tables, InTable
  <2> QED BY <2>1 DEF AInv, Fresh, OrderRows
<1> QED BY <1>1, <1>2, <1>3 DEF AInv

LEMMA InteractiveKeeps ==
  ASSUME AInv, NEW a \in Clients, Client(a), mode = "interactive"
  PROVE  AInv'
<1> USE DEF clientVars
<1>1. CASE Begin(a)
  <2>1. PICK t \in Tasks : task' = [task EXCEPT ![a] = t]
    BY <1>1 DEF Begin
  <2>2. /\ task' \in [Clients -> Tasks \cup {NoTask, Dead}]
        /\ \A b \in Clients : task'[b] = NoTask => task[b] = NoTask
    BY <1>1, <2>1 DEF Begin, AInv, ClientsShape
  <2> QED BY <1>1, <2>2, QuietKeeps DEF Begin, AInv, ClientsShape
<1>2. CASE Read(a)
  BY <1>2, ReadKeeps
<1>3. CASE NextBatch(a)
  <2>1. task[a] \in Tasks /\ phase[a] \in 1..4 /\ phase[a] < Batches(task[a])
    BY <1>3 DEF NextBatch, BatchRead, Busy, AInv, ClientsShape
  <2>2. Batches(task[a]) \in 1..4
    BY <2>1, TaskFields DEF Batches
  <2>3. phase' \in [Clients -> 1..4]
    BY <1>3, <2>1, <2>2 DEF NextBatch, AInv, ClientsShape
  <2>4. \A b \in Clients : task'[b] = NoTask => phase'[b] = phase[b]
    BY <1>3 DEF NextBatch, BatchRead, Busy, AInv, ClientsShape
  <2> QED BY <1>3, <2>3, <2>4, QuietKeeps DEF NextBatch, AInv, ClientsShape
<1>4. CASE GetFails(a)
  <2>1. CASE Finish(a)
    BY <1>4, <2>1, FinishKeeps DEF GetFails
  <2>2. CASE ~Finish(a)
    <3>1. /\ task' = [task EXCEPT ![a] = Dead]
          /\ UNCHANGED <<tables, committed, mode, phase, reads, version>>
      BY <1>4, <2>2 DEF GetFails
    <3>2. Dead # NoTask
      BY DEF Dead, NoTask
    <3> QED BY <3>1, <3>2, QuietKeeps DEF AInv, ClientsShape
  <2> QED BY <2>1, <2>2
<1>5. CASE EarlyReturn(a) \/ CommitDelivery(a) \/ Conflict(a) \/ ReturnUncommitted(a)
  BY <1>5, FinishKeeps DEF EarlyReturn, CommitDelivery, Conflict, ReturnUncommitted
<1>6. CASE CommitPayment(a)
  BY <1>6, FinishKeeps DEF CommitPayment
<1>7. CASE CommitNewOrder(a)
  BY <1>7, CommitKeeps
<1> QED BY <1>1, <1>2, <1>3, <1>4, <1>5, <1>6, <1>7 DEF Client

LEMMA StepAInv == AInv /\ [ClientsNext]_<<vars, clientVars>> => AInv'
<1> SUFFICES ASSUME AInv, [ClientsNext]_<<vars, clientVars>> PROVE AInv'
  OBVIOUS
<1>1. CASE mode = "interactive" /\ \E a \in Clients : Client(a)
  BY <1>1, InteractiveKeeps
<1>2. CASE [Next]_vars /\ UNCHANGED clientVars /\ (mode = "stored" \/ UNCHANGED vars)
  <2>1. TInv'
    BY <1>2, StoredKeeps DEF AInv
  <2>2. ModeOK' /\ ClientsShape'
    BY <1>2 DEF AInv, ModeOK, ClientsShape, Idle, clientVars
  <2>3. ASSUME NEW a \in Clients PROVE Fresh(a)'
    <3>1. CASE mode = "stored"
      BY <1>2, <3>1 DEF AInv, ModeOK, Idle, Fresh, Empty, clientVars
    <3>2. CASE UNCHANGED vars
      <4>1. \A row : Version(row)' = Version(row) /\ RowValue(row)' = RowValue(row)
        BY <1>2, <3>2 DEF Version, RowValue, vars, tables, InTable, clientVars
      <4> QED BY <1>2, <4>1 DEF AInv, Fresh, OrderRows, clientVars
    <3> QED BY <1>2, <3>1, <3>2
  <2> QED BY <2>1, <2>2, <2>3 DEF AInv
<1> QED BY <1>1, <1>2 DEF ClientsNext

LEMMA AlwaysAInv == ClientsSpec => []AInv
BY InitAInv, StepAInv, PTL DEF ClientsSpec

----------------------------------------------------------------------------
(* The results about the tables.                                           *)

(* A client changes the tables by the NewOrder of the stored procedures or *)
(* not at all, for any number of clients: the versions it has read are     *)
(* enough to make its two batches atomic.                                  *)
THEOREM InteractiveOrdersAreAtomic == ClientsSpec => OrdersAreAtomic
<1> DEFINE Atomic ==
      \E w \in Warehouses, d \in Districts, c \in Customers, lines \in LineLists :
        NewOrder(w, d, c, lines)
<1>1. ASSUME AInv, [ClientsNext]_<<vars, clientVars>>, mode = "interactive"
      PROVE  Atomic \/ UNCHANGED tables
  <2>1. ASSUME NEW a \in Clients, CommitNewOrder(a) PROVE Atomic
    <3>1. task[a] \in Tasks /\ task[a].op = "neworder"
          /\ NewOrder(task[a].w, task[a].d, task[a].c, task[a].lines)
      BY <1>1, <2>1, CommitIsNewOrder
    <3> QED BY <3>1, TaskFields
  <2>2. ASSUME NEW a \in Clients, Client(a), ~CommitNewOrder(a) PROVE UNCHANGED tables
    BY <2>2 DEF Client, Begin, Read, NextBatch, EarlyReturn, GetFails, CommitPayment,
         CommitDelivery, Conflict, ReturnUncommitted
  <2>3. CASE UNCHANGED <<vars, clientVars>>
    BY <2>3 DEF vars
  <2> QED BY <1>1, <2>1, <2>2, <2>3 DEF ClientsNext
<1>2. AInv /\ [ClientsNext]_<<vars, clientVars>> => [mode = "interactive" => Atomic]_tables
  BY <1>1
<1> QED BY <1>2, AlwaysAInv, PTL DEF ClientsSpec, OrdersAreAtomic

(* In both modes the numbers of a district leave no gap and each order has *)
(* its lines.                                                              *)
THEOREM OrdersStayDense == ClientsSpec => []OrdersAreDense
<1>1. AInv => OrdersAreDense
  BY DenseForm DEF AInv, TInv
<1> QED BY <1>1, AlwaysAInv, PTL

(* Deliveries take the orders of a district in the order of their entry,   *)
(* each with all its lines.                                                *)
THEOREM DeliveriesKeepOrder == ClientsSpec => []DeliveredInOrder
<1>1. AInv => DeliveredInOrder
  BY DEF AInv, TInv
<1> QED BY <1>1, AlwaysAInv, PTL

(* A payment is missing in the history only where a later one of the same  *)
(* customer and millisecond replaced its row.                              *)
THEOREM HistoryIsComplete == ClientsSpec => []HistoryKeepsPayments
<1>1. AInv => HistoryKeepsPayments
  BY DEF AInv, TInv
<1> QED BY <1>1, AlwaysAInv, PTL

(* The last order of a customer is its newest, so the stored OrderStatus   *)
(* and StockLevel fail only where there is nothing to look at.             *)
THEOREM NewestIsFound == ClientsSpec => []StatusFindsTheNewest
<1>1. AInv => StatusFindsTheNewest
  BY NewestInvariant DEF AInv
<1> QED BY <1>1, AlwaysAInv, PTL

----------------------------------------------------------------------------
(* Readers.  What a client has read stays true enough while others commit: *)
(* numbers only grow, and an order, once there, stays with its lines.      *)

NextRow(t) == Row("next_o", <<t.d, t.w>>)

LastRow(t) == Row("lastOrder", <<t.c, t.d, t.w>>)

(* A StockLevel in a district with too few orders.                         *)
Excused(a) ==
  /\ task[a].op = "stocklevel"
  /\ NextRow(task[a]) \in DOMAIN reads[a]
  /\ reads[a][NextRow(task[a])].value <= Window

KnownRow(a, row, v) ==
  /\ row.table = "next_o" => row.key \in DW /\ v \in Nat /\ v <= next_o[row.key]
  /\ row.table = "lastOrder" => v = 0 \/ <<v, row.key[2], row.key[3]>> \in DOMAIN orders
  /\ row.table = "orders" =>
       IF v = Absent THEN Excused(a) ELSE row.key \in DOMAIN orders /\ v.cnt = orders[row.key].cnt
  /\ row.table = "orderLines" => v # Absent

Known(a) == \A row \in DOMAIN reads[a] : KnownRow(a, row, reads[a][row].value)

(* What the client has read before it came to its present batch.           *)
Asked(a) ==
  /\ phase[a] <= Batches(task[a])
  /\ phase[a] = 1 => \A row \in DOMAIN reads[a] : row.table # "orders"
  /\ phase[a] > 1 => /\ Batch(task[a], 1, Seen(a)) \subseteq DOMAIN reads[a]
                     /\ task[a].op = "orderstatus" => reads[a][LastRow(task[a])].value # 0
  /\ phase[a] > 2 => /\ Batch(task[a], 2, Seen(a)) \subseteq DOMAIN reads[a]
                     /\ task[a].op = "stocklevel" =>
                          \A row \in DOMAIN reads[a] :
                            row.table = "orders" => reads[a][row].value # Absent

RInv == AInv /\ \A a \in Clients : Known(a) /\ (Busy(a) => Asked(a))

LEMMA KnownMeetsNoGap == RInv => ReadersMeetNoGap
BY DEF RInv, Known, KnownRow, Excused, NextRow, ReadersMeetNoGap

LEMMA IdleIsKnown ==
  ASSUME NEW a, Idle(a)
  PROVE  Known(a) /\ ~Busy(a)
BY DEF Idle, Known, Busy, Empty

LEMMA InitRInv == ClientsInit => RInv
<1> SUFFICES ASSUME ClientsInit PROVE RInv
  OBVIOUS
<1>1. \A a \in Clients : Idle(a)
  BY DEF ClientsInit, Idle
<1> QED BY <1>1, IdleIsKnown, InitAInv DEF RInv

(* Rows of the tables as the batches ask for them.                         *)
LEMMA OrderIsThere ==
  ASSUME TInv, NEW a, NEW key \in DOMAIN orders
  PROVE  /\ RowValue(Row("orders", key)) # Absent
         /\ KnownRow(a, Row("orders", key), RowValue(Row("orders", key)))
<1> DEFINE v == RowValue(Row("orders", key))
<1>1. v = orders[key] /\ orders[key] \in Orders
  BY DEF RowValue, Row, InTable, TInv, Typed
<1>2. v # Absent
  <2>1. DOMAIN orders[key] = {"c", "cnt", "carrier"} /\ DOMAIN Absent = {"absent"}
    BY <1>1 DEF Orders, Absent
  <2> QED BY <1>1, <2>1
<1> QED BY <1>1, <1>2 DEF KnownRow, Row

LEMMA NumberIsKnown ==
  ASSUME TInv, NEW a, NEW d \in Districts, NEW w \in Warehouses
  PROVE  KnownRow(a, Row("next_o", <<d, w>>), RowValue(Row("next_o", <<d, w>>)))
BY DEF KnownRow, RowValue, Row, TInv, Typed, DW

LEMMA LinesAreThere ==
  ASSUME TInv, NEW a \in Clients, NEW R \in SUBSET DOMAIN reads[a],
         \A r \in R : /\ r.table = "orders"
                      /\ KnownRow(a, r, reads[a][r].value)
                      /\ reads[a][r].value # Absent,
         NEW row \in LineRows(R, Seen(a))
  PROVE  row.table = "orderLines" /\ KnownRow(a, row, RowValue(row))
<1>1. PICK r \in R : row \in {Row("orderLines", LineKey(r.key, n)) : n \in 1 .. Seen(a)[r].cnt}
  BY DEF LineRows
<1>2. PICK n \in 1 .. Seen(a)[r].cnt : row = Row("orderLines", LineKey(r.key, n))
  BY <1>1
<1>3. Seen(a)[r] = reads[a][r].value
  BY DEF Seen
<1>4. r.key \in DOMAIN orders /\ n \in 1..orders[r.key].cnt
  BY <1>2, <1>3 DEF KnownRow
<1>5. LineKey(r.key, n) \in DOMAIN orderLines
  BY <1>4 DEF TInv, DenseLines
<1>6. RowValue(row) = orderLines[LineKey(r.key, n)] /\ orderLines[LineKey(r.key, n)] \in OrderLines
  BY <1>2, <1>5 DEF RowValue, Row, InTable, TInv, Typed
<1>7. RowValue(row) # Absent
  <2>1. DOMAIN orderLines[LineKey(r.key, n)] = {"item", "s_w", "quantity", "amount", "delivered"}
        /\ DOMAIN Absent = {"absent"}
    BY <1>6 DEF OrderLines, Absent
  <2> QED BY <1>6, <2>1
<1> QED BY <1>2, <1>7 DEF KnownRow, Row

(* Whatever row a client asks for next is there, or it is excused.         *)
LEMMA AskedForIsKnown ==
  ASSUME RInv, NEW a \in Clients, Busy(a), NEW row \in Batch(task[a], phase[a], Seen(a))
  PROVE  /\ KnownRow(a, row, RowValue(row))
         /\ phase[a] # 2 => row.table # "orders"
<1> DEFINE t == task[a]
           seen == Seen(a)
           next == NextRow(t)
           last == LastRow(t)
<1>1. /\ t \in Tasks /\ phase[a] \in 1..4 /\ TInv
      /\ Known(a) /\ Asked(a)
  BY DEF RInv, AInv, ClientsShape, Busy
<1>2. \A r \in DOMAIN reads[a] : seen[r] = reads[a][r].value /\ KnownRow(a, r, seen[r])
  BY <1>1 DEF Seen, Known
<1>3. CASE t.op = "neworder"
  <2>1. row \in NewOrderBatch(t)
    BY <1>3 DEF Batch
  <2>2. row = Row("next_o", <<t.d, t.w>>) \/ row.table = "stock"
    BY <2>1 DEF NewOrderBatch, Row
  <2>3. CASE row = Row("next_o", <<t.d, t.w>>)
    BY <1>1, <1>3, <2>3, TaskFields, NumberIsKnown DEF Row
  <2>4. CASE row.table = "stock"
    BY <2>4 DEF KnownRow
  <2> QED BY <2>2, <2>3, <2>4
<1>4. CASE t.op = "payment"
  BY <1>4 DEF Batch
<1>5. CASE t.op = "orderstatus"
  <2>1. row \in OrderStatusBatch(t, phase[a], seen)
    BY <1>5 DEF Batch
  <2>2. CASE phase[a] = 1
    <3>1. row = last
      BY <2>1, <2>2 DEF OrderStatusBatch, LastRow
    <3>2. <<t.c, t.d, t.w>> \in CDW
      BY <1>1, <1>5, TaskFields DEF CDW
    <3>3. RowValue(row) = lastOrder[<<t.c, t.d, t.w>>]
      BY <3>1 DEF LastRow, Row, RowValue
    <3>4. lastOrder[<<t.c, t.d, t.w>>] # 0 =>
            <<lastOrder[<<t.c, t.d, t.w>>], t.d, t.w>> \in DOMAIN orders
      BY <1>1, <3>2 DEF TInv, Numbered
    <3> QED BY <2>2, <3>1, <3>3, <3>4 DEF KnownRow, LastRow, Row
  <2>3. CASE phase[a] = 2
    <3>1. row = Row("orders", <<seen[last], t.d, t.w>>)
      BY <2>1, <2>3 DEF OrderStatusBatch, LastRow
    <3>2. last \in DOMAIN reads[a] /\ reads[a][last].value # 0
      BY <1>1, <1>5, <2>3 DEF Asked, Batch, OrderStatusBatch, LastRow
    <3>3. <<seen[last], t.d, t.w>> \in DOMAIN orders
      BY <1>2, <3>2 DEF KnownRow, LastRow, Row
    <3> QED BY <1>1, <2>3, <3>1, <3>3, OrderIsThere
  <2>4. CASE phase[a] = 3
    <3> DEFINE order == Row("orders", <<seen[last], t.d, t.w>>)
    <3>1. row \in LineRows({order}, seen)
      BY <2>1, <2>4 DEF OrderStatusBatch, LastRow
    <3>2. order \in DOMAIN reads[a]
      BY <1>1, <1>5, <2>4 DEF Asked, Batch, OrderStatusBatch, LastRow
    <3>3. order.table = "orders" /\ reads[a][order].value # Absent
      BY <1>2, <1>5, <3>2 DEF KnownRow, Excused, Row
    <3>4. {order} \in SUBSET DOMAIN reads[a]
      BY <3>2
    <3> HIDE DEF order
    <3>5. row.table = "orderLines" /\ KnownRow(a, row, RowValue(row))
      BY <1>1, <1>2, <3>1, <3>2, <3>3, <3>4, LinesAreThere
    <3> QED BY <3>5
  <2>5. phase[a] # 4
    BY <1>1, <1>5 DEF Asked, Batches
  <2> QED BY <1>1, <2>2, <2>3, <2>4, <2>5
<1>6. CASE t.op = "delivery"
  <2> DEFINE due == Due(t, seen)
             oldest == {Row("orders", <<next_d[<<d, t.w>>], d, t.w>>) : d \in due}
  <2>1. /\ Batch(t, 1, seen) = {Row("next_o", <<d, t.w>>) : d \in Districts}
        /\ Batch(t, 2, seen) = oldest
        /\ Batch(t, 3, seen) = LineRows(oldest, seen)
    BY <1>6 DEF Batch, DeliveryBatch
  <2>2. CASE phase[a] = 1
    <3>0. row \in {Row("next_o", <<d, t.w>>) : d \in Districts}
      BY <2>1, <2>2
    <3>1. PICK d \in Districts : row = Row("next_o", <<d, t.w>>)
      BY <3>0
    <3> QED BY <1>1, <2>2, <3>1, TaskFields, NumberIsKnown DEF Row
  <2>3. CASE phase[a] = 2
    <3>1. PICK d \in due : row = Row("orders", <<next_d[<<d, t.w>>], d, t.w>>)
      BY <2>1, <2>3
    <3>2. d \in Districts /\ next_d[<<d, t.w>>] < seen[Row("next_o", <<d, t.w>>)]
      BY DEF Due
    <3>3. Row("next_o", <<d, t.w>>) \in DOMAIN reads[a]
      BY <1>1, <1>6, <2>3, <3>2 DEF Asked, Batch, DeliveryBatch
    <3>4. seen[Row("next_o", <<d, t.w>>)] \in Nat
          /\ seen[Row("next_o", <<d, t.w>>)] <= next_o[<<d, t.w>>]
      BY <1>2, <3>3 DEF KnownRow, Row
    <3>5. next_d[<<d, t.w>>] \in Nat \ {0} /\ next_o[<<d, t.w>>] \in Nat /\ t.w \in Warehouses
      BY <1>1, <3>2, TaskFields DEF TInv, Typed, DW
    <3>6. next_d[<<d, t.w>>] \in 1 .. next_o[<<d, t.w>>] - 1
      BY <3>2, <3>4, <3>5
    <3>7. <<next_d[<<d, t.w>>], d, t.w>> \in DOMAIN orders
      BY <1>1, <3>2, <3>5, <3>6 DEF TInv, DenseOrders
    <3> QED BY <1>1, <2>3, <3>1, <3>7, OrderIsThere
  <2>4. CASE phase[a] = 3
    <3>1. row \in LineRows(oldest, seen)
      BY <2>1, <2>4
    <3>2. oldest \in SUBSET DOMAIN reads[a]
      <4>1. Batch(t, 2, seen) \subseteq DOMAIN reads[a]
        BY <1>1, <2>4 DEF Asked
      <4> HIDE DEF oldest
      <4> QED BY <2>1, <4>1
    <3>3. ASSUME NEW r \in oldest PROVE r.table = "orders"
      <4> HIDE DEF due
      <4>1. PICK d \in due : r = Row("orders", <<next_d[<<d, t.w>>], d, t.w>>)
        OBVIOUS
      <4> QED BY <4>1 DEF Row
    <3> HIDE DEF oldest
    <3>4. \A r \in oldest : reads[a][r].value # Absent
      BY <1>2, <1>6, <3>2, <3>3 DEF KnownRow, Excused
    <3>5. row.table = "orderLines" /\ KnownRow(a, row, RowValue(row))
      BY <1>1, <1>2, <3>1, <3>2, <3>3, <3>4, LinesAreThere
    <3> QED BY <3>5
  <2>5. phase[a] # 4
    BY <1>1, <1>6 DEF Asked, Batches
  <2> QED BY <1>1, <2>2, <2>3, <2>4, <2>5
<1>7. CASE t.op = "stocklevel"
  <2> DEFINE recent == {Row("orders", <<o, t.d, t.w>>) : o \in seen[next] - Window .. seen[next] - 1}
  <2>1. /\ Batch(t, 1, seen) = {next}
        /\ Batch(t, 2, seen) = recent
        /\ Batch(t, 3, seen) = LineRows(recent, seen)
        /\ Batch(t, 4, seen) = StockLevelBatch(t, 4, seen)
    BY <1>7 DEF Batch, StockLevelBatch, NextRow
  <2>0. t.d \in Districts /\ t.w \in Warehouses
    BY <1>1, <1>7, TaskFields
  <2>2. CASE phase[a] = 1
    <3>1. row = Row("next_o", <<t.d, t.w>>)
      BY <2>1, <2>2 DEF NextRow
    <3> QED BY <1>1, <2>0, <2>2, <3>1, NumberIsKnown DEF Row
  <2>3. CASE phase[a] = 2
    <3>0. row \in recent
      BY <2>1, <2>3
    <3>1. PICK o \in seen[next] - Window .. seen[next] - 1 : row = Row("orders", <<o, t.d, t.w>>)
      BY <3>0
    <3>2. next \in DOMAIN reads[a]
      BY <1>1, <2>1, <2>3 DEF Asked
    <3>3. seen[next] \in Nat /\ seen[next] <= next_o[<<t.d, t.w>>] /\ next_o[<<t.d, t.w>>] \in Nat
      BY <1>1, <1>2, <2>0, <3>2 DEF KnownRow, NextRow, Row, TInv, Typed, DW
    <3>4. Window \in Nat /\ o \in Int
      BY <3>1, TpccAssumption
    <3>5. CASE 1 <= o
      <4>1. o \in 1 .. next_o[<<t.d, t.w>>] - 1
        BY <3>1, <3>3, <3>4, <3>5
      <4>2. <<o, t.d, t.w>> \in DOMAIN orders
        BY <1>1, <2>0, <4>1 DEF TInv, DenseOrders
      <4> QED BY <1>1, <2>3, <3>1, <4>2, OrderIsThere
    <3>6. CASE ~(1 <= o)
      <4>1. seen[next] <= Window
        BY <3>1, <3>3, <3>4, <3>6
      <4>2. Excused(a)
        BY <1>2, <1>7, <3>2, <4>1 DEF Excused
      <4>3. <<o, t.d, t.w>> \notin DOMAIN orders
        <5>1. ASSUME <<o, t.d, t.w>> \in DOMAIN orders PROVE FALSE
          <6>1. 1 <= <<o, t.d, t.w>>[1]
            BY <1>1, <5>1, OrderKeys DEF TInv
          <6> QED BY <3>6, <6>1
        <5> QED BY <5>1
      <4>4. RowValue(row) = Absent
        BY <3>1, <4>3 DEF RowValue, Row, InTable
      <4> QED BY <2>3, <3>1, <4>2, <4>4 DEF KnownRow, Row
    <3> QED BY <3>4, <3>5, <3>6
  <2>4. CASE phase[a] = 3
    <3>1. row \in LineRows(recent, seen)
      BY <2>1, <2>4
    <3>2. recent \in SUBSET DOMAIN reads[a]
      BY <1>1, <2>1, <2>4 DEF Asked
    <3>3. \A r \in recent : r.table = "orders"
      BY DEF Row
    <3> HIDE DEF recent
    <3>4. \A r \in recent : reads[a][r].value # Absent
      BY <1>1, <1>7, <2>4, <3>2, <3>3 DEF Asked
    <3>5. row.table = "orderLines" /\ KnownRow(a, row, RowValue(row))
      BY <1>1, <1>2, <3>1, <3>2, <3>3, <3>4, LinesAreThere
    <3> QED BY <3>5
  <2>5. CASE phase[a] = 4
    <3>1. row.table = "stock"
      BY <2>1, <2>5 DEF StockLevelBatch, Row
    <3> QED BY <3>1 DEF KnownRow
  <2> QED BY <1>1, <2>2, <2>3, <2>4, <2>5
<1> QED BY <1>1, <1>3, <1>4, <1>5, <1>6, <1>7, TaskFields

(* The first two batches depend on nothing but the rows of the first.      *)
LEMMA BatchesAgree ==
  ASSUME NEW t \in Tasks, NEW s1, NEW s2,
         \A row \in Batch(t, 1, s1) : s1[row] = s2[row]
  PROVE  Batch(t, 1, s2) = Batch(t, 1, s1) /\ Batch(t, 2, s2) = Batch(t, 2, s1)
<1>1. CASE t.op = "neworder" \/ t.op = "payment"
  BY <1>1 DEF Batch
<1>2. CASE t.op = "orderstatus"
  BY <1>2 DEF Batch, OrderStatusBatch
<1>3. CASE t.op = "delivery"
  <2>1. Batch(t, 1, s1) = {Row("next_o", <<d, t.w>>) : d \in Districts}
        /\ Batch(t, 1, s2) = Batch(t, 1, s1)
    BY <1>3 DEF Batch, DeliveryBatch
  <2>2. Due(t, s1) = Due(t, s2)
    BY <2>1 DEF Due
  <2> QED BY <1>3, <2>1, <2>2 DEF Batch, DeliveryBatch
<1>4. CASE t.op = "stocklevel"
  BY <1>4 DEF Batch, StockLevelBatch
<1> QED BY <1>1, <1>2, <1>3, <1>4, TaskFields

(* What commits of others do to the rows that readers follow.              *)
Grows ==
  /\ next_d' = next_d
  /\ \A k \in DW : next_o[k] <= next_o'[k]
  /\ \A k \in DOMAIN orders : k \in DOMAIN orders' /\ orders'[k].cnt = orders[k].cnt

LEMMA StillGrows ==
  ASSUME TInv, UNCHANGED tables
  PROVE  Grows
BY DEF Grows, tables, TInv, Typed

LEMMA NewOrderGrows ==
  ASSUME TInv, NEW w \in Warehouses, NEW d \in Districts, NEW c \in Customers,
         NEW lines \in LineLists, NewOrder(w, d, c, lines), TInv'
  PROVE  Grows
<1> DEFINE o == next_o[<<d, w>>]
           puts == [k \in {<<o, d, w>>} |-> [c |-> c, cnt |-> Len(lines), carrier |-> NoCarrier]]
<1>1. /\ orders' = With(orders, puts)
      /\ next_o' = [next_o EXCEPT ![<<d, w>>] = o + 1]
      /\ next_d' = next_d
  BY DEF NewOrder, PutOrder
<1>2. \A k \in DW : next_o[k] <= next_o'[k]
  <2>1. <<d, w>> \in DW /\ next_o \in [DW -> Nat \ {0}] /\ o \in Nat
    BY DEF DW, TInv, Typed
  <2> QED BY <1>1, <2>1
<1>3. ASSUME NEW k \in DOMAIN orders PROVE k \in DOMAIN orders' /\ orders'[k] = orders[k]
  <2>1. k # <<o, d, w>>
    <3>1. Typed /\ DenseOrders
      BY DEF TInv
    <3>2. k[1] < next_o[<<k[2], k[3]>>] /\ k[1] \in Nat
      BY <3>1, OrderKeys
    <3>3. o \in Nat
      BY DEF TInv, Typed, DW
    <3> QED BY <3>2, <3>3
  <2>2. DOMAIN puts = {<<o, d, w>>}
    OBVIOUS
  <2> HIDE DEF puts
  <2>3. /\ DOMAIN With(orders, puts) = DOMAIN orders \cup DOMAIN puts
        /\ \A j \in DOMAIN orders \ DOMAIN puts : With(orders, puts)[j] = orders[j]
    BY WithRows
  <2> QED BY <1>1, <2>1, <2>2, <2>3
<1> QED BY <1>1, <1>2, <1>3 DEF Grows

LEMMA RowStaysKnown ==
  ASSUME TInv, TInv', Grows, NEW a, NEW row, NEW v, KnownRow(a, row, v), Excused(a) => Excused(a)'
  PROVE  KnownRow(a, row, v)'
<1>1. row.table = "next_o" => row.key \in DW /\ v \in Nat /\ v <= next_o'[row.key]
  <2>1. ASSUME NEW k \in DW PROVE next_o[k] \in Nat /\ next_o'[k] \in Nat /\ next_o[k] <= next_o'[k]
    BY DEF TInv, Typed, Grows
  <2> QED BY <2>1 DEF KnownRow
<1>2. row.table = "lastOrder" => v = 0 \/ <<v, row.key[2], row.key[3]>> \in DOMAIN orders'
  BY DEF KnownRow, Grows
<1>3. row.table = "orders" =>
        IF v = Absent THEN Excused(a)' ELSE row.key \in DOMAIN orders' /\ v.cnt = orders'[row.key].cnt
  BY DEF KnownRow, Grows
<1>4. row.table = "orderLines" => v # Absent
  BY DEF KnownRow
<1> QED BY <1>1, <1>2, <1>3, <1>4 DEF KnownRow

(* A client that takes no step itself.                                     *)
LEMMA WaitingStaysKnown ==
  ASSUME RInv, AInv', Grows, NEW a \in Clients,
         task'[a] = task[a], phase'[a] = phase[a], reads'[a] = reads[a]
  PROVE  Known(a)' /\ (Busy(a)' => Asked(a)')
<1>1. Excused(a) => Excused(a)'
  BY DEF Excused, NextRow
<1>2. \A row \in DOMAIN reads[a] : KnownRow(a, row, reads[a][row].value)'
  <2> SUFFICES ASSUME NEW row \in DOMAIN reads[a] PROVE KnownRow(a, row, reads[a][row].value)'
    OBVIOUS
  <2>1. TInv /\ TInv' /\ KnownRow(a, row, reads[a][row].value)
    BY DEF RInv, AInv, Known
  <2>2. ASSUME NEW v, v = reads[a][row].value PROVE KnownRow(a, row, v)'
    BY <1>1, <2>1, <2>2, RowStaysKnown
  <2> QED BY <2>2 DEF KnownRow
<1>3. Known(a)'
  BY <1>2 DEF Known, KnownRow
<1>4. Seen(a)' = Seen(a)
  BY DEF Seen
<1>5. \A t, n : Batch(t, n, Seen(a))' = Batch(t, n, Seen(a))
  BY <1>4 DEF Batch, NewOrderBatch, OrderStatusBatch, DeliveryBatch, Due, StockLevelBatch,
       LineRows, Grows
<1>6. Busy(a)' => Asked(a)'
  BY <1>5 DEF RInv, Busy, Asked, LastRow, Batches
<1> QED BY <1>3, <1>6

LEMMA FinishedIsKnown ==
  ASSUME RInv, AInv', Grows, NEW a \in Clients, Finish(a)
  PROVE  RInv'
<1>1. ClientsShape
  BY DEF RInv, AInv
<1> SUFFICES ASSUME NEW b \in Clients PROVE Known(b)' /\ (Busy(b)' => Asked(b)')
  BY DEF RInv
<1>2. CASE b = a
  <2>1. Idle(a)'
    BY <1>1, FinishShape
  <2> QED BY <1>2, <2>1 DEF Idle, Known, Busy, Empty
<1>3. CASE b # a
  <2>1. task'[b] = task[b] /\ phase'[b] = phase[b] /\ reads'[b] = reads[b]
    BY <1>1, <1>3, FinishShape
  <2> QED BY <2>1, WaitingStaysKnown
<1> QED BY <1>2, <1>3

(* A client whose own step leaves its reads alone.                         *)
LEMMA BeginsKnowing ==
  ASSUME RInv, AInv', NEW a \in Clients, Begin(a)
  PROVE  RInv'
<1>1. /\ \E t \in Tasks : task' = [task EXCEPT ![a] = t]
      /\ task[a] = NoTask
      /\ UNCHANGED <<tables, phase, reads>>
  BY DEF Begin
<1>2. Idle(a) /\ TInv /\ task \in [Clients -> Tasks \cup {NoTask, Dead}]
  BY <1>1 DEF RInv, AInv, ClientsShape
<1>3. Grows
  BY <1>1, <1>2, StillGrows
<1> SUFFICES ASSUME NEW b \in Clients PROVE Known(b)' /\ (Busy(b)' => Asked(b)')
  BY DEF RInv
<1>4. CASE b = a
  <2>1. phase'[a] = 1 /\ DOMAIN reads'[a] = {} /\ task'[a] \in Tasks
    BY <1>1, <1>2 DEF Idle, Empty
  <2>2. (Batches(task[a]) \in 1..4)'
    BY <2>1, TaskFields DEF Batches
  <2>3. phase'[a] <= Batches(task[a])'
    BY <2>1, <2>2
  <2> QED BY <1>4, <2>1, <2>3 DEF Known, Asked
<1>5. CASE b # a
  BY <1>1, <1>2, <1>3, <1>5, WaitingStaysKnown
<1> QED BY <1>4, <1>5

LEMMA ReadsWhatIsThere ==
  ASSUME RInv, AInv', NEW a \in Clients, Read(a)
  PROVE  RInv'
<1>1. PICK row \in Batch(task[a], phase[a], Seen(a)) \ DOMAIN reads[a] :
        reads' = [reads EXCEPT ![a] =
                    With(@, [r \in {row} |-> [value |-> RowValue(r), version |-> Version(r)]])]
  BY DEF Read
<1>2. UNCHANGED <<tables, task, phase>> /\ Busy(a)
  BY DEF Read
<1> DEFINE puts == [r \in {row} |-> [value |-> RowValue(r), version |-> Version(r)]]
<1>3. /\ \A b \in Clients \ {a} : reads'[b] = reads[b]
      /\ reads'[a] = With(reads[a], puts)
  BY <1>1 DEF RInv, AInv, ClientsShape
<1>4. /\ DOMAIN reads'[a] = DOMAIN reads[a] \cup {row}
      /\ reads'[a][row].value = RowValue(row)
      /\ \A r \in DOMAIN reads[a] : reads'[a][r] = reads[a][r]
  <2>1. DOMAIN puts = {row} /\ puts[row].value = RowValue(row)
    OBVIOUS
  <2> HIDE DEF puts
  <2>2. /\ DOMAIN With(reads[a], puts) = DOMAIN reads[a] \cup DOMAIN puts
        /\ \A r \in DOMAIN puts : With(reads[a], puts)[r] = puts[r]
        /\ \A r \in DOMAIN reads[a] \ DOMAIN puts : With(reads[a], puts)[r] = reads[a][r]
    BY WithRows
  <2> QED BY <1>1, <1>3, <2>1, <2>2
<1>5. TInv /\ TInv' /\ Grows
  BY <1>2, StillGrows DEF RInv, AInv
<1>6. Excused(a) => Excused(a)'
  BY <1>2, <1>4 DEF Excused, NextRow
<1>7. KnownRow(a, row, RowValue(row)) /\ (phase[a] # 2 => row.table # "orders")
  BY <1>1, <1>2, AskedForIsKnown
<1>8. Known(a)'
  <2>1. ASSUME NEW r \in DOMAIN reads[a] \cup {row}, NEW v, v = reads'[a][r].value
        PROVE  KnownRow(a, r, v)'
    <3>1. KnownRow(a, r, v)
      <4>1. CASE r = row
        BY <1>4, <1>7, <2>1, <4>1
      <4>2. CASE r \in DOMAIN reads[a]
        BY <1>4, <2>1, <4>2 DEF RInv, Known
      <4> QED BY <4>1, <4>2
    <3> QED BY <1>5, <1>6, <3>1, RowStaysKnown
  <2> QED BY <1>4, <2>1 DEF Known, KnownRow
<1>9. Asked(a)'
  <2> DEFINE t == task[a]
  <2>1. t \in Tasks /\ Asked(a)
    BY <1>2 DEF RInv, AInv, ClientsShape, Busy
  <2>2. \A r \in DOMAIN reads[a] : Seen(a)'[r] = Seen(a)[r]
    BY <1>4 DEF Seen
  <2>3. phase[a] > 1 => /\ Batch(t, 1, Seen(a)') = Batch(t, 1, Seen(a))
                        /\ Batch(t, 2, Seen(a)') = Batch(t, 2, Seen(a))
    <3>1. phase[a] > 1 => Batch(t, 1, Seen(a)) \subseteq DOMAIN reads[a]
      BY <2>1 DEF Asked
    <3> HIDE DEF t
    <3> QED BY <2>1, <2>2, <3>1, BatchesAgree
  <2>4. \A u, n, v : Batch(u, n, v)' = Batch(u, n, v)
    BY <1>5 DEF Grows, Batch, NewOrderBatch, OrderStatusBatch, DeliveryBatch, Due,
         StockLevelBatch, LineRows
  <2>5. Seen(a)' = [r \in DOMAIN reads'[a] |-> reads'[a][r].value]
    BY DEF Seen
  <2>6. phase[a] > 1 => /\ Batch(task[a], 1, Seen(a))' = Batch(t, 1, Seen(a))
                        /\ Batch(task[a], 2, Seen(a))' = Batch(t, 2, Seen(a))
    BY <1>2, <2>3, <2>4
  <2>7. t.op = "orderstatus" /\ phase[a] > 1 => LastRow(t) \in DOMAIN reads[a]
    BY <2>1 DEF Asked, Batch, OrderStatusBatch, LastRow
  <2>8. /\ task'[a] = t /\ phase'[a] = phase[a]
        /\ Batches(task[a])' = Batches(t) /\ LastRow(task[a])' = LastRow(t)
        /\ phase[a] <= Batches(t)
    BY <1>2, <2>1 DEF Asked, Batches, LastRow
  <2>9. phase[a] = 1 => \A r \in DOMAIN reads'[a] : r.table # "orders"
    BY <1>4, <1>7, <2>1 DEF Asked
  <2>10. phase[a] > 1 => /\ Batch(task[a], 1, Seen(a))' \subseteq DOMAIN reads'[a]
                         /\ t.op = "orderstatus" => reads'[a][LastRow(t)].value # 0
    <3> HIDE DEF puts
    <3> QED BY <1>4, <2>1, <2>6, <2>7 DEF Asked
  <2>11. phase[a] > 2 => /\ Batch(task[a], 2, Seen(a))' \subseteq DOMAIN reads'[a]
                         /\ t.op = "stocklevel" =>
                              \A r \in DOMAIN reads'[a] :
                                r.table = "orders" => reads'[a][r].value # Absent
    <3>1. phase[a] \in 1..4
      BY <1>2, <2>1 DEF RInv, AInv, ClientsShape
    <3> HIDE DEF puts
    <3> QED BY <1>4, <1>7, <2>1, <2>6, <3>1 DEF Asked
  <2> HIDE DEF t, puts
  <2> QED BY <2>8, <2>9, <2>10, <2>11 DEF Asked
<1> SUFFICES ASSUME NEW b \in Clients PROVE Known(b)' /\ (Busy(b)' => Asked(b)')
  BY DEF RInv
<1>10. CASE b # a
  BY <1>2, <1>3, <1>5, <1>10, WaitingStaysKnown
<1> QED BY <1>8, <1>9, <1>10

(* A batch goes on from what the last one has returned.                    *)
LEMMA NextBatchIsAskedFor ==
  ASSUME RInv, AInv', NEW a \in Clients, NextBatch(a)
  PROVE  RInv'
<1> DEFINE t == task[a]
<1>1. /\ BatchRead(a) /\ phase[a] < Batches(t) /\ ~ReturnsEarly(t, Seen(a))
      /\ phase' = [phase EXCEPT ![a] = @ + 1]
      /\ UNCHANGED <<tables, task, reads>>
  BY DEF NextBatch
<1>2. /\ t \in Tasks /\ TInv /\ Asked(a) /\ Known(a)
      /\ phase \in [Clients -> 1..4]
      /\ Batch(t, phase[a], Seen(a)) \subseteq DOMAIN reads[a]
  BY <1>1 DEF RInv, AInv, ClientsShape, BatchRead, Busy
<1>3. Grows
  BY <1>1, <1>2, StillGrows
<1> SUFFICES ASSUME NEW b \in Clients PROVE Known(b)' /\ (Busy(b)' => Asked(b)')
  BY DEF RInv
<1>4. CASE b # a
  BY <1>1, <1>2, <1>3, <1>4, WaitingStaysKnown
<1>5. Known(a)'
  <2>1. TInv' /\ (Excused(a) => Excused(a)')
    BY <1>1 DEF AInv, Excused, NextRow
  <2>2. ASSUME NEW r \in DOMAIN reads[a], NEW v, v = reads[a][r].value PROVE KnownRow(a, r, v)'
    <3>1. KnownRow(a, r, v)
      BY <1>2, <2>2 DEF Known
    <3> QED BY <1>2, <1>3, <2>1, <3>1, RowStaysKnown
  <2> QED BY <1>1, <2>2 DEF Known, KnownRow
<1>6. Asked(a)'
  <2>1. \A u, n, v : Batch(u, n, v)' = Batch(u, n, v)
    BY <1>3 DEF Grows, Batch, NewOrderBatch, OrderStatusBatch, DeliveryBatch, Due,
         StockLevelBatch, LineRows
  <2>2. Seen(a)' = Seen(a)
    BY <1>1 DEF Seen
  <2>3. /\ task'[a] = t /\ phase'[a] = phase[a] + 1 /\ reads' = reads /\ phase[a] \in 1..4
        /\ Batches(task[a])' = Batches(t) /\ LastRow(task[a])' = LastRow(t)
    BY <1>1, <1>2 DEF Batches, LastRow
  <2>4. Batches(t) \in 1..4
    BY <1>2, TaskFields DEF Batches
  <2>5. /\ Batch(task[a], 1, Seen(a))' = Batch(t, 1, Seen(a))
        /\ Batch(task[a], 2, Seen(a))' = Batch(t, 2, Seen(a))
    BY <2>1, <2>2, <2>3
  <2>6. /\ Batch(t, 1, Seen(a)) \subseteq DOMAIN reads[a]
        /\ t.op = "orderstatus" => reads[a][LastRow(t)].value # 0
    <3>1. CASE phase[a] = 1
      <4>1. Batch(t, 1, Seen(a)) \subseteq DOMAIN reads[a]
        BY <1>2, <3>1
      <4>2. ASSUME t.op = "orderstatus" PROVE reads[a][LastRow(t)].value # 0
        <5>1. LastRow(t) \in DOMAIN reads[a] /\ LastRow(t).table = "lastOrder"
          BY <4>1, <4>2 DEF Batch, OrderStatusBatch, LastRow, Row
        <5> QED BY <1>1, <4>2, <5>1 DEF ReturnsEarly, Seen
      <4> QED BY <4>1, <4>2
    <3>2. CASE phase[a] > 1
      BY <1>2, <3>2 DEF Asked
    <3> QED BY <2>3, <3>1, <3>2
  <2>7. phase[a] > 1 =>
          /\ Batch(t, 2, Seen(a)) \subseteq DOMAIN reads[a]
          /\ t.op = "stocklevel" =>
               \A r \in DOMAIN reads[a] : r.table = "orders" => reads[a][r].value # Absent
    <3>1. CASE phase[a] = 2
      BY <1>1, <1>2, <3>1 DEF ReturnsEarly, Seen
    <3>2. CASE phase[a] > 2
      BY <1>2, <3>2 DEF Asked
    <3> QED BY <2>3, <3>1, <3>2
  <2>8. phase'[a] <= Batches(task[a])' /\ phase'[a] # 1 /\ (phase'[a] > 2 => phase[a] > 1)
    BY <1>1, <2>3, <2>4
  <2> HIDE DEF t
  <2> QED BY <2>3, <2>5, <2>6, <2>7, <2>8 DEF Asked
<1> QED BY <1>4, <1>5, <1>6

(* A thread that dies has met no gap it is not excused for.                *)
LEMMA FailedIsKnown ==
  ASSUME RInv, AInv', NEW a \in Clients, GetFails(a)
  PROVE  RInv'
<1>1. UNCHANGED tables /\ Busy(a)
  BY DEF GetFails
<1>2. TInv /\ Known(a) /\ Asked(a) /\ task[a] \in Tasks
      /\ task \in [Clients -> Tasks \cup {NoTask, Dead}] /\ phase \in [Clients -> 1..4]
  BY <1>1 DEF RInv, AInv, ClientsShape, Busy
<1>3. Grows
  BY <1>1, <1>2, StillGrows
<1>4. CASE Finish(a)
  BY <1>3, <1>4, FinishedIsKnown
<1>5. CASE ~Finish(a)
  <2>1. /\ task' = [task EXCEPT ![a] = Dead]
        /\ UNCHANGED <<phase, reads>>
        /\ task[a].op = "stocklevel" => ~(phase[a] > 1)
    BY <1>5 DEF GetFails
  <2> SUFFICES ASSUME NEW b \in Clients PROVE Known(b)' /\ (Busy(b)' => Asked(b)')
    BY DEF RInv
  <2>2. CASE b # a
    BY <1>2, <1>3, <2>1, <2>2, WaitingStaysKnown
  <2>3. ~Busy(a)'
    BY <1>2, <2>1 DEF Busy
  <2>4. \A r \in DOMAIN reads[a] : r.table = "orders" => reads[a][r].value # Absent
    <3>1. CASE task[a].op # "stocklevel"
      BY <1>2, <3>1 DEF Known, KnownRow, Excused
    <3>2. CASE task[a].op = "stocklevel"
      <4>1. phase[a] = 1
        BY <1>2, <2>1, <3>2
      <4> QED BY <1>2, <4>1 DEF Asked
    <3> QED BY <3>1, <3>2
  <2>5. Known(a)'
    <3>1. ASSUME NEW r \in DOMAIN reads[a], NEW v, v = reads[a][r].value PROVE KnownRow(a, r, v)'
      <4>1. KnownRow(a, r, v)
        BY <1>2, <3>1 DEF Known
      <4>2. r.table = "orders" => v # Absent
        BY <2>4, <3>1
      <4> QED BY <1>1, <4>1, <4>2 DEF KnownRow, tables
    <3> QED BY <2>1, <3>1 DEF Known, KnownRow
  <2> QED BY <2>2, <2>3, <2>5
<1> QED BY <1>4, <1>5

LEMMA StepRInv == RInv /\ [ClientsNext]_<<vars, clientVars>> => RInv'
<1> SUFFICES ASSUME RInv, [ClientsNext]_<<vars, clientVars>> PROVE RInv'
  OBVIOUS
<1>1. AInv' /\ TInv /\ TInv'
  BY StepAInv DEF RInv, AInv
<1>2. ASSUME NEW a \in Clients, Client(a) PROVE RInv'
  <2>1. CASE Begin(a)
    BY <1>1, <2>1, BeginsKnowing
  <2>2. CASE Read(a)
    BY <1>1, <2>2, ReadsWhatIsThere
  <2>3. CASE NextBatch(a)
    BY <1>1, <2>3, NextBatchIsAskedFor
  <2>4. CASE GetFails(a)
    BY <1>1, <2>4, FailedIsKnown
  <2>5. CASE EarlyReturn(a) \/ CommitPayment(a) \/ CommitDelivery(a) \/ Conflict(a)
             \/ ReturnUncommitted(a)
    <3>1. Finish(a) /\ UNCHANGED tables
      BY <2>5 DEF EarlyReturn, CommitPayment, CommitDelivery, Conflict, ReturnUncommitted
    <3> QED BY <1>1, <3>1, StillGrows, FinishedIsKnown
  <2>6. CASE CommitNewOrder(a)
    <3>1. Finish(a)
      BY <2>6 DEF CommitNewOrder
    <3>2. Grows
      <4>1. /\ task[a].w \in Warehouses /\ task[a].d \in Districts /\ task[a].c \in Customers
            /\ task[a].lines \in LineLists
            /\ NewOrder(task[a].w, task[a].d, task[a].c, task[a].lines)
        BY <2>6, CommitIsNewOrder, TaskFields DEF RInv
      <4> QED BY <1>1, <4>1, NewOrderGrows
    <3> QED BY <1>1, <3>1, <3>2, FinishedIsKnown
  <2> QED BY <1>2, <2>1, <2>2, <2>3, <2>4, <2>5, <2>6 DEF Client
<1>3. CASE mode = "stored" /\ UNCHANGED clientVars
  <2> SUFFICES ASSUME NEW a \in Clients PROVE Known(a)' /\ (Busy(a)' => Asked(a)')
    BY <1>1 DEF RInv
  <2>1. Idle(a)'
    BY <1>3 DEF RInv, AInv, ModeOK, Idle, clientVars
  <2> QED BY <2>1 DEF Idle, Known, Busy, Empty
<1>4. CASE UNCHANGED <<vars, clientVars>>
  <2> SUFFICES ASSUME NEW a \in Clients PROVE Known(a)' /\ (Busy(a)' => Asked(a)')
    BY <1>1 DEF RInv
  <2> QED BY <1>1, <1>4, StillGrows, WaitingStaysKnown DEF vars, clientVars
<1> QED BY <1>2, <1>3, <1>4 DEF ClientsNext

(* Between its batches other clients may commit any number of orders, and  *)
(* a transaction still finds every row it follows a number to, except a    *)
(* StockLevel that looks back further than the district has orders.        *)
THEOREM ReadersFindTheirRows == ClientsSpec => []ReadersMeetNoGap
<1>1. RInv => ReadersMeetNoGap
  BY KnownMeetsNoGap
<1> QED BY <1>1, InitRInv, StepRInv, PTL DEF ClientsSpec

----------------------------------------------------------------------------
(* Money and stock.                                                        *)

LEMMA ClientsKeepMInv == AInv /\ MInv /\ [ClientsNext]_<<vars, clientVars>> => MInv'
<1> SUFFICES ASSUME AInv, MInv, [ClientsNext]_<<vars, clientVars>> PROVE MInv'
  OBVIOUS
<1>1. ASSUME NEW a \in Clients, CommitNewOrder(a) PROVE MInv'
  <2>1. /\ task[a].w \in Warehouses /\ task[a].d \in Districts /\ task[a].c \in Customers
        /\ task[a].lines \in LineLists
        /\ NewOrder(task[a].w, task[a].d, task[a].c, task[a].lines)
    BY <1>1, CommitIsNewOrder, TaskFields
  <2> QED BY <2>1, NewOrderKeepsMInv
<1>2. ASSUME NEW a \in Clients, Client(a), ~CommitNewOrder(a) PROVE MInv'
  <2>1. UNCHANGED tables /\ UNCHANGED committed
    BY <1>2 DEF Client, Begin, Read, NextBatch, EarlyReturn, GetFails, CommitPayment,
         CommitDelivery, Conflict, ReturnUncommitted, Finish
  <2> QED BY <2>1, MInvStandsStill
<1>3. CASE [Next]_vars
  BY <1>3, StoredKeepsMInv
<1> QED BY <1>1, <1>2, <1>3 DEF ClientsNext

LEMMA AlwaysMInv == ClientsSpec => []MInv
<1>1. ClientsInit => AInv /\ MInv
  BY InitAInv, InitMInv DEF ClientsInit
<1>2. AInv /\ MInv /\ [ClientsNext]_<<vars, clientVars>> => (AInv /\ MInv)'
  BY StepAInv, ClientsKeepMInv
<1> QED BY <1>1, <1>2, PTL DEF ClientsSpec

(* The money of warehouses, districts and customers agrees, and every      *)
(* delivered order is charged once.                                        *)
THEOREM MoneyAlwaysAddsUp == ClientsSpec => []MoneyAddsUp
<1>1. MInv => MoneyAddsUp
  BY DEF MInv
<1> QED BY <1>1, AlwaysMInv, PTL

(* No order's effect on the stock is lost or doubled.                      *)
THEOREM StockAlwaysAccounts == ClientsSpec => []StockAccountsForSales
<1>1. MInv => StockAccountsForSales
  BY DEF MInv
<1> QED BY <1>1, AlwaysMInv, PTL

----------------------------------------------------------------------------
(* Types.  What a client asks for depends on what it has read.             *)

Recent(t, seen) ==
  {Row("orders", <<o, t.d, t.w>>) : o \in seen[NextRow(t)] - Window .. seen[NextRow(t)] - 1}

TypedReads(a) ==
  /\ DOMAIN reads[a] \subseteq Rows
  /\ \A row \in DOMAIN reads[a] :
       /\ reads[a][row].version \in Nat
       /\ row.table = "orderLines" => reads[a][row].value \in OrderLines
  /\ Busy(a) /\ phase[a] = 4 =>
       LineRows(Recent(task[a], Seen(a)), Seen(a)) \subseteq DOMAIN reads[a]

TypedClients ==
  /\ \A a \in Clients : TypedReads(a)
  /\ DOMAIN version \subseteq Rows
  /\ told \in [CDW -> Nat]
  /\ begun \in 0..MaxTxns

LEMMA ShapeIsTyped == AInv /\ MInv /\ TypedClients => ClientsTypeOK
BY DEF AInv, MInv, ModeOK, ClientsShape, Idle, TypedClients, TypedReads, ClientsTypeOK

LEMMA SameIsTyped ==
  ASSUME NEW a, TypedReads(a), task'[a] = task[a], phase'[a] = phase[a], reads'[a] = reads[a]
  PROVE  TypedReads(a)'
<1>1. Seen(a)' = Seen(a) /\ Busy(a)' = Busy(a)
  BY DEF Seen, Busy
<1>2. LineRows(Recent(task[a], Seen(a)), Seen(a))' = LineRows(Recent(task[a], Seen(a)), Seen(a))
  BY <1>1 DEF Recent, LineRows, NextRow
<1>3. /\ (DOMAIN reads[a] \subseteq Rows)'
      /\ (\A row \in DOMAIN reads[a] :
            /\ reads[a][row].version \in Nat
            /\ row.table = "orderLines" => reads[a][row].value \in OrderLines)'
  BY DEF TypedReads, Rows, OrderLines
<1> QED BY <1>1, <1>2, <1>3 DEF TypedReads

LEMMA IdleIsTyped ==
  ASSUME NEW a, reads[a] = Empty, phase[a] = 1
  PROVE  TypedReads(a)
BY DEF TypedReads, Empty

LEMMA RowsForm ==
  /\ \A k \in DW : Row("next_o", k) \in Rows
  /\ \A k \in Items \X Warehouses : Row("stock", k) \in Rows
  /\ \A k \in CDW : Row("lastOrder", k) \in Rows
  /\ \A o \in Int, d \in Districts, w \in Warehouses : Row("orders", <<o, d, w>>) \in Rows
  /\ \A o \in Int, d \in Districts, w \in Warehouses, n \in Nat :
       Row("orderLines", <<o, d, w, n>>) \in Rows
BY DEF Rows, Row

(* A row of the tables.                                                    *)
LEMMA StoredRows ==
  ASSUME TInv
  PROVE  /\ \A k \in DOMAIN orders : Row("orders", k) \in Rows
         /\ \A l \in DOMAIN orderLines : Row("orderLines", l) \in Rows
<1>1. ASSUME NEW k \in DOMAIN orders PROVE Row("orders", k) \in Rows
  <2>1. k = <<k[1], k[2], k[3]>> /\ k[1] \in Int /\ k[2] \in Districts /\ k[3] \in Warehouses
    <3>1. Typed /\ DenseOrders
      BY DEF TInv
    <3>2. /\ k = <<k[1], k[2], k[3]>>
          /\ k[2] \in Districts /\ k[3] \in Warehouses
          /\ k[1] \in Nat
      BY <3>1, OrderKeys
    <3> QED BY <3>2
  <2> QED BY <2>1, RowsForm
<1>2. ASSUME NEW l \in DOMAIN orderLines PROVE Row("orderLines", l) \in Rows
  <2>1. PICK k \in DOMAIN orders : \E n \in 1..orders[k].cnt : l = LineKey(k, n)
    BY DEF TInv, DenseLines
  <2>2. PICK n \in 1..orders[k].cnt : l = LineKey(k, n)
    BY <2>1
  <2>3. k[1] \in Int /\ k[2] \in Districts /\ k[3] \in Warehouses /\ orders[k].cnt \in Nat
    <3>1. Typed /\ DenseOrders
      BY DEF TInv
    <3>2. k[1] \in Nat /\ k[2] \in Districts /\ k[3] \in Warehouses
      BY <3>1, OrderKeys
    <3>3. orders[k].cnt \in Nat
      BY <3>1 DEF Typed, Orders
    <3> QED BY <3>2, <3>3
  <2>4. n \in Nat
    BY <2>2, <2>3
  <2> QED BY <2>2, <2>3, <2>4, RowsForm DEF LineKey
<1> QED BY <1>1, <1>2

LEMMA KnownIsRow ==
  ASSUME TInv, NEW a, NEW row, KnownRow(a, row, RowValue(row)), row = Row(row.table, row.key),
         \/ row.table \in {"next_o", "orderLines"}
         \/ row.table = "orders" /\ task[a].op # "stocklevel"
  PROVE  row \in Rows
<1>1. CASE row.table = "next_o"
  BY <1>1, RowsForm DEF KnownRow
<1>2. CASE row.table = "orderLines"
  <2>1. RowValue(row) = InTable(orderLines, row.key)
    BY <1>2 DEF RowValue
  <2>2. row.key \in DOMAIN orderLines
    BY <1>2, <2>1 DEF KnownRow, InTable
  <2> QED BY <1>2, <2>2, StoredRows
<1>3. CASE row.table = "orders" /\ task[a].op # "stocklevel"
  <2>1. row.key \in DOMAIN orders
    BY <1>3 DEF KnownRow, Excused
  <2> QED BY <1>3, <2>1, StoredRows
<1> QED BY <1>1, <1>2, <1>3

LEMMA LineRowsForm ==
  ASSUME NEW R, NEW seen, NEW row \in LineRows(R, seen)
  PROVE  row = Row(row.table, row.key) /\ row.table = "orderLines"
<1>1. PICK r \in R : row \in {Row("orderLines", LineKey(r.key, n)) : n \in 1 .. seen[r].cnt}
  BY DEF LineRows
<1>2. PICK n \in 1 .. seen[r].cnt : row = Row("orderLines", LineKey(r.key, n))
  BY <1>1
<1> QED BY <1>2 DEF Row

LEMMA AskedForIsRow ==
  ASSUME RInv, NEW a \in Clients, TypedReads(a), Busy(a),
         NEW row \in Batch(task[a], phase[a], Seen(a))
  PROVE  row \in Rows
<1> DEFINE t == task[a]
           seen == Seen(a)
<1>1. t \in Tasks /\ phase[a] \in 1..4 /\ TInv /\ phase[a] <= Batches(t)
  BY DEF RInv, AInv, ClientsShape, Busy, Asked
<1>2. KnownRow(a, row, RowValue(row))
  BY AskedForIsKnown
<1>3. CASE t.op = "neworder"
  <2>1. row \in OrderRows
    BY <1>1, <1>3, NewOrderRows DEF Batch
  <2> QED BY <2>1, RowsForm DEF OrderRows
<1>4. CASE t.op = "payment"
  BY <1>4 DEF Batch
<1>5. CASE t.op = "orderstatus"
  <2>1. row \in OrderStatusBatch(t, phase[a], seen)
    BY <1>5 DEF Batch
  <2>2. phase[a] \in 1..3
    BY <1>1, <1>5 DEF Batches
  <2>3. CASE phase[a] = 1
    <3>1. row = Row("lastOrder", <<t.c, t.d, t.w>>) /\ <<t.c, t.d, t.w>> \in CDW
      BY <1>1, <1>5, <2>1, <2>3, TaskFields DEF OrderStatusBatch, CDW
    <3> QED BY <3>1, RowsForm
  <2>4. CASE phase[a] = 2
    <3>1. row = Row(row.table, row.key) /\ row.table = "orders"
      BY <2>1, <2>4 DEF OrderStatusBatch, Row
    <3> QED BY <1>1, <1>2, <1>5, <3>1, KnownIsRow
  <2>5. CASE phase[a] = 3
    <3>1. row = Row(row.table, row.key) /\ row.table = "orderLines"
      BY <2>1, <2>5, LineRowsForm DEF OrderStatusBatch
    <3> QED BY <1>1, <1>2, <3>1, KnownIsRow
  <2> QED BY <2>2, <2>3, <2>4, <2>5
<1>6. CASE t.op = "delivery"
  <2>1. row \in DeliveryBatch(t, phase[a], seen)
    BY <1>6 DEF Batch
  <2>2. phase[a] \in 1..3
    BY <1>1, <1>6 DEF Batches
  <2>3. row = Row(row.table, row.key) /\ row.table \in {"next_o", "orders", "orderLines"}
    <3>1. CASE phase[a] = 1
      <4>1. \E d \in Districts : row = Row("next_o", <<d, t.w>>)
        BY <2>1, <3>1 DEF DeliveryBatch
      <4> QED BY <4>1 DEF Row
    <3>2. CASE phase[a] = 2
      <4> DEFINE due == Due(t, seen)
      <4>0. DeliveryBatch(t, 2, seen) = {Row("orders", <<next_d[<<d, t.w>>], d, t.w>>) : d \in due}
        BY DEF DeliveryBatch
      <4> HIDE DEF due
      <4>1. \E d \in due : row = Row("orders", <<next_d[<<d, t.w>>], d, t.w>>)
        BY <2>1, <3>2, <4>0
      <4> QED BY <4>1 DEF Row
    <3>3. CASE phase[a] = 3
      <4>1. \E R : row \in LineRows(R, seen)
        BY <2>1, <3>3 DEF DeliveryBatch
      <4> QED BY <4>1, LineRowsForm
    <3> QED BY <2>2, <3>1, <3>2, <3>3
  <2> QED BY <1>1, <1>2, <1>6, <2>3, KnownIsRow
<1>7. CASE t.op = "stocklevel"
  <2>1. row \in StockLevelBatch(t, phase[a], seen)
    BY <1>7 DEF Batch
  <2>2. t.d \in Districts /\ t.w \in Warehouses
    BY <1>1, <1>7, TaskFields
  <2>3. CASE phase[a] = 1
    <3>1. row = Row("next_o", <<t.d, t.w>>) /\ <<t.d, t.w>> \in DW
      BY <2>1, <2>2, <2>3 DEF StockLevelBatch, DW
    <3> QED BY <3>1, RowsForm
  <2>4. CASE phase[a] = 2
    <3>1. PICK o \in seen[NextRow(t)] - Window .. seen[NextRow(t)] - 1 :
            row = Row("orders", <<o, t.d, t.w>>)
      BY <2>1, <2>4 DEF StockLevelBatch, NextRow
    <3> QED BY <2>2, <3>1, RowsForm
  <2>5. CASE phase[a] = 3
    <3>1. \E R : row \in LineRows(R, seen)
      BY <2>1, <2>5 DEF StockLevelBatch
    <3>2. row = Row(row.table, row.key) /\ row.table = "orderLines"
      BY <3>1, LineRowsForm
    <3> QED BY <1>1, <1>2, <3>2, KnownIsRow
  <2>6. CASE phase[a] = 4
    <3> DEFINE lines == LineRows(Recent(t, seen), seen)
    <3>1. lines \subseteq DOMAIN reads[a]
      BY <2>6 DEF TypedReads
    <3>2. PICK l \in lines : row = Row("stock", <<seen[l].item, t.w>>)
      <4> DEFINE here == {r \in lines : seen[r].s_w = t.w}
                 items == {seen[r].item : r \in here}
      <4>1. StockLevelBatch(t, 4, seen) = {Row("stock", <<i, t.w>>) : i \in items}
        BY DEF StockLevelBatch, Recent, NextRow
      <4>2. PICK i \in items : row = Row("stock", <<i, t.w>>)
        BY <2>1, <2>6, <4>1
      <4>3. PICK r \in here : i = seen[r].item
        OBVIOUS
      <4> QED BY <4>2, <4>3
    <3>3. l.table = "orderLines"
      BY LineRowsForm
    <3>4. seen[l] \in OrderLines
      BY <3>1, <3>3 DEF TypedReads, Seen
    <3>5. <<seen[l].item, t.w>> \in Items \X Warehouses
      BY <2>2, <3>4 DEF OrderLines
    <3> QED BY <3>2, <3>5, RowsForm
  <2> QED BY <1>1, <2>3, <2>4, <2>5, <2>6
<1> QED BY <1>1, <1>3, <1>4, <1>5, <1>6, <1>7, TaskFields

LEMMA SameLineRows ==
  ASSUME NEW t, NEW s1, NEW s2, s1[NextRow(t)] = s2[NextRow(t)],
         \A row \in Recent(t, s1) : s1[row] = s2[row]
  PROVE  /\ Recent(t, s2) = Recent(t, s1)
         /\ LineRows(Recent(t, s2), s2) = LineRows(Recent(t, s1), s1)
<1>1. Recent(t, s2) = Recent(t, s1)
  BY DEF Recent
<1> DEFINE R == Recent(t, s1)
<1>2. \A row \in R : {Row("orderLines", LineKey(row.key, n)) : n \in 1 .. s2[row].cnt}
                       = {Row("orderLines", LineKey(row.key, n)) : n \in 1 .. s1[row].cnt}
  OBVIOUS
<1> HIDE DEF R
<1>3. LineRows(R, s2) = LineRows(R, s1)
  BY <1>2 DEF LineRows
<1> QED BY <1>1, <1>3 DEF R

(* The rows of an item's order lines, which StockLevel reads last.         *)
LEMMA LookedUp ==
  ASSUME RInv, NEW a \in Clients, Busy(a), phase[a] = 4
  PROVE  /\ task[a].op = "stocklevel"
         /\ NextRow(task[a]) \in DOMAIN reads[a]
         /\ Recent(task[a], Seen(a)) \subseteq DOMAIN reads[a]
<1>1. task[a] \in Tasks /\ Asked(a)
  BY DEF RInv, AInv, ClientsShape, Busy
<1>2. task[a].op = "stocklevel"
  BY <1>1, TaskFields DEF Asked, Batches
<1>3. /\ Batch(task[a], 1, Seen(a)) = {NextRow(task[a])}
      /\ Batch(task[a], 2, Seen(a)) = Recent(task[a], Seen(a))
  BY <1>2 DEF Batch, StockLevelBatch, NextRow, Recent
<1> QED BY <1>1, <1>2, <1>3 DEF Asked

LEMMA ReadIsTyped ==
  ASSUME RInv, NEW a \in Clients, TypedReads(a), Read(a)
  PROVE  TypedReads(a)'
<1>1. PICK row \in Batch(task[a], phase[a], Seen(a)) \ DOMAIN reads[a] :
        reads' = [reads EXCEPT ![a] =
                    With(@, [r \in {row} |-> [value |-> RowValue(r), version |-> Version(r)]])]
  BY DEF Read
<1>2. UNCHANGED <<task, phase>> /\ Busy(a)
  BY DEF Read
<1> DEFINE puts == [r \in {row} |-> [value |-> RowValue(r), version |-> Version(r)]]
<1>3. reads'[a] = With(reads[a], puts)
  BY <1>1 DEF RInv, AInv, ClientsShape
<1>4. /\ DOMAIN reads'[a] = DOMAIN reads[a] \cup {row}
      /\ reads'[a][row].value = RowValue(row) /\ reads'[a][row].version = Version(row)
      /\ \A r \in DOMAIN reads[a] : reads'[a][r] = reads[a][r]
  <2>1. DOMAIN puts = {row} /\ puts[row].value = RowValue(row) /\ puts[row].version = Version(row)
    OBVIOUS
  <2> HIDE DEF puts
  <2>2. /\ DOMAIN With(reads[a], puts) = DOMAIN reads[a] \cup DOMAIN puts
        /\ \A r \in DOMAIN puts : With(reads[a], puts)[r] = puts[r]
        /\ \A r \in DOMAIN reads[a] \ DOMAIN puts : With(reads[a], puts)[r] = reads[a][r]
    BY WithRows
  <2> QED BY <1>1, <1>3, <2>1, <2>2
<1> HIDE DEF puts
<1>5. row \in Rows /\ Version(row) \in Nat
  BY <1>1, <1>2, AskedForIsRow, VersionIsNat DEF RInv, AInv
<1>6. row.table = "orderLines" => RowValue(row) \in OrderLines
  <2> SUFFICES ASSUME row.table = "orderLines" PROVE RowValue(row) \in OrderLines
    OBVIOUS
  <2>1. KnownRow(a, row, RowValue(row))
    BY <1>1, <1>2, AskedForIsKnown
  <2>2. RowValue(row) = InTable(orderLines, row.key)
    BY DEF RowValue
  <2>3. row.key \in DOMAIN orderLines /\ RowValue(row) = orderLines[row.key]
    BY <2>1, <2>2 DEF KnownRow, InTable
  <2> QED BY <2>3 DEF RInv, AInv, TInv, Typed
<1>7. /\ (DOMAIN reads[a] \subseteq Rows)'
      /\ (\A r \in DOMAIN reads[a] :
            /\ reads[a][r].version \in Nat
            /\ r.table = "orderLines" => reads[a][r].value \in OrderLines)'
  <2>1. DOMAIN reads'[a] \subseteq Rows
    BY <1>4, <1>5 DEF TypedReads
  <2>2. \A r \in DOMAIN reads'[a] :
          /\ reads'[a][r].version \in Nat
          /\ r.table = "orderLines" => reads'[a][r].value \in OrderLines
    BY <1>4, <1>5, <1>6 DEF TypedReads
  <2> QED BY <2>1, <2>2 DEF Rows, OrderLines
<1>8. ASSUME phase[a] = 4
      PROVE  (LineRows(Recent(task[a], Seen(a)), Seen(a)) \subseteq DOMAIN reads[a])'
  <2> DEFINE t == task[a]
             now == [r \in DOMAIN reads[a] |-> reads[a][r].value]
             then == [r \in DOMAIN reads'[a] |-> reads'[a][r].value]
  <2>1. NextRow(t) \in DOMAIN reads[a] /\ Recent(t, now) \subseteq DOMAIN reads[a]
    BY <1>2, <1>8, LookedUp DEF Seen
  <2>2. \A r \in DOMAIN reads[a] : now[r] = then[r]
    BY <1>4
  <2>3. LineRows(Recent(t, now), now) \subseteq DOMAIN reads[a]
    BY <1>2, <1>8 DEF TypedReads, Seen
  <2> HIDE DEF now, then
  <2>4. LineRows(Recent(t, then), then) = LineRows(Recent(t, now), now)
    BY <2>1, <2>2, SameLineRows
  <2>5. LineRows(Recent(t, then), then) \subseteq DOMAIN reads'[a]
    BY <1>4, <2>3, <2>4
  <2>6. LineRows(Recent(task[a], Seen(a)), Seen(a))' = LineRows(Recent(t, then), then)
    BY <1>2 DEF then, Seen, Recent, LineRows, NextRow
  <2> QED BY <2>5, <2>6
<1> QED BY <1>2, <1>7, <1>8 DEF TypedReads

LEMMA NextBatchIsTyped ==
  ASSUME RInv, NEW a \in Clients, TypedReads(a), NextBatch(a)
  PROVE  TypedReads(a)'
<1>1. /\ UNCHANGED <<task, reads>> /\ Busy(a)
      /\ phase' = [phase EXCEPT ![a] = @ + 1]
      /\ phase[a] < Batches(task[a])
      /\ Batch(task[a], phase[a], Seen(a)) \subseteq DOMAIN reads[a]
  BY DEF NextBatch, BatchRead
<1>2. task[a] \in Tasks /\ phase[a] \in 1..4 /\ phase'[a] = phase[a] + 1
  BY <1>1 DEF RInv, AInv, ClientsShape, Busy
<1>3. /\ (DOMAIN reads[a] \subseteq Rows)'
      /\ (\A r \in DOMAIN reads[a] :
            /\ reads[a][r].version \in Nat
            /\ r.table = "orderLines" => reads[a][r].value \in OrderLines)'
  BY <1>1 DEF TypedReads, Rows, OrderLines
<1>4. ASSUME phase'[a] = 4
      PROVE  (LineRows(Recent(task[a], Seen(a)), Seen(a)) \subseteq DOMAIN reads[a])'
  <2>1. phase[a] = 3 /\ task[a].op = "stocklevel"
    BY <1>1, <1>2, <1>4, TaskFields DEF Batches
  <2>2. Batch(task[a], 3, Seen(a)) = LineRows(Recent(task[a], Seen(a)), Seen(a))
    BY <2>1 DEF Batch, StockLevelBatch, Recent, NextRow
  <2>3. LineRows(Recent(task[a], Seen(a)), Seen(a)) \subseteq DOMAIN reads[a]
    BY <1>1, <2>1, <2>2
  <2>4. Seen(a)' = Seen(a)
    BY <1>1 DEF Seen
  <2>5. LineRows(Recent(task[a], Seen(a)), Seen(a))' = LineRows(Recent(task[a], Seen(a)), Seen(a))
    BY <1>1, <2>4 DEF Recent, LineRows, NextRow
  <2> QED BY <1>1, <2>3, <2>5
<1> QED BY <1>3, <1>4 DEF TypedReads

(* The rows a commit puts.                                                 *)
LEMMA PutRowsAreRows ==
  ASSUME TInv, NEW t \in Tasks, t.op = "neworder"
  PROVE  PutRows(t, next_o[<<t.d, t.w>>]) \subseteq Rows
<1>1. /\ t.d \in Districts /\ t.w \in Warehouses /\ t.c \in Customers /\ t.lines \in Seq(Lines)
      /\ <<t.d, t.w>> \in DW /\ <<t.c, t.d, t.w>> \in CDW
  BY TaskFields, TpccAssumption DEF DW, CDW
<1>2. next_o[<<t.d, t.w>>] \in Int
  BY <1>1 DEF TInv, Typed
<1>3. \A n \in DOMAIN t.lines : n \in Nat /\ StockKey(t.lines[n]) \in Items \X Warehouses
  <2>1. \A n \in DOMAIN t.lines : n \in Nat /\ t.lines[n] \in Lines
    BY <1>1
  <2> QED BY <2>1 DEF StockKey, Lines
<1>4. \A n \in DOMAIN t.lines :
        /\ Row("stock", StockKey(t.lines[n])) \in Rows
        /\ Row("orderLines", <<next_o[<<t.d, t.w>>], t.d, t.w, n>>) \in Rows
  BY <1>1, <1>2, <1>3, RowsForm
<1>5. /\ Row("next_o", <<t.d, t.w>>) \in Rows
      /\ Row("lastOrder", <<t.c, t.d, t.w>>) \in Rows
      /\ Row("orders", <<next_o[<<t.d, t.w>>], t.d, t.w>>) \in Rows
  BY <1>1, <1>2, RowsForm
<1> QED BY <1>4, <1>5 DEF PutRows

LEMMA StepTyped ==
  RInv /\ TypedClients /\ [ClientsNext]_<<vars, clientVars>> => TypedClients'
<1> SUFFICES ASSUME RInv, TypedClients, [ClientsNext]_<<vars, clientVars>> PROVE TypedClients'
  OBVIOUS
<1>1. CASE UNCHANGED clientVars
  <2>1. \A a \in Clients : TypedReads(a)'
    BY <1>1, SameIsTyped DEF TypedClients, clientVars
  <2> QED BY <1>1, <2>1 DEF TypedClients, clientVars, Rows, CDW
<1>2. ASSUME NEW a \in Clients, Client(a) PROVE TypedClients'
  <2>1. TypedReads(a) /\ ClientsShape
    BY DEF TypedClients, RInv, AInv
  <2>2. TypedReads(a)' /\ \A b \in Clients \ {a} :
          task'[b] = task[b] /\ phase'[b] = phase[b] /\ reads'[b] = reads[b]
    <3>1. CASE Finish(a)
      <4>1. Idle(a)' /\ \A b \in Clients \ {a} :
              task'[b] = task[b] /\ phase'[b] = phase[b] /\ reads'[b] = reads[b]
        BY <2>1, <3>1, FinishShape
      <4>2. TypedReads(a)'
        BY <4>1 DEF Idle, TypedReads, Empty
      <4> QED BY <4>1, <4>2
    <3>2. CASE Begin(a)
      <4>1. UNCHANGED <<phase, reads>> /\ reads[a] = Empty /\ phase[a] = 1
        BY <2>1, <3>2 DEF Begin, ClientsShape, Idle
      <4>2. TypedReads(a)'
        BY <4>1 DEF TypedReads, Empty
      <4> QED BY <2>1, <3>2, <4>1, <4>2 DEF Begin, ClientsShape
    <3>3. CASE Read(a)
      BY <2>1, <3>3, ReadIsTyped DEF Read, ClientsShape
    <3>4. CASE NextBatch(a)
      BY <2>1, <3>4, NextBatchIsTyped DEF NextBatch, ClientsShape
    <3>5. CASE GetFails(a) /\ ~Finish(a)
      <4>1. task' = [task EXCEPT ![a] = Dead] /\ UNCHANGED <<phase, reads>>
        BY <3>5 DEF GetFails
      <4>2. ~Busy(a)'
        BY <2>1, <4>1 DEF Busy, ClientsShape
      <4>3. TypedReads(a)'
        BY <2>1, <4>1, <4>2 DEF TypedReads, Rows, OrderLines
      <4> QED BY <2>1, <4>1, <4>3 DEF ClientsShape
    <3> QED BY <1>2, <3>1, <3>2, <3>3, <3>4, <3>5
         DEF Client, EarlyReturn, CommitNewOrder, CommitPayment, CommitDelivery, Conflict,
             ReturnUncommitted
  <2>3. \A b \in Clients : TypedReads(b)'
    BY <2>2, SameIsTyped DEF TypedClients
  <2>4. DOMAIN version' \subseteq Rows
    <3>1. CASE CommitNewOrder(a)
      <4> DEFINE rows == PutRows(task[a], next_o[<<task[a].d, task[a].w>>])
                 puts == [row \in rows |-> Version(row) + 1]
      <4>1. version' = With(version, puts) /\ rows \subseteq Rows
        BY <3>1, CommitIsNewOrder, PutRowsAreRows DEF RInv, AInv
      <4>2. DOMAIN puts = rows
        OBVIOUS
      <4> HIDE DEF puts, rows
      <4>3. DOMAIN With(version, puts) = DOMAIN version \cup DOMAIN puts
        BY WithRows
      <4> QED BY <4>1, <4>2, <4>3 DEF TypedClients
    <3>2. CASE version' = version
      BY <3>2 DEF TypedClients
    <3> QED BY <1>2, <3>1, <3>2
         DEF Client, Begin, Read, NextBatch, EarlyReturn, GetFails, CommitPayment,
             CommitDelivery, Conflict, ReturnUncommitted
  <2>5. told' \in [CDW -> Nat]
    <3>1. told \in [CDW -> Nat]
      BY DEF TypedClients
    <3>2. told' = told \/ \E r : told' = [told EXCEPT ![r] = @ + 1]
      BY <1>2
         DEF Client, Begin, Read, NextBatch, EarlyReturn, GetFails, CommitNewOrder,
             CommitPayment, CommitDelivery, Conflict, ReturnUncommitted
    <3> QED BY <3>1, <3>2
  <2>6. begun' \in 0..MaxTxns
    <3>1. begun' = begun \/ (begun < MaxTxns /\ begun' = begun + 1)
      BY <1>2
         DEF Client, Begin, Read, NextBatch, EarlyReturn, GetFails, CommitNewOrder,
             CommitPayment, CommitDelivery, Conflict, ReturnUncommitted, Finish
    <3> QED BY <3>1, ClientsAssumption DEF TypedClients
  <2> QED BY <2>3, <2>4, <2>5, <2>6 DEF TypedClients, Rows, CDW
<1> QED BY <1>1, <1>2 DEF ClientsNext

LEMMA InitTyped == ClientsInit => TypedClients
<1> SUFFICES ASSUME ClientsInit PROVE TypedClients
  OBVIOUS
<1>1. \A a \in Clients : TypedReads(a)
  BY IdleIsTyped DEF ClientsInit
<1> QED BY <1>1, ClientsAssumption DEF TypedClients, ClientsInit, Empty

(* In every reachable state the tables and the clients' buffers have their *)
(* types; a stock quantity stays between 1 and 100.                        *)
THEOREM ClientsAreTyped == ClientsSpec => []ClientsTypeOK
<1>1. ClientsInit => RInv /\ TypedClients
  BY InitRInv, InitTyped
<1>2. RInv /\ TypedClients /\ [ClientsNext]_<<vars, clientVars>> => (RInv /\ TypedClients)'
  BY StepRInv, StepTyped
<1>3. RInv /\ MInv /\ TypedClients => ClientsTypeOK
  BY ShapeIsTyped DEF RInv
<1> QED BY <1>1, <1>2, <1>3, AlwaysMInv, PTL DEF ClientsSpec
============================================================================
