----------------------------- MODULE YcsbProofs -----------------------------
(***************************************************************************)
(* Proofs about Ycsb, for any base, any clients, any configured ranges and *)
(* any bounds.                                                             *)
(*                                                                         *)
(*   1. Recursive functions on the numbers exist, by induction stated as a *)
(*      fact about a set.                                                  *)
(*   2. Numbers and their strings; the prefix of a key is unique.          *)
(*   3. The invariant: types, and where each value on the server is from.  *)
(*   4. The order of strings, in terms of numbers.                         *)
(*   5. The analyzers: the sort, the pass over the sorted lines, and what  *)
(*      the counts of the sorted lines say of the lines as written.        *)
(***************************************************************************)
EXTENDS Ycsb, SequenceTheorems, FiniteSetTheorems, FunctionTheorems, WellFoundedInduction, TLAPS

----------------------------------------------------------------------------
(* Induction and recursion.                                                *)

(* A set of natural numbers has a least one.                               *)
LEMMA LeastNumber ==
  ASSUME NEW T \in SUBSET Nat, T # {}
  PROVE  \E n \in T : \A m \in T : n <= m
<1> DEFINE R == OpToRel(<, Nat)
<1>1. PICK n \in T : \A m \in T : <<m, n>> \notin R
  <2>1. IsWellFoundedOn(R, Nat)
    BY NatLessThanWellFounded
  <2> HIDE DEF R
  <2> QED BY <2>1, WFMin
<1>2. \A m \in T : n <= m
  <2>1. \A m \in Nat : m < n => <<m, n>> \in R
    <3> TAKE m \in Nat
    <3>1. ASSUME m < n PROVE <<m, n>> \in R
      <4>1. R = {p \in Nat \X Nat : p[1] < p[2]}
        BY Zenon DEF OpToRel
      <4> HIDE DEF R
      <4>2. <<m, n>> \in Nat \X Nat /\ <<m, n>>[1] < <<m, n>>[2]
        BY <3>1
      <4> QED BY <4>1, <4>2
    <3> QED BY <3>1
  <2> HIDE DEF R
  <2> SUFFICES ASSUME NEW m \in T, ~(n <= m) PROVE FALSE
    OBVIOUS
  <2>2. m \in Nat /\ n \in Nat /\ m < n
    OBVIOUS
  <2>3. <<m, n>> \in R
    BY <2>1, <2>2
  <2> QED BY <1>1, <2>3
<1> HIDE DEF R
<1> QED BY <1>2


(* Induction, as a fact about a set of numbers.                            *)
LEMMA Induction ==
  ASSUME NEW Good, \A n \in Nat : (\A m \in Nat : m < n => m \in Good) => n \in Good
  PROVE  Nat \subseteq Good
<1> DEFINE Bad == Nat \ Good
<1> SUFFICES ASSUME Bad # {} PROVE FALSE
  OBVIOUS
<1>1. PICK n \in Bad : \A m \in Bad : n <= m
  BY LeastNumber
<1>2. \A m \in Nat : m < n => m \in Good
  BY <1>1
<1> QED BY <1>1, <1>2

----------------------------------------------------------------------------
(* A function whose value at n depends on that at the smaller par[n], but  *)
(* for the numbers of a set S.                                             *)

Solves(f, D, S, init, par, step) ==
  \A n \in D : f[n] = IF n \in S THEN init[n] ELSE step[<<n, f[par[n]]>>]

Descends(par, S) == par \in [Nat -> Nat] /\ \A n \in Nat \ S : par[n] < n

(* Two such functions agree where both are given.                          *)
LEMMA SameSolution ==
  ASSUME NEW S, NEW init, NEW step, NEW par, Descends(par, S),
         NEW a \in Nat, NEW b \in Nat, NEW f, NEW g,
         Solves(f, 0..a, S, init, par, step), Solves(g, 0..b, S, init, par, step)
  PROVE  \A n \in (0..a) \cap (0..b) : f[n] = g[n]
<1> DEFINE Good == {n \in Nat : n <= a /\ n <= b => f[n] = g[n]}
<1>1. ASSUME NEW n \in Nat, \A m \in Nat : m < n => m \in Good PROVE n \in Good
  <2> SUFFICES ASSUME n <= a, n <= b PROVE f[n] = g[n]
    OBVIOUS
  <2>1. /\ f[n] = IF n \in S THEN init[n] ELSE step[<<n, f[par[n]]>>]
        /\ g[n] = IF n \in S THEN init[n] ELSE step[<<n, g[par[n]]>>]
    BY DEF Solves
  <2>2. n \notin S => f[par[n]] = g[par[n]]
    <3> SUFFICES ASSUME n \notin S PROVE f[par[n]] = g[par[n]]
      OBVIOUS
    <3>1. par[n] \in Nat /\ par[n] < n
      BY DEF Descends
    <3>2. par[n] \in Good
      BY <1>1, <3>1
    <3> QED BY <3>1, <3>2
  <2> QED BY <2>1, <2>2
<1>2. Nat \subseteq Good
  <2> HIDE DEF Good
  <2> QED BY <1>1, Induction
<1> QED BY <1>2

(* There is one on all the numbers: each is in the domain of a finite one. *)
LEMMA Recursion ==
  ASSUME NEW X, NEW S, NEW init \in [S -> X], NEW par, Descends(par, S),
         NEW step \in [Nat \X X -> X]
  PROVE  \E f \in [Nat -> X] : Solves(f, Nat, S, init, par, step)
<1> DEFINE Sol(n) == {g \in [0..n -> X] : Solves(g, 0..n, S, init, par, step)}
           Good == {n \in Nat : Sol(n) # {}}
<1>1. ASSUME NEW n \in Nat, \A m \in Nat : m < n => m \in Good PROVE n \in Good
  <2>1. CASE n = 0
    <3>1. n \in S
      BY <2>1 DEF Descends
    <3> DEFINE g == [m \in 0..n |-> init[n]]
    <3>2. g \in [0..n -> X] /\ \A m \in 0..n : m \in S /\ g[m] = init[m]
      BY <2>1, <3>1
    <3> HIDE DEF g
    <3>3. Solves(g, 0..n, S, init, par, step)
      BY <3>2 DEF Solves
    <3> QED BY <3>2, <3>3
  <2>2. CASE n # 0
    <3>1. n - 1 \in Nat /\ n - 1 < n
      BY <2>2
    <3>2. PICK h \in [0..(n - 1) -> X] : Solves(h, 0..(n - 1), S, init, par, step)
      BY <1>1, <3>1
    <3> DEFINE v == IF n \in S THEN init[n] ELSE step[<<n, h[par[n]]>>]
               g == [m \in 0..n |-> IF m = n THEN v ELSE h[m]]
    <3>3. v \in X
      <4>1. n \notin S => par[n] \in 0..(n - 1)
        BY <3>1 DEF Descends
      <4> QED BY <4>1
    <3>4. g \in [0..n -> X]
      BY <3>1, <3>3
    <3>5. \A m \in 0..(n - 1) : g[m] = h[m]
      BY <3>1
    <3>6. g[n] = v
      OBVIOUS
    <3> HIDE DEF g
    <3>7. ASSUME NEW m \in 0..n PROVE g[m] = IF m \in S THEN init[m] ELSE step[<<m, g[par[m]]>>]
      <4>1. m \notin S => par[m] \in 0..(n - 1) /\ g[par[m]] = h[par[m]]
        BY <3>5 DEF Descends
      <4>2. CASE m = n
        BY <3>6, <4>1, <4>2
      <4>3. CASE m # n
        <5>1. m \in 0..(n - 1)
          BY <4>3
        <5>2. h[m] = IF m \in S THEN init[m] ELSE step[<<m, h[par[m]]>>]
          BY <3>2, <5>1 DEF Solves
        <5> QED BY <3>5, <4>1, <5>1, <5>2
      <4> QED BY <4>2, <4>3
    <3> HIDE DEF v
    <3>8. Solves(g, 0..n, S, init, par, step)
      BY <3>7 DEF Solves
    <3> QED BY <3>4, <3>8
  <2> QED BY <2>1, <2>2
<1>2. Nat \subseteq Good
  <2> HIDE DEF Good
  <2> QED BY <1>1, Induction
<1> DEFINE g(n) == CHOOSE g \in Sol(n) : TRUE
           f == [n \in Nat |-> g(n)[n]]
<1>3. \A n \in Nat : g(n) \in Sol(n)
  BY <1>2
<1> HIDE DEF g
<1>4. f \in [Nat -> X]
  BY <1>3
<1>5. \A n \in Nat : \A m \in 0..n : g(n)[m] = f[m]
  <2> SUFFICES ASSUME NEW n \in Nat, NEW m \in 0..n PROVE g(n)[m] = g(m)[m]
    OBVIOUS
  <2>1. Solves(g(n), 0..n, S, init, par, step) /\ Solves(g(m), 0..m, S, init, par, step)
    BY <1>3
  <2> DEFINE gn == g(n)
             gm == g(m)
  <2>2. Solves(gn, 0..n, S, init, par, step) /\ Solves(gm, 0..m, S, init, par, step)
    BY <2>1
  <2>3. m \in Nat /\ m \in (0..n) \cap (0..m)
    OBVIOUS
  <2> HIDE DEF gn, gm, f, Good
  <2>4. \A i \in (0..n) \cap (0..m) : gn[i] = gm[i]
    BY <2>2, <2>3, SameSolution
  <2> QED BY <2>3, <2>4 DEF gn, gm
<1>6. ASSUME NEW n \in Nat PROVE f[n] = IF n \in S THEN init[n] ELSE step[<<n, f[par[n]]>>]
  <2>1. n \in 0..n /\ (n \notin S => par[n] \in 0..n)
    BY DEF Descends
  <2>2. g(n)[n] = IF n \in S THEN init[n] ELSE step[<<n, g(n)[par[n]]>>]
    BY <1>3, <2>1 DEF Solves
  <2>3. g(n)[n] = f[n] /\ (n \notin S => g(n)[par[n]] = f[par[n]])
    BY <1>5, <2>1
  <2> HIDE DEF f
  <2> QED BY <2>2, <2>3
<1> HIDE DEF f
<1>7. Solves(f, Nat, S, init, par, step)
  BY <1>6 DEF Solves
<1> QED BY <1>4, <1>7

----------------------------------------------------------------------------
(* Numbers and the strings of their digits.                                *)

(* What the provers need to know of dividing by the base.                  *)
LEMMA Division ==
  ASSUME NEW k \in Nat
  PROVE  /\ k \div Base \in Nat
         /\ k % Base \in 0 .. Base - 1
         /\ k = Base * (k \div Base) + (k % Base)
         /\ k >= Base => k \div Base < k
         /\ k < Base <=> k \div Base = 0
BY YcsbAssumption

(* Power is the function its definition describes.                         *)
LEMMA PowerIs ==
  /\ Power \in [Nat -> Nat \ {0}]
  /\ Power[0] = 1
  /\ \A n \in Nat : Power[n + 1] = Base * Power[n]
<1> DEFINE S == {0}
           X == Nat \ {0}
           init == [n \in S |-> 1]
           par == [n \in Nat |-> IF n = 0 THEN 0 ELSE n - 1]
           step == [p \in Nat \X X |-> Base * p[2]]
           rule(f) == [n \in Nat |-> IF n = 0 THEN 1 ELSE Base * f[n - 1]]
<1>1. Descends(par, S)
  BY DEF Descends
<1>2. init \in [S -> X] /\ step \in [Nat \X X -> X]
  BY YcsbAssumption
<1>3. \E f \in [Nat -> X] : Solves(f, Nat, S, init, par, step)
  <2> HIDE DEF S, X, init, par, step
  <2> QED BY <1>1, <1>2, Recursion
<1>4. PICK f \in [Nat -> X] : f = rule(f)
  <2>1. PICK f \in [Nat -> X] : Solves(f, Nat, S, init, par, step)
    BY <1>3
  <2>2. ASSUME NEW n \in Nat PROVE f[n] = IF n = 0 THEN 1 ELSE Base * f[n - 1]
    <3>1. f[n] = IF n \in S THEN init[n] ELSE step[<<n, f[par[n]]>>]
      BY <2>1 DEF Solves
    <3>2. CASE n = 0
      BY <3>1, <3>2
    <3>3. CASE n # 0
      <4>1. par[n] = n - 1 /\ n - 1 \in Nat /\ f[n - 1] \in X
        BY <3>3
      <4>2. step[<<n, f[n - 1]>>] = Base * f[n - 1]
        BY <4>1
      <4> QED BY <3>1, <3>3, <4>1, <4>2
    <3> QED BY <3>2, <3>3
  <2>3. f = rule(f)
    BY <2>2
  <2> QED BY <2>3
<1>5. Power = rule(Power)
  <2>1. Power = CHOOSE g : g = rule(g)
    BY DEF Power
  <2> HIDE DEF rule
  <2> QED BY <1>4, <2>1
<1>6. Power[0] = 1 /\ \A n \in Nat : Power[n + 1] = Base * Power[n]
  BY <1>5
<1>7. \A n \in Nat : Power[n] \in X
  <2> DEFINE Good == {n \in Nat : Power[n] \in X}
  <2>1. ASSUME NEW n \in Nat, \A m \in Nat : m < n => m \in Good PROVE n \in Good
    <3>1. CASE n = 0
      BY <1>6, <3>1
    <3>2. CASE n # 0
      <4>1. n - 1 \in Good /\ n - 1 \in Nat /\ n = (n - 1) + 1
        BY <2>1, <3>2
      <4>2. Power[n] = Base * Power[n - 1]
        BY <1>6, <4>1
      <4> QED BY <4>1, <4>2, YcsbAssumption
    <3> QED BY <3>1, <3>2
  <2> HIDE DEF Good
  <2>2. Nat \subseteq Good
    BY <2>1, Induction
  <2> QED BY <2>2 DEF Good
<1>8. Power = [n \in Nat |-> Power[n]]
  BY <1>5
<1> QED BY <1>6, <1>7, <1>8

Texts == Seq(0 .. Base - 1)

(* So is Str, and its values are nonempty strings of digits.               *)
LEMMA StrIs ==
  \A k \in Nat : /\ Str[k] \in Texts /\ Str[k] # << >>
                 /\ Str[k] = IF k < Base THEN <<k>> ELSE Append(Str[k \div Base], k % Base)
<1> DEFINE S == 0 .. Base - 1
           X == Texts \ {<< >>}
           init == [n \in S |-> <<n>>]
           par == [n \in Nat |-> n \div Base]
           step == [p \in Nat \X X |-> Append(p[2], p[1] % Base)]
           rule(f) == [k \in Nat |-> IF k < Base THEN <<k>> ELSE Append(f[k \div Base], k % Base)]
<1>1. Descends(par, S)
  BY Division, YcsbAssumption DEF Descends
<1>2. init \in [S -> X]
  BY DEF Texts
<1>3. step \in [Nat \X X -> X]
  <2>1. ASSUME NEW p \in Nat \X X PROVE Append(p[2], p[1] % Base) \in X
    <3>1. p[1] % Base \in 0 .. Base - 1 /\ p[2] \in Seq(0 .. Base - 1)
      BY Division DEF Texts
    <3>2. /\ Append(p[2], p[1] % Base) \in Seq(0 .. Base - 1)
          /\ Len(Append(p[2], p[1] % Base)) = Len(p[2]) + 1 /\ Len(p[2]) \in Nat
      BY <3>1
    <3> QED BY <3>2 DEF Texts
  <2> HIDE DEF X
  <2> QED BY <2>1
<1>4. \E f \in [Nat -> X] : Solves(f, Nat, S, init, par, step)
  <2> HIDE DEF S, X, init, par, step
  <2> QED BY <1>1, <1>2, <1>3, Recursion
<1>5. PICK f \in [Nat -> X] : f = rule(f)
  <2>1. PICK f \in [Nat -> X] : Solves(f, Nat, S, init, par, step)
    BY <1>4
  <2>2. ASSUME NEW n \in Nat PROVE f[n] = IF n < Base THEN <<n>> ELSE Append(f[n \div Base], n % Base)
    <3>1. f[n] = IF n \in S THEN init[n] ELSE step[<<n, f[par[n]]>>]
      BY <2>1 DEF Solves
    <3>2. n \in S <=> n < Base
      BY YcsbAssumption
    <3>3. par[n] = n \div Base /\ n \div Base \in Nat
      BY Division
    <3>4. f[n \div Base] \in X
      BY <3>3
    <3>5. step[<<n, f[n \div Base]>>] = Append(f[n \div Base], n % Base)
      <4> HIDE DEF X
      <4> QED BY <3>4
    <3>6. n \in S => init[n] = <<n>>
      OBVIOUS
    <3> HIDE DEF S, init, par, step, X
    <3> QED BY <3>1, <3>2, <3>3, <3>5, <3>6
  <2>3. f = rule(f)
    BY <2>2
  <2> QED BY <2>3
<1>6. Str = rule(Str)
  <2>1. Str = CHOOSE g : g = rule(g)
    BY DEF Str
  <2> HIDE DEF rule
  <2> QED BY <1>5, <2>1
<1>7. \A k \in Nat : Str[k] = IF k < Base THEN <<k>> ELSE Append(Str[k \div Base], k % Base)
  BY <1>6
<1>8. \A k \in Nat : Str[k] \in X
  <2> DEFINE Good == {n \in Nat : Str[n] \in X}
  <2>1. ASSUME NEW n \in Nat, \A m \in Nat : m < n => m \in Good PROVE n \in Good
    <3>1. CASE n < Base
      <4>1. Str[n] = <<n>>
        BY <1>7, <3>1
      <4>2. n \in S
        BY <3>1, YcsbAssumption
      <4>3. init[n] = <<n>> /\ init[n] \in X
        BY <1>2, <4>2
      <4> QED BY <4>1, <4>3
    <3>2. CASE ~(n < Base)
      <4>1. n \div Base \in Nat /\ n \div Base < n
        BY <3>2, Division, YcsbAssumption
      <4>2. n \div Base \in Good
        BY <2>1, <4>1
      <4>3. Str[n] = Append(Str[n \div Base], n % Base)
        BY <1>7, <3>2
      <4>4. step[<<n, Str[n \div Base]>>] = Append(Str[n \div Base], n % Base)
        <5> HIDE DEF X
        <5> QED BY <4>2
      <4>5. step[<<n, Str[n \div Base]>>] \in X
        <5> HIDE DEF X, step
        <5> QED BY <1>3, <4>2
      <4> QED BY <4>3, <4>4, <4>5
    <3> QED BY <3>1, <3>2
  <2> HIDE DEF Good
  <2>2. Nat \subseteq Good
    BY <2>1, Induction
  <2> QED BY <2>2 DEF Good
<1> QED BY <1>7, <1>8

(* A number is known by its digits.                                        *)
LEMMA StrInjective == \A a, b \in Nat : Str[a] = Str[b] => a = b
<1> DEFINE Good == {a \in Nat : \A b \in Nat : Str[a] = Str[b] => a = b}
<1>1. ASSUME NEW a \in Nat, \A m \in Nat : m < a => m \in Good PROVE a \in Good
  <2> SUFFICES ASSUME NEW b \in Nat, Str[a] = Str[b] PROVE a = b
    OBVIOUS
  <2> DEFINE p == Str[a \div Base]
             q == Str[b \div Base]
  <2>1. /\ a < Base => Str[a] = <<a>>
        /\ ~(a < Base) => Str[a] = Append(p, a % Base)
        /\ b < Base => Str[b] = <<b>>
        /\ ~(b < Base) => Str[b] = Append(q, b % Base)
    BY StrIs
  <2>2. p \in Texts /\ p # << >> /\ q \in Texts /\ q # << >>
    BY StrIs, Division
  <2>3. a \div Base \in Nat /\ (~(a < Base) => a \div Base \in Good)
    BY <1>1, Division, YcsbAssumption
  <2> HIDE DEF p, q
  <2>4. Len(p) >= 1 /\ Len(q) >= 1 /\ Len(p) \in Nat /\ Len(q) \in Nat
    BY <2>2 DEF Texts
  <2>5. CASE a < Base /\ b < Base
    BY <2>1, <2>5
  <2>6. CASE a < Base /\ ~(b < Base)
    <3>1. Len(<<a>>) = 1 /\ Len(Append(q, b % Base)) = Len(q) + 1
      BY <2>2 DEF Texts
    <3> QED BY <2>1, <2>4, <2>6, <3>1
  <2>7. CASE ~(a < Base) /\ b < Base
    <3>1. Len(<<b>>) = 1 /\ Len(Append(p, a % Base)) = Len(p) + 1
      BY <2>2 DEF Texts
    <3> QED BY <2>1, <2>4, <2>7, <3>1
  <2>8. CASE ~(a < Base) /\ ~(b < Base)
    <3>1. Append(p, a % Base) = Append(q, b % Base)
      BY <2>1, <2>8
    <3>2. p = q /\ a % Base = b % Base
      <4>1. p \in Seq(0 .. Base - 1) /\ q \in Seq(0 .. Base - 1)
            /\ a % Base \in 0 .. Base - 1 /\ b % Base \in 0 .. Base - 1
        BY <2>2, Division DEF Texts
      <4> QED BY <3>1, <4>1, AppendInjective
    <3>3. a \div Base = b \div Base
      BY <2>3, <2>8, <3>2, Division DEF p, q
    <3> QED BY <3>2, <3>3, Division
  <2> QED BY <2>5, <2>6, <2>7, <2>8
<1> HIDE DEF Good
<1>2. Nat \subseteq Good
  BY <1>1, Induction
<1> QED BY <1>2 DEF Good

(* No number's string contains the separator.                              *)
LEMMA TextIs ==
  ASSUME NEW s \in Texts
  PROVE  /\ s \in Seq(0..Base)
         /\ Len(s) \in Nat
         /\ \A i \in 1..Len(s) : s[i] # Underscore
<1>1. 0 .. Base - 1 \subseteq 0..Base
  BY YcsbAssumption
<1>2. s \in Seq(0..Base)
  BY <1>1, SeqMonotonic DEF Texts
<1>3. \A i \in 1..Len(s) : s[i] \in 0 .. Base - 1
  BY ElementOfSeq DEF Texts
<1>4. \A i \in 1..Len(s) : s[i] # Underscore
  BY <1>3, YcsbAssumption DEF Underscore
<1> QED BY <1>2, <1>4

(* A string behind a prefix.                                               *)
Prefixed(s, u) == Append(s, Underscore) \o u

LEMMA PrefixedIs ==
  ASSUME NEW s \in Texts, NEW u \in Seq(0..Base)
  PROVE  /\ Prefixed(s, u) \in Seq(0..Base)
         /\ Len(Prefixed(s, u)) = Len(s) + 1 + Len(u)
         /\ \A i \in 1..Len(s) : Prefixed(s, u)[i] = s[i]
         /\ Prefixed(s, u)[Len(s) + 1] = Underscore
         /\ \A i \in 1..Len(u) : Prefixed(s, u)[Len(s) + 1 + i] = u[i]
<1> DEFINE p == Append(s, Underscore)
           x == Prefixed(s, u)
<1>1. s \in Seq(0..Base) /\ Underscore \in 0..Base /\ Len(s) \in Nat /\ Len(u) \in Nat
  BY TextIs, YcsbAssumption DEF Underscore
<1>2. /\ p \in Seq(0..Base)
      /\ Len(p) = Len(s) + 1
      /\ \A i \in 1..Len(s) : p[i] = s[i]
      /\ p[Len(s) + 1] = Underscore
  BY <1>1, AppendProperties
<1>3. x = p \o u
  BY DEF Prefixed
<1> HIDE DEF p, x
<1>4. /\ x \in Seq(0..Base)
      /\ Len(x) = Len(p) + Len(u)
      /\ \A i \in 1 .. Len(p) + Len(u) :
           x[i] = IF i <= Len(p) THEN p[i] ELSE u[i - Len(p)]
  <2>1. /\ p \o u \in Seq(0..Base)
        /\ Len(p \o u) = Len(p) + Len(u)
        /\ \A i \in 1 .. Len(p) + Len(u) :
             (p \o u)[i] = IF i <= Len(p) THEN p[i] ELSE u[i - Len(p)]
    BY <1>2, ConcatProperties
  <2> QED BY <1>3, <2>1
<1>6. \A i \in 1..Len(s) : x[i] = p[i]
  BY <1>1, <1>2, <1>4
<1>7. x[Len(s) + 1] = p[Len(s) + 1]
  BY <1>1, <1>2, <1>4
<1>5. ASSUME NEW i \in 1..Len(u) PROVE x[Len(s) + 1 + i] = u[i]
  <2>1. Len(s) + 1 + i \in 1 .. Len(p) + Len(u) /\ ~(Len(s) + 1 + i <= Len(p))
        /\ Len(s) + 1 + i - Len(p) = i
    BY <1>1, <1>2
  <2> QED BY <1>4, <2>1
<1>8. Len(x) = Len(s) + 1 + Len(u)
  BY <1>2, <1>4
<1>9. x[Len(s) + 1] = Underscore
  BY <1>2, <1>7
<1>10. \A i \in 1..Len(s) : x[i] = s[i]
  BY <1>2, <1>6
<1>11. x \in Seq(0..Base)
  BY <1>4
<1> QED BY <1>5, <1>8, <1>9, <1>10, <1>11 DEF x

(* The separator ends the prefix: it is the first one in the key.          *)
LEMMA PrefixIsUnique ==
  ASSUME NEW s \in Texts, NEW t \in Texts, NEW u \in Seq(0..Base), NEW v \in Seq(0..Base),
         Prefixed(s, u) = Prefixed(t, v)
  PROVE  s = t /\ u = v
<1> DEFINE x == Prefixed(s, u)
<1>1. Len(s) \in Nat /\ Len(t) \in Nat /\ Len(u) \in Nat /\ Len(v) \in Nat
  BY TextIs
<1>2. /\ s \in Seq(0..Base) /\ t \in Seq(0..Base)
      /\ \A i \in 1..Len(s) : s[i] # Underscore
      /\ \A i \in 1..Len(t) : t[i] # Underscore
  BY TextIs
<1>3. /\ Len(x) = Len(s) + 1 + Len(u)
      /\ \A i \in 1..Len(s) : x[i] = s[i]
      /\ x[Len(s) + 1] = Underscore
      /\ \A i \in 1..Len(u) : x[Len(s) + 1 + i] = u[i]
  BY PrefixedIs
<1>4. /\ Len(x) = Len(t) + 1 + Len(v)
      /\ \A i \in 1..Len(t) : x[i] = t[i]
      /\ x[Len(t) + 1] = Underscore
      /\ \A i \in 1..Len(v) : x[Len(t) + 1 + i] = v[i]
  <2>1. x = Prefixed(t, v)
    OBVIOUS
  <2> HIDE DEF x
  <2> QED BY <2>1, PrefixedIs
<1> HIDE DEF x
<1>5. ~(Len(s) < Len(t))
  <2> SUFFICES ASSUME Len(s) < Len(t) PROVE FALSE
    OBVIOUS
  <2>1. Len(s) + 1 \in 1..Len(t)
    BY <1>1
  <2> QED BY <1>2, <1>3, <1>4, <2>1
<1>6. ~(Len(t) < Len(s))
  <2> SUFFICES ASSUME Len(t) < Len(s) PROVE FALSE
    OBVIOUS
  <2>1. Len(t) + 1 \in 1..Len(s)
    BY <1>1
  <2> QED BY <1>2, <1>3, <1>4, <2>1
<1>7. Len(s) = Len(t) /\ Len(u) = Len(v)
  BY <1>1, <1>3, <1>4, <1>5, <1>6
<1>8. \A i \in 1..Len(s) : s[i] = t[i]
  BY <1>3, <1>4, <1>7
<1>9. \A i \in 1..Len(u) : u[i] = v[i]
  BY <1>3, <1>4, <1>7
<1> QED BY <1>2, <1>7, <1>8, <1>9, SeqEqual

LEMMA StrIsKey ==
  ASSUME NEW k \in Nat
  PROVE  Str[k] \in Texts /\ Str[k] \in Seq(0..Base)
BY StrIs, TextIs

(* What StoredKey and InitKey make.                                        *)
LEMMA KeysArePrefixed ==
  ASSUME NEW c, NEW key, NEW i
  PROVE  /\ StoredKey(c, key) = Prefixed(Str[c], key)
         /\ InitKey(c, i) = Prefixed(Str[c], Prefixed(Str[c], Str[i]))
BY DEF InitKey, StoredKey, ClientId, Prefixed

(* No two clients share a key.                                             *)
LEMMA KeysOfClients ==
  ASSUME NEW b \in Nat, NEW c \in Nat, NEW k \in Nat, NEW j \in Nat,
         StoredKey(c, Str[k]) = StoredKey(b, Str[j])
  PROVE  b = c
<1>1. Prefixed(Str[c], Str[k]) = Prefixed(Str[b], Str[j])
  BY KeysArePrefixed
<1>2. Str[c] = Str[b]
  BY <1>1, StrIsKey, PrefixIsUnique
<1> QED BY <1>2, StrInjective

(* The keys of Init carry a second prefix, and no number does.             *)
LEMMA KeysOfInit ==
  ASSUME NEW b \in Nat, NEW c \in Nat, NEW k \in Nat, NEW i \in Nat
  PROVE  StoredKey(c, Str[k]) # InitKey(b, i)
<1> SUFFICES ASSUME StoredKey(c, Str[k]) = InitKey(b, i) PROVE FALSE
  OBVIOUS
<1> DEFINE rest == Prefixed(Str[b], Str[i])
<1>1. /\ Str[b] \in Texts /\ Str[c] \in Texts /\ Str[k] \in Texts /\ Str[k] \in Seq(0..Base)
      /\ Str[i] \in Seq(0..Base) /\ Len(Str[b]) \in Nat /\ Len(Str[i]) \in Nat
  BY StrIsKey, TextIs
<1>2. /\ rest \in Seq(0..Base)
      /\ Len(rest) = Len(Str[b]) + 1 + Len(Str[i])
      /\ rest[Len(Str[b]) + 1] = Underscore
  BY <1>1, PrefixedIs
<1>3. Prefixed(Str[c], Str[k]) = Prefixed(Str[b], rest)
  BY KeysArePrefixed
<1> HIDE DEF rest
<1>4. Str[k] = rest
  BY <1>1, <1>2, <1>3, PrefixIsUnique
<1>5. \A n \in 1..Len(Str[k]) : Str[k][n] # Underscore
  BY <1>1, TextIs
<1>6. Len(Str[b]) + 1 \in 1..Len(rest)
  <2>1. \A m, n \in Nat : m + 1 \in 1 .. m + 1 + n
    OBVIOUS
  <2> QED BY <1>1, <1>2, <2>1
<1> QED BY <1>2, <1>4, <1>5, <1>6

----------------------------------------------------------------------------
(* The invariant: types, and where each value on the server comes from.    *)

Values == [by : Clients, what : {"init", "write"}]

Tasks == [op : {"read", "write", "range"}, key : KeysDrawn]

Entries(time) == [kind : {"txn", "verify"}, n : 0..1, time : 0..time, status : {0, 1}]
                   \cup [kind : {"keys"}]

YTyped ==
  /\ system \in {"ccf", "merkle2", "ledger"}
  /\ now \in 0..MaxTime
  /\ records \subseteq 0..RowNum
  /\ preload \in [Clients -> 0..Preloaded]
  /\ alive \subseteq Clients
  /\ verify \subseteq Clients
  /\ txn \in [Clients -> {Idle} \cup Tasks]
  /\ log \in [Clients -> Seq(Entries(now))]

(* A value is under a key its client gave it: one of Init's, or a number.  *)
PutUnder(s, v) ==
  \/ v.what = "init" /\ \E i \in Nat : s = InitKey(v.by, i)
  \/ v.what = "write" /\ \E k \in Nat : s = StoredKey(v.by, Str[k])

Traced ==
  \A s \in DOMAIN appended :
    /\ appended[s] \in Seq(Values)
    /\ \A n \in 1..Len(appended[s]) : PutUnder(s, appended[s][n])

YInv == YTyped /\ Traced

LEMMA RowNumIsNat == RowNum \in Nat /\ KeysDrawn \subseteq Nat
<1>1. RowNum \in Nat
  BY PowerIs, YcsbAssumption DEF RowNum
<1> QED BY <1>1, YcsbAssumption

LEMMA InitYInv == Init => YInv
<1> SUFFICES ASSUME Init PROVE YInv
  OBVIOUS
<1>1. records \subseteq 0..RowNum
  BY RowNumIsNat DEF Init
<1>2. log \in [Clients -> Seq(Entries(now))]
  BY DEF Init
<1>3. YTyped
  BY <1>1, <1>2, YcsbAssumption DEF Init, YTyped
<1>4. Traced
  BY DEF Init, Traced
<1> QED BY <1>3, <1>4 DEF YInv

(* One more value.                                                         *)
LEMMA AppendedIsTraced ==
  ASSUME Traced, NEW key, NEW v \in Values, PutUnder(key, v), appended' = Appended(key, v)
  PROVE  Traced'
<1> SUFFICES ASSUME NEW s \in DOMAIN appended'
             PROVE  /\ appended'[s] \in Seq(Values)
                    /\ \A n \in 1..Len(appended'[s]) : PutUnder(s, appended'[s][n])
  BY DEF Traced, PutUnder, StoredKey, InitKey, ClientId
<1>1. s \in DOMAIN appended \cup {key}
  BY DEF Appended
<1>2. CASE s \notin DOMAIN appended
  <2>1. appended'[s] = <<v>> /\ s = key
    BY <1>1, <1>2 DEF Appended
  <2> QED BY <2>1
<1>3. CASE s \in DOMAIN appended /\ s = key
  <2>1. appended'[s] = Append(appended[s], v)
    BY <1>1, <1>3 DEF Appended
  <2>2. appended[s] \in Seq(Values) /\ \A n \in 1..Len(appended[s]) : PutUnder(s, appended[s][n])
    BY <1>3 DEF Traced
  <2> DEFINE old == appended[s]
             new == appended'[s]
  <2>3. /\ new \in Seq(Values)
        /\ Len(new) = Len(old) + 1 /\ Len(old) \in Nat
        /\ \A n \in 1..Len(old) : new[n] = old[n]
        /\ new[Len(old) + 1] = v
    BY <2>1, <2>2, AppendProperties
  <2> HIDE DEF old, new
  <2>4. \A n \in 1..Len(new) : n \in 1..Len(old) \/ n = Len(old) + 1
    BY <2>3
  <2>5. \A n \in 1..Len(old) : PutUnder(s, old[n])
    BY <2>2 DEF old
  <2>6. \A n \in 1..Len(new) : PutUnder(s, new[n])
    BY <1>3, <2>3, <2>4, <2>5
  <2> QED BY <2>3, <2>6 DEF new
<1>4. CASE s \in DOMAIN appended /\ s # key
  <2>1. appended'[s] = appended[s]
    BY <1>1, <1>4 DEF Appended
  <2> QED BY <1>4, <2>1 DEF Traced
<1> QED BY <1>2, <1>3, <1>4

(* Where values are from does not depend on the state.                     *)
LEMMA SameIsTraced ==
  ASSUME Traced, UNCHANGED appended
  PROVE  Traced'
<1>1. \A s, v : PutUnder(s, v)' = PutUnder(s, v)
  BY DEF PutUnder, StoredKey, InitKey, ClientId
<1> QED BY <1>1 DEF Traced

(* A line more, at the present time.                                       *)
LEMMA LoggedIsTyped ==
  ASSUME YTyped, NEW c \in Clients, NEW line \in Entries(now)
  PROVE  [log EXCEPT ![c] = Append(@, line)] \in [Clients -> Seq(Entries(now))]
<1>1. log[c] \in Seq(Entries(now))
  BY DEF YTyped
<1>2. Append(log[c], line) \in Seq(Entries(now))
  BY <1>1, AppendProperties
<1> QED BY <1>2 DEF YTyped

(* Every action keeps the invariant.                                       *)
LEMMA StepYInv == YInv /\ [Next]_vars => YInv'
<1> SUFFICES ASSUME YInv, [Next]_vars PROVE YInv'
  OBVIOUS
<1> USE DEF YInv
<1>1. CASE UNCHANGED vars
  <2>1. Traced'
    BY <1>1, SameIsTraced DEF vars
  <2> QED BY <1>1, <2>1 DEF vars, YTyped, Entries, Tasks
<1>2. CASE Tick
  <2>1. Traced'
    BY <1>2, SameIsTraced DEF Tick
  <2>2. now' \in 0..MaxTime /\ now \in Nat /\ now' = now + 1
    BY <1>2, YcsbAssumption DEF Tick, YTyped
  <2>3. Entries(now) \subseteq Entries(now')
    <3>1. 0..now \subseteq 0..now'
      BY <2>2
    <3> QED BY <3>1 DEF Entries
  <2>4. ASSUME NEW c \in Clients PROVE log[c] \in Seq(Entries(now'))
    <3>1. log[c] \in Seq(Entries(now))
      BY DEF YTyped
    <3> QED BY <2>3, <3>1, SeqMonotonic
  <2>5. log' \in [Clients -> Seq(Entries(now'))]
    BY <1>2, <2>4 DEF Tick, YTyped
  <2> QED BY <1>2, <2>1, <2>2, <2>5 DEF Tick, YTyped, Tasks
<1>3. ASSUME NEW c \in Clients, InitPuts(c) PROVE YInv'
  <2>1. preload[c] \in Nat /\ preload[c] + 1 \in 0..Preloaded
    BY <1>3, YcsbAssumption DEF InitPuts, YTyped
  <2>2. Traced'
    <3>1. [by |-> c, what |-> "init"] \in Values
      BY DEF Values
    <3>2. PutUnder(InitKey(c, preload[c]), [by |-> c, what |-> "init"])
      BY <2>1 DEF PutUnder
    <3> QED BY <1>3, <3>1, <3>2, AppendedIsTraced DEF InitPuts
  <2>3. YTyped'
    BY <1>3, <2>1 DEF InitPuts, YTyped, Tasks, Entries
  <2> QED BY <2>2, <2>3
<1>4. ASSUME NEW c \in Clients, TxnBegins(c) PROVE YInv'
  <2>1. Traced'
    BY <1>4, SameIsTraced DEF TxnBegins
  <2>2. YTyped'
    BY <1>4 DEF TxnBegins, YTyped, Tasks, Entries
  <2> QED BY <2>1, <2>2
<1>5. ASSUME NEW c \in Clients, NEW k \in Nat
      PROVE  /\ [by |-> c, what |-> "write"] \in Values
             /\ PutUnder(StoredKey(c, Str[k]), [by |-> c, what |-> "write"])
  BY DEF Values, PutUnder
<1>6. ASSUME NEW c \in Clients, txn[c] # Idle PROVE txn[c].key \in KeysDrawn /\ txn[c].key \in Nat
  BY <1>6, RowNumIsNat DEF YTyped, Tasks
<1>7. ASSUME NEW c \in Clients, TxnEnds(c) PROVE YInv'
  <2>1. PICK status \in Statuses(c), done \in BOOLEAN :
          /\ records' = IF system = "ccf" /\ txn[c].op = "write" /\ done
                          THEN records \cup {txn[c].key} ELSE records
          /\ log' = [log EXCEPT ![c] = Append(@, Printed("txn", 1, status))]
    BY <1>7 DEF TxnEnds
  <2>2. txn[c] # Idle
    BY <1>7 DEF TxnEnds
  <2>3. Traced'
    <3>1. CASE appended' = Appended(StoredKey(c, Str[txn[c].key]), [by |-> c, what |-> "write"])
      BY <1>5, <1>6, <2>2, <3>1, AppendedIsTraced
    <3>2. CASE UNCHANGED appended
      BY <3>2, SameIsTraced
    <3> QED BY <1>7, <3>1, <3>2 DEF TxnEnds
  <2>4. records' \subseteq 0..RowNum
    <3>1. txn[c].key \in 0..RowNum
      BY <1>6, <2>2, RowNumIsNat, YcsbAssumption
    <3> QED BY <2>1, <3>1 DEF YTyped
  <2>5. log' \in [Clients -> Seq(Entries(now))]
    <3>1. Printed("txn", 1, status) \in Entries(now)
      BY <2>1, YcsbAssumption DEF Printed, Entries, Statuses, YTyped
    <3> QED BY <2>1, <3>1, LoggedIsTyped
  <2>6. txn' \in [Clients -> {Idle} \cup Tasks]
    BY <1>7 DEF TxnEnds, YTyped
  <2>7. YTyped'
    BY <1>7, <2>4, <2>5, <2>6 DEF TxnEnds, YTyped, Tasks
  <2> QED BY <2>3, <2>7
<1>8. ASSUME NEW c \in Clients, SetFails(c) PROVE YInv'
  <2>1. Traced'
    <3>1. CASE UNCHANGED appended
      BY <3>1, SameIsTraced
    <3>2. CASE preload[c] < Preloaded
               /\ appended' = Appended(InitKey(c, preload[c]), [by |-> c, what |-> "init"])
      <4>1. [by |-> c, what |-> "init"] \in Values
        BY DEF Values
      <4>2. PutUnder(InitKey(c, preload[c]), [by |-> c, what |-> "init"])
        BY DEF PutUnder, YTyped
      <4> QED BY <3>2, <4>1, <4>2, AppendedIsTraced
    <3>3. CASE ~(preload[c] < Preloaded)
               /\ appended' = Appended(StoredKey(c, Str[txn[c].key]), [by |-> c, what |-> "write"])
      <4>1. txn[c] # Idle
        BY <1>8, <3>3 DEF SetFails, Idle
      <4> QED BY <1>5, <1>6, <3>3, <4>1, AppendedIsTraced
    <3> QED BY <1>8, <3>1, <3>2, <3>3 DEF SetFails
  <2>2. YTyped'
    BY <1>8 DEF SetFails, YTyped, Tasks, Entries
  <2> QED BY <2>1, <2>2
<1>9. ASSUME NEW c \in Clients, VerifyBegins(c) PROVE YInv'
  <2>1. Traced'
    BY <1>9, SameIsTraced DEF VerifyBegins
  <2>2. YTyped'
    BY <1>9 DEF VerifyBegins, YTyped, Tasks, Entries
  <2> QED BY <2>1, <2>2
<1>10. ASSUME NEW c \in Clients, VerifyEnds(c) PROVE YInv'
  <2>1. Traced'
    BY <1>10, SameIsTraced DEF VerifyEnds
  <2>2. PICK left \in 0..1, status \in {0, 1} :
          log' = [log EXCEPT ![c] =
                    @ \o <<[kind |-> "keys"], Printed("verify", left, status)>>]
    BY <1>10 DEF VerifyEnds
  <2>3. log' \in [Clients -> Seq(Entries(now))]
    <3> DEFINE two == <<[kind |-> "keys"], Printed("verify", left, status)>>
    <3>1. [kind |-> "keys"] \in Entries(now) /\ Printed("verify", left, status) \in Entries(now)
      BY YcsbAssumption DEF Printed, Entries, YTyped
    <3>2. two \in Seq(Entries(now)) /\ log[c] \in Seq(Entries(now))
      BY <3>1 DEF YTyped
    <3> HIDE DEF two
    <3>3. log[c] \o two \in Seq(Entries(now))
      BY <3>2, ConcatProperties
    <3>4. log' = [log EXCEPT ![c] = log[c] \o two]
      BY <2>2 DEF two, YTyped
    <3> QED BY <3>3, <3>4 DEF YTyped
  <2>4. YTyped'
    BY <1>10, <2>3 DEF VerifyEnds, YTyped, Tasks
  <2> QED BY <2>1, <2>4
<1> QED BY <1>1, <1>2, <1>3, <1>4, <1>7, <1>8, <1>9, <1>10 DEF Next

(* The types hold for any base, any clients and any bounds.                *)
THEOREM TypeCorrect == Spec => []TypeOK
<1>1. YInv => TypeOK
  <2> SUFFICES ASSUME YInv PROVE TypeOK
    OBVIOUS
  <2>1. ASSUME NEW s \in DOMAIN appended, NEW n \in DOMAIN appended[s]
        PROVE  appended[s][n] \in [by : Clients, what : {"init", "write"}]
    <3>1. appended[s] \in Seq(Values)
      BY DEF YInv, Traced
    <3>2. n \in 1..Len(appended[s])
      BY <2>1, <3>1, LenProperties
    <3> QED BY <3>1, <3>2, ElementOfSeq DEF Values
  <2>2. ASSUME NEW c \in Clients, NEW n \in DOMAIN log[c]
        PROVE  log[c][n] \in Entries(now)
    <3>1. log[c] \in Seq(Entries(now))
      BY DEF YInv, YTyped
    <3> QED BY <2>2, <3>1
  <2> QED BY <2>1, <2>2 DEF YInv, YTyped, TypeOK, Tasks, Entries
<1> QED BY <1>1, InitYInv, StepYInv, PTL DEF Spec

(* All clients share the name space of a Merkle2 server, and a client that *)
(* reads a number's key finds nothing there but what it wrote itself: no   *)
(* other client writes the key, and no Init puts it.                       *)
THEOREM KeysArePrivate == Spec => []ReadsOwnWrites
<1>1. YInv => ReadsOwnWrites
  <2> SUFFICES ASSUME YInv, NEW c \in Clients, NEW k \in 1..RowNum,
                      StoredKey(c, Str[k]) \in DOMAIN appended,
                      NEW n \in DOMAIN appended[StoredKey(c, Str[k])]
               PROVE  appended[StoredKey(c, Str[k])][n] = [by |-> c, what |-> "write"]
    BY DEF ReadsOwnWrites
  <2> DEFINE key == StoredKey(c, Str[k])
             v == appended[key][n]
  <2>1. v \in Values /\ PutUnder(key, v)
    BY DEF YInv, Traced
  <2>2. k \in Nat /\ c \in Nat /\ v.by \in Nat
    <3>1. v.by \in Clients
      BY <2>1 DEF Values
    <3>2. k \in Nat
      BY RowNumIsNat
    <3> HIDE DEF v
    <3> QED BY <3>1, <3>2, YcsbAssumption
  <2> HIDE DEF v
  <2>3. v.what = "write" /\ v.by = c
    BY <2>1, <2>2, KeysOfClients, KeysOfInit DEF PutUnder
  <2>4. v = [by |-> c, what |-> "write"]
    BY <2>1, <2>3 DEF Values
  <2> QED BY <2>4 DEF v
<1> QED BY <1>1, InitYInv, StepYInv, PTL DEF Spec

----------------------------------------------------------------------------
(* The order of strings and the order of numbers.                          *)

(* A digit more.                                                           *)
LEMMA AppendedText ==
  ASSUME NEW t \in Texts, NEW x \in 0 .. Base - 1
  PROVE  /\ Append(t, x) \in Texts
         /\ Len(t) \in Nat /\ DOMAIN t = 1..Len(t)
         /\ Len(Append(t, x)) = Len(t) + 1 /\ DOMAIN Append(t, x) = 1..(Len(t) + 1)
         /\ \A i \in 1..Len(t) : Append(t, x)[i] = t[i]
         /\ Append(t, x)[Len(t) + 1] = x
<1>1. t \in Seq(0 .. Base - 1)
  BY DEF Texts
<1>2. /\ Append(t, x) \in Seq(0 .. Base - 1)
      /\ Len(Append(t, x)) = Len(t) + 1
      /\ \A i \in 1..Len(t) : Append(t, x)[i] = t[i]
      /\ Append(t, x)[Len(t) + 1] = x
  BY <1>1, AppendProperties
<1>3. Len(t) \in Nat /\ DOMAIN t = 1..Len(t) /\ DOMAIN Append(t, x) = 1..Len(Append(t, x))
  BY <1>1, <1>2, LenProperties
<1> QED BY <1>1, <1>2, <1>3 DEF Texts

(* A digit more in the longer string.                                      *)
LEMMA LongerRight ==
  ASSUME NEW s \in Texts, NEW t \in Texts, NEW x \in 0 .. Base - 1, Len(s) <= Len(t)
  PROVE  Precedes(s, Append(t, x)) <=> Precedes(s, t) \/ s = t
<1> DEFINE u == Append(t, x)
<1>1. /\ Len(t) \in Nat /\ DOMAIN t = 1..Len(t)
      /\ Len(u) = Len(t) + 1 /\ DOMAIN u = 1..(Len(t) + 1)
      /\ \A i \in 1..Len(t) : u[i] = t[i]
  BY AppendedText
<1>2. Len(s) \in Nat /\ DOMAIN s = 1..Len(s) /\ s \in Seq(0 .. Base - 1) /\ t \in Seq(0 .. Base - 1)
  BY LenProperties DEF Texts
<1> HIDE DEF u
<1>3. \A i \in DOMAIN s : i \in DOMAIN t /\ i \in DOMAIN u /\ u[i] = t[i]
  BY <1>1, <1>2
<1>4. \A i \in DOMAIN s : \A j \in 1 .. i - 1 : u[j] = t[j]
  BY <1>1, <1>2
<1>5. ASSUME Precedes(s, u) PROVE Precedes(s, t) \/ s = t
  <2>1. CASE \A i \in DOMAIN s : s[i] = u[i]
    <3>1. \A i \in DOMAIN s : s[i] = t[i]
      BY <1>3, <2>1
    <3>2. CASE Len(s) < Len(t)
      BY <3>1, <3>2 DEF Precedes
    <3>3. CASE Len(s) = Len(t)
      BY <1>2, <3>1, <3>3, SeqEqual
    <3>4. Len(s) < Len(t) \/ Len(s) = Len(t)
      <4>1. Len(s) \in Nat /\ Len(t) \in Nat
        BY <1>1, <1>2
      <4>2. \A m, n \in Nat : m <= n => m < n \/ m = n
        OBVIOUS
      <4> QED BY <4>1, <4>2
    <3> QED BY <3>2, <3>3, <3>4
  <2>2. CASE \E i \in DOMAIN s \cap DOMAIN u : s[i] < u[i] /\ \A j \in 1 .. i - 1 : s[j] = u[j]
    <3>1. PICK i \in DOMAIN s \cap DOMAIN u : s[i] < u[i] /\ \A j \in 1 .. i - 1 : s[j] = u[j]
      BY <2>2
    <3>2. i \in DOMAIN s \cap DOMAIN t /\ s[i] < t[i] /\ \A j \in 1 .. i - 1 : s[j] = t[j]
      BY <1>3, <1>4, <3>1
    <3> QED BY <3>2 DEF Precedes
  <2>3. \/ \A i \in DOMAIN s : s[i] = u[i]
        \/ \E i \in DOMAIN s \cap DOMAIN u : s[i] < u[i] /\ \A j \in 1 .. i - 1 : s[j] = u[j]
    BY <1>5 DEF Precedes
  <2> QED BY <2>1, <2>2, <2>3
<1>6. ASSUME Precedes(s, t) \/ s = t PROVE Precedes(s, u)
  <2>1. Len(s) < Len(u)
    BY <1>1, <1>2
  <2>2. CASE \A i \in DOMAIN s : s[i] = t[i]
    BY <1>3, <2>1, <2>2 DEF Precedes
  <2>3. CASE \E i \in DOMAIN s \cap DOMAIN t : s[i] < t[i] /\ \A j \in 1 .. i - 1 : s[j] = t[j]
    BY <1>3, <1>4, <2>3 DEF Precedes
  <2> QED BY <1>6, <2>2, <2>3 DEF Precedes
<1> QED BY <1>5, <1>6 DEF u

(* A digit more in the one that is to precede.                             *)
LEMMA LongerLeft ==
  ASSUME NEW s \in Texts, NEW t \in Texts, NEW x \in 0 .. Base - 1, Len(t) <= Len(s)
  PROVE  Precedes(Append(s, x), t) <=> Precedes(s, t)
<1> DEFINE u == Append(s, x)
<1>1. /\ Len(s) \in Nat /\ DOMAIN s = 1..Len(s)
      /\ Len(u) = Len(s) + 1 /\ DOMAIN u = 1..(Len(s) + 1)
      /\ \A i \in 1..Len(s) : u[i] = s[i]
  BY AppendedText
<1>2. Len(t) \in Nat /\ DOMAIN t = 1..Len(t)
  BY LenProperties DEF Texts
<1> HIDE DEF u
<1>3. ~(Len(u) < Len(t)) /\ ~(Len(s) < Len(t))
  BY <1>1, <1>2
<1>4. \A i \in DOMAIN t : i \in DOMAIN s /\ i \in DOMAIN u /\ u[i] = s[i]
  BY <1>1, <1>2
<1>5. \A i \in DOMAIN t : \A j \in 1 .. i - 1 : u[j] = s[j]
  BY <1>1, <1>2
<1>6. Precedes(u, t) <=> \E i \in DOMAIN u \cap DOMAIN t : u[i] < t[i] /\ \A j \in 1 .. i - 1 : u[j] = t[j]
  BY <1>3 DEF Precedes
<1>7. Precedes(s, t) <=> \E i \in DOMAIN s \cap DOMAIN t : s[i] < t[i] /\ \A j \in 1 .. i - 1 : s[j] = t[j]
  BY <1>3 DEF Precedes
<1>8. Precedes(u, t) <=> Precedes(s, t)
  BY <1>4, <1>5, <1>6, <1>7
<1> QED BY <1>8 DEF u

(* A digit more in both.                                                   *)
LEMMA LongerBoth ==
  ASSUME NEW s \in Texts, NEW t \in Texts, NEW x \in 0 .. Base - 1, NEW y \in 0 .. Base - 1,
         Len(s) = Len(t)
  PROVE  Precedes(Append(s, x), Append(t, y)) <=> Precedes(s, t) \/ (s = t /\ x < y)
<1> DEFINE u == Append(s, x)
           v == Append(t, y)
           n == Len(s)
<1>1. /\ n \in Nat /\ DOMAIN s = 1..n /\ Len(u) = n + 1 /\ DOMAIN u = 1..(n + 1)
      /\ \A i \in 1..n : u[i] = s[i]
      /\ u[n + 1] = x
  BY AppendedText
<1>2. /\ DOMAIN t = 1..n /\ Len(v) = n + 1 /\ DOMAIN v = 1..(n + 1)
      /\ \A i \in 1..n : v[i] = t[i]
      /\ v[n + 1] = y
  BY AppendedText
<1>3. s \in Seq(0 .. Base - 1) /\ t \in Seq(0 .. Base - 1)
  BY DEF Texts
<1>4. Len(s) = n /\ Len(t) = n
  OBVIOUS
<1> HIDE DEF u, v, n
<1>5. \A i \in 1..(n + 1) : \A j \in 1 .. i - 1 : u[j] = s[j] /\ v[j] = t[j]
  BY <1>1, <1>2
<1>6. Precedes(u, v) <=> \E i \in 1..(n + 1) : u[i] < v[i] /\ \A j \in 1 .. i - 1 : u[j] = v[j]
  BY <1>1, <1>2 DEF Precedes
<1>7. Precedes(s, t) <=> \E i \in 1..n : s[i] < t[i] /\ \A j \in 1 .. i - 1 : s[j] = t[j]
  BY <1>1, <1>2, <1>4 DEF Precedes
<1>8. ASSUME Precedes(u, v) PROVE Precedes(s, t) \/ (s = t /\ x < y)
  <2>1. PICK i \in 1..(n + 1) : u[i] < v[i] /\ \A j \in 1 .. i - 1 : u[j] = v[j]
    BY <1>6, <1>8
  <2>2. \A j \in 1 .. i - 1 : s[j] = t[j]
    BY <1>5, <2>1
  <2>3. CASE i \in 1..n
    BY <1>1, <1>2, <1>7, <2>1, <2>2, <2>3
  <2>4. CASE i = n + 1
    <3>1. \A j \in 1..n : s[j] = t[j]
      BY <1>1, <2>2, <2>4
    <3>2. s = t
      BY <1>3, <1>4, <3>1, SeqEqual
    <3> QED BY <1>1, <1>2, <2>1, <2>4, <3>2
  <2> QED BY <1>1, <2>3, <2>4
<1>9. ASSUME Precedes(s, t) PROVE Precedes(u, v)
  <2>1. PICK i \in 1..n : s[i] < t[i] /\ \A j \in 1 .. i - 1 : s[j] = t[j]
    BY <1>7, <1>9
  <2>2. i \in 1..(n + 1) /\ u[i] < v[i] /\ \A j \in 1 .. i - 1 : u[j] = v[j]
    BY <1>1, <1>2, <1>5, <2>1
  <2> QED BY <1>6, <2>2
<1>10. ASSUME s = t, x < y PROVE Precedes(u, v)
  <2>1. n + 1 \in 1..(n + 1) /\ u[n + 1] < v[n + 1]
    BY <1>1, <1>2, <1>10
  <2>2. \A j \in 1 .. (n + 1) - 1 : u[j] = v[j]
    BY <1>5, <1>10, <2>1
  <2> QED BY <1>6, <2>1, <2>2
<1> QED BY <1>8, <1>9, <1>10 DEF u, v

(* Comparing with a quotient is comparing with a product.                  *)
LEMMA Products ==
  ASSUME NEW x \in Nat, NEW k \in Nat, NEW m \in Nat \ {0}
  PROVE  /\ x <= k \div m <=> x * m <= k
         /\ k \div m < x <=> k < x * m
         /\ k \div m \in Nat
<1> DEFINE q == k \div m
           r == k % m
<1>1. q \in Nat /\ r \in 0 .. m - 1 /\ k = m * q + r
  OBVIOUS
<1> HIDE DEF q, r
<1>2. ASSUME x <= q PROVE x * m <= k
  <2>1. PICK d \in Nat : q = x + d
    BY <1>1, <1>2
  <2>2. m * (x + d) = x * m + m * d /\ m * d \in Nat /\ x * m \in Nat
    OBVIOUS
  <2> QED BY <1>1, <2>1, <2>2
<1>3. ASSUME q < x PROVE k < x * m
  <2>1. PICK d \in Nat : x = (q + 1) + d
    <3>1. x - (q + 1) \in Nat /\ x = (q + 1) + (x - (q + 1))
      BY <1>1, <1>3
    <3> QED BY <3>1
  <2>2. ((q + 1) + d) * m = m * q + m + m * d /\ m * d \in Nat /\ m * q \in Nat
    BY <1>1
  <2> QED BY <1>1, <2>1, <2>2
<1>4. x * m \in Nat
  OBVIOUS
<1>5. (x <= q <=> x * m <= k) /\ (q < x <=> k < x * m)
  BY <1>1, <1>2, <1>3, <1>4
<1> QED BY <1>1, <1>5 DEF q

(* Digits compare like the number without its last one, and then that one. *)
LEMMA LastDigit ==
  ASSUME NEW a \in Nat, NEW b \in Nat
  PROVE  a < b <=> \/ a \div Base < b \div Base
                   \/ a \div Base = b \div Base /\ a % Base < b % Base
<1> DEFINE p == a \div Base
           q == b \div Base
           r == a % Base
           s == b % Base
<1>1. /\ p \in Nat /\ r \in 0 .. Base - 1 /\ a = Base * p + r
      /\ q \in Nat /\ s \in 0 .. Base - 1 /\ b = Base * q + s
  BY Division
<1>2. Base \in Nat \ {0}
  BY YcsbAssumption
<1> HIDE DEF p, q, r, s
<1>3. ASSUME p < q PROVE a < b
  <2>1. PICK d \in Nat : q = (p + 1) + d
    <3>1. q - (p + 1) \in Nat /\ q = (p + 1) + (q - (p + 1))
      BY <1>1, <1>3
    <3> QED BY <3>1
  <2>2. Base * ((p + 1) + d) = Base * p + Base + Base * d /\ Base * d \in Nat /\ Base * p \in Nat
    BY <1>1, <1>2
  <2> QED BY <1>1, <1>2, <2>1, <2>2
<1>4. ASSUME q < p PROVE b < a
  <2>1. PICK d \in Nat : p = (q + 1) + d
    <3>1. p - (q + 1) \in Nat /\ p = (q + 1) + (p - (q + 1))
      BY <1>1, <1>4
    <3> QED BY <3>1
  <2>2. Base * ((q + 1) + d) = Base * q + Base + Base * d /\ Base * d \in Nat /\ Base * q \in Nat
    BY <1>1, <1>2
  <2> QED BY <1>1, <1>2, <2>1, <2>2
<1>5. ASSUME p = q PROVE a < b <=> r < s
  <2>1. Base * p \in Nat
    BY <1>1, <1>2
  <2> QED BY <1>1, <1>5, <2>1
<1>6. a < b <=> p < q \/ (p = q /\ r < s)
  BY <1>1, <1>3, <1>4, <1>5
<1> QED BY <1>6 DEF p, q, r, s

(* How many digits a number has.                                           *)
Size(k) == Len(Str[k])

LEMMA SizeIs ==
  ASSUME NEW k \in Nat
  PROVE  /\ Size(k) \in Nat \ {0}
         /\ k < Base => Size(k) = 1
         /\ ~(k < Base) => Size(k) = Size(k \div Base) + 1
<1>1. Str[k] \in Texts /\ Str[k] # << >> /\ Str[k \div Base] \in Texts /\ k % Base \in 0 .. Base - 1
  BY StrIs, Division
<1>2. Str[k] = IF k < Base THEN <<k>> ELSE Append(Str[k \div Base], k % Base)
  BY StrIs
<1>3. Size(k) \in Nat \ {0}
  BY <1>1, EmptySeq DEF Texts, Size
<1>4. ASSUME k < Base PROVE Size(k) = 1
  BY <1>2, <1>4 DEF Size
<1>5. ASSUME ~(k < Base) PROVE Size(k) = Size(k \div Base) + 1
  <2>1. Str[k] = Append(Str[k \div Base], k % Base)
    BY <1>2, <1>5
  <2> QED BY <1>1, <2>1, AppendedText DEF Size
<1> QED BY <1>3, <1>4, <1>5

(* The order of the application's map.                                     *)
Earlier(a, b) == Precedes(Str[a], Str[b])

(* A string less a digit.                                                  *)
LEMMA Shortened ==
  ASSUME NEW a \in Nat, NEW b \in Nat
  PROVE  /\ Size(a) < Size(b) =>
              (Earlier(a, b) <=> Earlier(a, b \div Base) \/ a = b \div Base)
         /\ Size(a) > Size(b) => (Earlier(a, b) <=> Earlier(a \div Base, b))
         /\ Size(a) = Size(b) /\ Size(a) # 1 =>
              (Earlier(a, b) <=> \/ Earlier(a \div Base, b \div Base)
                                 \/ a \div Base = b \div Base /\ a % Base < b % Base)
<1> DEFINE s == Str[a]
           t == Str[b]
           u == Str[a \div Base]
           v == Str[b \div Base]
<1>1. /\ a \div Base \in Nat /\ b \div Base \in Nat
      /\ a % Base \in 0 .. Base - 1 /\ b % Base \in 0 .. Base - 1
  BY Division
<1>2. s \in Texts /\ t \in Texts /\ u \in Texts /\ v \in Texts
  BY <1>1, StrIs
<1>3. /\ Len(s) = Size(a) /\ Len(t) = Size(b) /\ Len(u) = Size(a \div Base) /\ Len(v) = Size(b \div Base)
      /\ Size(a) \in Nat \ {0} /\ Size(b) \in Nat \ {0}
      /\ Size(a \div Base) \in Nat \ {0} /\ Size(b \div Base) \in Nat \ {0}
  BY <1>1, SizeIs DEF Size
<1>4. ASSUME Size(a) # 1 PROVE s = Append(u, a % Base) /\ Len(s) = Len(u) + 1
  BY <1>3, <1>4, SizeIs, StrIs
<1>5. ASSUME Size(b) # 1 PROVE t = Append(v, b % Base) /\ Len(t) = Len(v) + 1
  BY <1>3, <1>5, SizeIs, StrIs
<1>6. (s = v <=> a = b \div Base) /\ (u = v <=> a \div Base = b \div Base)
  BY <1>1, StrInjective
<1>7. /\ Earlier(a, b) <=> Precedes(s, t)
      /\ Earlier(a, b \div Base) <=> Precedes(s, v)
      /\ Earlier(a \div Base, b) <=> Precedes(u, t)
      /\ Earlier(a \div Base, b \div Base) <=> Precedes(u, v)
  BY DEF Earlier
<1> HIDE DEF s, t, u, v
<1>8. ASSUME Size(a) < Size(b) PROVE Precedes(s, t) <=> Precedes(s, v) \/ s = v
  <2>1. t = Append(v, b % Base) /\ Len(s) <= Len(v)
    BY <1>3, <1>5, <1>8
  <2> QED BY <1>1, <1>2, <2>1, LongerRight
<1>9. ASSUME Size(a) > Size(b) PROVE Precedes(s, t) <=> Precedes(u, t)
  <2>1. s = Append(u, a % Base) /\ Len(t) <= Len(u)
    BY <1>3, <1>4, <1>9
  <2> QED BY <1>1, <1>2, <2>1, LongerLeft
<1>10. ASSUME Size(a) = Size(b), Size(a) # 1
       PROVE  Precedes(s, t) <=> Precedes(u, v) \/ (u = v /\ a % Base < b % Base)
  <2>1. s = Append(u, a % Base) /\ t = Append(v, b % Base) /\ Len(u) = Len(v)
    BY <1>3, <1>4, <1>5, <1>10
  <2> QED BY <1>1, <1>2, <2>1, LongerBoth
<1> QED BY <1>6, <1>7, <1>8, <1>9, <1>10

LEMMA PowerOfMore ==
  ASSUME NEW n \in Nat, NEW x \in Nat
  PROVE  /\ Power[n] \in Nat \ {0}
         /\ x * Power[n] \in Nat
         /\ x * Power[n + 1] = (x * Power[n]) * Base
<1>1. Power[n] \in Nat \ {0} /\ Power[n + 1] = Base * Power[n] /\ Base \in Nat
  BY PowerIs, YcsbAssumption
<1> DEFINE p == Power[n]
<1>2. \A y, z, w \in Nat : y * (w * z) = (y * z) * w /\ y * z \in Nat
  OBVIOUS
<1> HIDE DEF p
<1> QED BY <1>1, <1>2

(* Two strings compare like the numbers, the shorter one filled up with    *)
(* zeros; if it is the left one, it precedes also what it begins.          *)
Numeric(a, b) ==
  IF Size(a) = Size(b) THEN a < b
  ELSE IF Size(a) < Size(b) THEN a * Power[Size(b) - Size(a)] <= b
  ELSE a < b * Power[Size(a) - Size(b)]

(* One digit of the longer string settles a step of the induction ...      *)
LEMMA ShorterFirst ==
  ASSUME NEW a \in Nat, NEW b \in Nat, Size(a) < Size(b),
         Earlier(a, b \div Base) <=> Numeric(a, b \div Base)
  PROVE  Earlier(a, b) <=> a * Power[Size(b) - Size(a)] <= b
<1> DEFINE v == b \div Base
           n == Size(b) - Size(a) - 1
<1>1. /\ Size(a) \in Nat \ {0} /\ Size(b) \in Nat \ {0} /\ v \in Nat
      /\ Size(b) = Size(v) + 1 /\ Size(v) \in Nat \ {0}
  BY SizeIs, Division
<1>2. n \in Nat /\ Size(b) - Size(a) = n + 1 /\ Size(v) - Size(a) = n
  BY <1>1
<1>3. Earlier(a, b) <=> Earlier(a, v) \/ a = v
  BY Shortened
<1> HIDE DEF v, n
<1>4. a * Power[n + 1] = (a * Power[n]) * Base /\ a * Power[n] \in Nat
  BY <1>2, PowerOfMore
<1>5. a * Power[n] <= v <=> (a * Power[n]) * Base <= b
  BY <1>4, Products, YcsbAssumption DEF v
<1>6. Earlier(a, v) \/ a = v <=> a * Power[n] <= v
  <2>1. CASE n = 0
    <3>1. Size(a) = Size(v)
      BY <1>1, <1>2, <2>1
    <3>2. Earlier(a, v) <=> a < v
      BY <3>1 DEF Numeric, v
    <3>3. a * Power[n] = a
      BY <2>1, PowerIs
    <3> QED BY <1>1, <3>2, <3>3
  <2>2. CASE n # 0
    <3>1. Size(a) < Size(v)
      BY <1>1, <1>2, <2>2
    <3>2. Earlier(a, v) <=> a * Power[n] <= v
      BY <1>1, <1>2, <3>1 DEF Numeric, v
    <3>3. a # v
      BY <1>1, <3>1
    <3> QED BY <3>2, <3>3
  <2> QED BY <2>1, <2>2
<1> QED BY <1>2, <1>3, <1>4, <1>5, <1>6

(* ... on either side.                                                     *)
LEMMA LongerFirst ==
  ASSUME NEW a \in Nat, NEW b \in Nat, Size(a) > Size(b),
         Earlier(a \div Base, b) <=> Numeric(a \div Base, b)
  PROVE  Earlier(a, b) <=> a < b * Power[Size(a) - Size(b)]
<1> DEFINE u == a \div Base
           n == Size(a) - Size(b) - 1
<1>1. /\ Size(a) \in Nat \ {0} /\ Size(b) \in Nat \ {0} /\ u \in Nat
      /\ Size(a) = Size(u) + 1 /\ Size(u) \in Nat \ {0}
  BY SizeIs, Division
<1>2. n \in Nat /\ Size(a) - Size(b) = n + 1 /\ Size(u) - Size(b) = n
  BY <1>1
<1>3. Earlier(a, b) <=> Earlier(u, b)
  BY Shortened
<1> HIDE DEF u, n
<1>4. b * Power[n + 1] = (b * Power[n]) * Base /\ b * Power[n] \in Nat
  BY <1>2, PowerOfMore
<1>5. u < b * Power[n] <=> a < (b * Power[n]) * Base
  BY <1>4, Products, YcsbAssumption DEF u
<1>6. Earlier(u, b) <=> u < b * Power[n]
  <2>1. CASE n = 0
    <3>1. Size(u) = Size(b)
      BY <1>1, <1>2, <2>1
    <3>2. Earlier(u, b) <=> u < b
      BY <3>1 DEF Numeric, u
    <3>3. b * Power[n] = b
      BY <2>1, PowerIs
    <3> QED BY <1>1, <3>2, <3>3
  <2>2. CASE n # 0
    <3>1. Size(u) > Size(b) /\ ~(Size(u) < Size(b)) /\ Size(u) # Size(b)
      BY <1>1, <1>2, <2>2
    <3>2. Earlier(u, b) <=> u < b * Power[n]
      BY <1>1, <1>2, <3>1 DEF Numeric, u
    <3> QED BY <3>2
  <2> QED BY <2>1, <2>2
<1> QED BY <1>2, <1>3, <1>4, <1>5, <1>6

LEMMA SizeLess ==
  ASSUME NEW k \in Nat
  PROVE  /\ k \div Base \in Nat
         /\ Size(k \div Base) \in Nat \ {0}
         /\ Size(k) # 1 => ~(k < Base) /\ k \div Base < k
<1>1. k \div Base \in Nat /\ (k >= Base => k \div Base < k)
  BY Division
<1>2. Size(k) # 1 => ~(k < Base)
  BY SizeIs
<1>3. Size(k \div Base) \in Nat \ {0}
  BY <1>1, SizeIs
<1> QED BY <1>1, <1>2, <1>3, YcsbAssumption

(* By induction on the sum of the two numbers.                             *)
LEMMA OrderIsNumeric == \A n \in Nat : \A a, b \in Nat : a + b = n => (Earlier(a, b) <=> Numeric(a, b))
<1> DEFINE Good == {n \in Nat : \A a, b \in Nat : a + b = n => (Earlier(a, b) <=> Numeric(a, b))}
<1>1. ASSUME NEW n \in Nat, \A m \in Nat : m < n => m \in Good PROVE n \in Good
  <2> SUFFICES ASSUME NEW a \in Nat, NEW b \in Nat, a + b = n PROVE Earlier(a, b) <=> Numeric(a, b)
    OBVIOUS
  <2>1. ASSUME NEW c \in Nat, NEW d \in Nat, c + d < n PROVE Earlier(c, d) <=> Numeric(c, d)
    <3>1. c + d \in Nat
      OBVIOUS
    <3>2. c + d \in Good
      BY <1>1, <2>1, <3>1
    <3> QED BY <3>2
  <2>2. /\ Size(a) \in Nat \ {0} /\ Size(b) \in Nat \ {0}
        /\ a \div Base \in Nat /\ b \div Base \in Nat
        /\ Size(a \div Base) \in Nat \ {0} /\ Size(b \div Base) \in Nat \ {0}
        /\ ~(a < Base) => Size(a) = Size(a \div Base) + 1
        /\ ~(b < Base) => Size(b) = Size(b \div Base) + 1
        /\ Size(a) # 1 => ~(a < Base) /\ a \div Base < a
        /\ Size(b) # 1 => ~(b < Base) /\ b \div Base < b
    BY SizeIs, SizeLess
  <2> HIDE DEF Good
  <2>3. CASE Size(a) < Size(b)
    <3>1. a + (b \div Base) < n
      BY <2>2, <2>3
    <3>2. Earlier(a, b) <=> a * Power[Size(b) - Size(a)] <= b
      BY <2>1, <2>2, <2>3, <3>1, ShorterFirst
    <3> QED BY <2>2, <2>3, <3>2 DEF Numeric
  <2>4. CASE Size(a) > Size(b)
    <3>1. (a \div Base) + b < n
      BY <2>2, <2>4
    <3>2. Earlier(a, b) <=> a < b * Power[Size(a) - Size(b)]
      BY <2>1, <2>2, <2>4, <3>1, LongerFirst
    <3>3. ~(Size(a) < Size(b)) /\ Size(a) # Size(b)
      BY <2>2, <2>4
    <3> QED BY <3>2, <3>3 DEF Numeric
  <2>5. CASE Size(a) = Size(b) /\ Size(a) = 1
    <3>1. a < Base /\ b < Base
      BY <2>2, <2>5
    <3>2. Str[a] = <<a>> /\ Str[b] = <<b>>
      BY <3>1, StrIs
    <3>3. Precedes(<<a>>, <<b>>) <=> a < b
      <4> DEFINE s == <<a>>
                 t == <<b>>
      <4>1. Len(s) = 1 /\ Len(t) = 1 /\ DOMAIN s = {1} /\ DOMAIN t = {1} /\ s[1] = a /\ t[1] = b
        OBVIOUS
      <4> HIDE DEF s, t
      <4>2. Precedes(s, t) <=> a < b
        <5>1. \A j \in 1 .. 1 - 1 : s[j] = t[j]
          OBVIOUS
        <5> QED BY <4>1, <5>1 DEF Precedes
      <4> QED BY <4>2 DEF s, t
    <3> QED BY <2>5, <3>2, <3>3 DEF Numeric, Earlier
  <2>6. CASE Size(a) = Size(b) /\ Size(a) # 1
    <3>1. (a \div Base) + (b \div Base) < n
      BY <2>2, <2>6
    <3>2. Size(a \div Base) = Size(b \div Base)
      <4>1. Size(a) = Size(a \div Base) + 1 /\ Size(b) = Size(b \div Base) + 1
        BY <2>2, <2>6
      <4> QED BY <2>2, <2>6, <4>1
    <3>3. Earlier(a \div Base, b \div Base) <=> a \div Base < b \div Base
      BY <2>1, <2>2, <3>1, <3>2 DEF Numeric
    <3>4. Earlier(a, b) <=> a < b
      BY <2>6, <3>3, Shortened, LastDigit
    <3> QED BY <2>6, <3>4 DEF Numeric
  <2> QED BY <2>2, <2>3, <2>4, <2>5, <2>6
<1> HIDE DEF Good
<1>2. Nat \subseteq Good
  BY <1>1, Induction
<1> QED BY <1>2 DEF Good

(* The numbers between two powers have the same number of digits.          *)
LEMMA SizeFromPower == \A n \in Nat : \A a \in Nat : Power[n] <= a /\ a < Power[n + 1] => Size(a) = n + 1
<1> DEFINE Good == {n \in Nat : \A a \in Nat : Power[n] <= a /\ a < Power[n + 1] => Size(a) = n + 1}
<1>1. ASSUME NEW n \in Nat, \A m \in Nat : m < n => m \in Good PROVE n \in Good
  <2> SUFFICES ASSUME NEW a \in Nat, Power[n] <= a, a < Power[n + 1] PROVE Size(a) = n + 1
    OBVIOUS
  <2>1. /\ Base \in Nat \ {0}
        /\ Power[n] \in Nat \ {0} /\ Power[n + 1] = Base * Power[n]
    BY PowerIs, YcsbAssumption
  <2>2. CASE n = 0
    <3>1. a < Base
      BY <2>1, <2>2, PowerIs
    <3> QED BY <2>2, <3>1, SizeIs
  <2>3. CASE n # 0
    <3> DEFINE m == n - 1
               p == Power[m]
               q == Power[n]
    <3>1. m \in Nat /\ n = m + 1 /\ m \in Good
      BY <1>1, <2>3
    <3>2. p \in Nat \ {0} /\ q = Base * p /\ q \in Nat \ {0}
      BY <2>1, <3>1, PowerIs
    <3>3. q <= a /\ a < Base * q
      BY <2>1
    <3> HIDE DEF m, p, q
    <3>4. p * Base = Base * p /\ q * Base = Base * q
      BY <2>1, <3>2
    <3>5. p <= a \div Base /\ a \div Base < q /\ a \div Base \in Nat
      BY <2>1, <3>2, <3>3, <3>4, Products
    <3>6. Size(a \div Base) = m + 1
      BY <3>1, <3>5 DEF p, q
    <3>7. ~(a < Base)
      <4>1. 1 <= a \div Base
        BY <3>2, <3>5
      <4>2. a \div Base # 0
        BY <3>5, <4>1
      <4> QED BY <4>2, Division
    <3> QED BY <3>1, <3>6, <3>7, SizeIs
  <2> QED BY <2>2, <2>3
<1> HIDE DEF Good
<1>2. Nat \subseteq Good
  BY <1>1, Induction
<1> QED BY <1>2 DEF Good

LEMMA InRangeIsNumeric ==
  ASSUME NEW from \in Nat, NEW to \in Nat, NEW k \in Nat
  PROVE  InRange(k, from, to) <=> ~Numeric(k, from) /\ ~Numeric(to, k)
<1>1. k + from \in Nat /\ to + k \in Nat
  OBVIOUS
<1>2. (Earlier(k, from) <=> Numeric(k, from)) /\ (Earlier(to, k) <=> Numeric(to, k))
  BY <1>1, OrderIsNumeric
<1> QED BY <1>2 DEF InRange, Earlier

(* What RangeIsLexical says of a key.                                      *)
Found(k, from, to) ==
  LET d == Size(k)
  IN  CASE d = Digits -> from <= k /\ k <= to
        [] d < Digits -> from < k * Power[Digits - d] /\ k * Power[Digits - d] <= to
        [] d > Digits -> LET lead == k \div Power[d - Digits]
                         IN  from <= lead /\ lead < to

(* The ends of a range that both have all the digits.                      *)
LEMMA SameLengthRange ==
  ASSUME NEW from \in Nat, NEW to \in Nat, NEW k \in Nat, Size(from) = Digits, Size(to) = Digits
  PROVE  InRange(k, from, to) <=> Found(k, from, to)
<1> DEFINE d == Size(k)
<1>1. d \in Nat /\ Digits \in Nat
  BY SizeIs, YcsbAssumption
<1>2. InRange(k, from, to) <=> ~Numeric(k, from) /\ ~Numeric(to, k)
  BY InRangeIsNumeric
<1>3. CASE d = Digits
  <2>1. ~Numeric(k, from) /\ ~Numeric(to, k) <=> from <= k /\ k <= to
    BY <1>3 DEF Numeric
  <2>2. Found(k, from, to) <=> from <= k /\ k <= to
    <3>1. ~(d < Digits) /\ ~(d > Digits)
      BY <1>1, <1>3
    <3> QED BY <1>3, <3>1 DEF Found
  <2> QED BY <1>2, <2>1, <2>2
<1>4. CASE d < Digits
  <2> DEFINE x == k * Power[Digits - d]
  <2>1. x \in Nat
    BY <1>1, <1>4, PowerOfMore
  <2>2. d # Digits /\ ~(d > Digits) /\ ~(Digits < d)
    BY <1>1, <1>4
  <2>3. Numeric(k, from) <=> x <= from
    BY <1>4, <2>2 DEF Numeric
  <2>4. Numeric(to, k) <=> to < x
    BY <1>4, <2>2 DEF Numeric
  <2> HIDE DEF x
  <2>5. ~Numeric(k, from) /\ ~Numeric(to, k) <=> from < x /\ x <= to
    BY <2>1, <2>3, <2>4
  <2>6. Found(k, from, to) <=> from < x /\ x <= to
    BY <1>4, <2>2 DEF Found, x
  <2> QED BY <1>2, <2>5, <2>6
<1>5. CASE d > Digits
  <2> DEFINE m == Power[d - Digits]
             lead == k \div m
  <2>1. m \in Nat \ {0}
    BY <1>1, <1>5, PowerOfMore
  <2>2. d # Digits /\ ~(d < Digits) /\ Digits < d
    BY <1>1, <1>5
  <2>3. Numeric(k, from) <=> k < from * m
    BY <2>2 DEF Numeric
  <2>4. Numeric(to, k) <=> to * m <= k
    BY <2>2 DEF Numeric
  <2>5. lead \in Nat /\ (from <= lead <=> from * m <= k) /\ (lead < to <=> k < to * m)
    BY <2>1, Products
  <2>6. from * m \in Nat /\ to * m \in Nat
    BY <2>1
  <2> HIDE DEF m
  <2>7. ~Numeric(k, from) /\ ~Numeric(to, k) <=> from <= lead /\ lead < to
    BY <2>3, <2>4, <2>5, <2>6
  <2>8. Found(k, from, to) <=> from <= lead /\ lead < to
    BY <2>2 DEF Found, m
  <2> QED BY <1>2, <2>7, <2>8
<1> QED BY <1>1, <1>3, <1>4, <1>5

(* If the end has a digit more, it precedes the start, and nothing is      *)
(* between them.                                                           *)
LEMMA LongerEndIsEmpty ==
  ASSUME NEW from \in Nat, NEW to \in Nat, NEW k \in Nat,
         Size(from) = Digits, Size(to) = Digits + 1, to < from * Base
  PROVE  ~InRange(k, from, to)
<1> DEFINE d == Size(k)
<1>1. d \in Nat /\ Digits \in Nat /\ Base \in Nat \ {0}
  BY SizeIs, YcsbAssumption
<1>2. InRange(k, from, to) <=> ~Numeric(k, from) /\ ~Numeric(to, k)
  BY InRangeIsNumeric
<1> SUFFICES ASSUME ~Numeric(k, from) PROVE Numeric(to, k)
  BY <1>2
<1>3. CASE d = Digits
  <2>1. from <= k
    BY <1>3 DEF Numeric
  <2>2. Numeric(to, k) <=> to < k * Power[1]
    BY <1>1, <1>3 DEF Numeric
  <2>3. k * Power[1] = k * Base
    BY <1>1, PowerIs
  <2>4. from * Base <= k * Base
    BY <1>1, <2>1
  <2> QED BY <1>1, <2>2, <2>3, <2>4
<1>4. CASE d < Digits
  <2> DEFINE n == Digits - d
             x == k * Power[n]
  <2>1. n \in Nat /\ d # Digits /\ (Digits + 1) - d = n + 1
    BY <1>1, <1>4
  <2>2. x \in Nat /\ k * Power[n + 1] = x * Base
    BY <2>1, PowerOfMore
  <2>3. from < x
    BY <1>4, <2>1, <2>2 DEF Numeric
  <2>4. Numeric(to, k) <=> to < k * Power[n + 1]
    <3>1. d # Digits + 1 /\ ~(Digits + 1 < d)
      BY <1>1, <1>4
    <3> HIDE DEF n, x
    <3> QED BY <2>1, <3>1 DEF Numeric
  <2> HIDE DEF n, x
  <2>5. from * Base <= x * Base /\ x * Base \in Nat /\ from * Base \in Nat
    BY <1>1, <2>2, <2>3
  <2> QED BY <2>2, <2>4, <2>5
<1>5. CASE d = Digits + 1
  <2>1. Numeric(k, from) <=> k < from * Power[1]
    BY <1>1, <1>5 DEF Numeric
  <2>2. from * Power[1] = from * Base /\ from * Base \in Nat
    BY <1>1, PowerIs
  <2>3. from * Base <= k
    BY <2>1, <2>2
  <2>4. Numeric(to, k) <=> to < k
    BY <1>5 DEF Numeric
  <2> QED BY <2>2, <2>3, <2>4
<1>6. CASE d > Digits + 1
  <2> DEFINE n == d - Digits - 1
             m == Power[n]
  <2>1. n \in Nat /\ d - Digits = n + 1 /\ d - (Digits + 1) = n /\ d # Digits /\ ~(d < Digits)
        /\ Digits + 1 < d
    BY <1>1, <1>6
  <2> HIDE DEF n
  <2>2. m \in Nat \ {0} /\ from * Power[n + 1] = (from * m) * Base /\ from * m \in Nat
    BY <2>1, PowerOfMore
  <2> HIDE DEF m
  <2>3. Numeric(k, from) <=> k < from * Power[n + 1]
    BY <2>1 DEF Numeric
  <2>4. Numeric(to, k) <=> to * m <= k
    <3>1. Size(to) < d /\ Size(to) # d /\ d - Size(to) = n
      BY <1>1, <2>1
    <3> HIDE DEF d
    <3> QED BY <3>1 DEF Numeric, m, d
  <2>5. (from * m) * Base = (from * Base) * m
    BY <1>1, <2>2
  <2>6. to * m <= (from * Base) * m
    <3> DEFINE z == from * Base
    <3>1. z \in Nat /\ to <= z
      BY <1>1
    <3> HIDE DEF z
    <3>2. to * m <= z * m
      BY <2>2, <3>1
    <3> QED BY <3>2 DEF z
  <2>7. to * m \in Nat /\ (from * Base) * m \in Nat
    BY <1>1, <2>2
  <2>8. (from * Base) * m <= k
    BY <2>2, <2>3, <2>5, <2>7
  <2> QED BY <2>4, <2>6, <2>7, <2>8
<1> QED BY <1>1, <1>3, <1>4, <1>5, <1>6

(* The ycsb endpoint of the CCF application finds the strings between two  *)
(* strings.  In terms of numbers that is what RangeIsLexical says, for any *)
(* records, base, number of digits and width: with five digits and a range *)
(* ending at 100000 or later, nothing.                                     *)
THEOREM RangesAreLexical == Spec => []RangeIsLexical
<1>1. YInv => RangeIsLexical
  <2> SUFFICES ASSUME YInv,
                      NEW from \in Power[Digits - 1] .. RowNum - 2,
                      NEW width \in RangeSize .. RangeSize + Spread
               PROVE  LET to == from + width
                          found(k) ==
                            LET d == Len(Str[k])
                            IN  CASE d = Digits -> from <= k /\ k <= to
                                  [] d < Digits -> from < k * Power[Digits - d] /\ k * Power[Digits - d] <= to
                                  [] d > Digits -> LET lead == k \div Power[d - Digits]
                                                   IN  from <= lead /\ lead < to
                      IN  RangeResult(from, to) = IF to < RowNum THEN {k \in records : found(k)} ELSE {}
    BY DEF RangeIsLexical
  <2> DEFINE to == from + width
             low == Power[Digits - 1]
             found(k) ==
               LET d == Len(Str[k])
               IN  CASE d = Digits -> from <= k /\ k <= to
                     [] d < Digits -> from < k * Power[Digits - d] /\ k * Power[Digits - d] <= to
                     [] d > Digits -> LET lead == k \div Power[d - Digits]
                                      IN  from <= lead /\ lead < to
  <2>1. /\ Digits \in Nat /\ Digits - 1 \in Nat /\ Digits = (Digits - 1) + 1
        /\ Base \in Nat /\ 2 <= Base
        /\ RangeSize \in Nat /\ Spread \in Nat
    BY YcsbAssumption
  <2>2. /\ low \in Nat \ {0} /\ RowNum \in Nat /\ RowNum = Base * low
        /\ Power[Digits + 1] = Base * RowNum
    BY <2>1, PowerIs DEF RowNum
  <2>3. RowNum \div Base = low
    BY <2>1, <2>2
  <2>4. /\ from \in Nat /\ width \in Nat /\ low <= from /\ from < RowNum /\ width < low
    <3>1. RangeSize + Spread < low
      BY <2>3, YcsbAssumption
    <3> QED BY <2>1, <2>2, <3>1
  <2>5. to \in Nat /\ low <= to /\ \A k \in records : k \in Nat
    BY <2>2, <2>4 DEF YInv, YTyped
  <2>6. Size(from) = Digits
    <3>1. Power[Digits - 1] <= from /\ from < Power[(Digits - 1) + 1]
      BY <2>1, <2>4 DEF RowNum
    <3>2. Size(from) = (Digits - 1) + 1
      BY <2>1, <2>4, <3>1, SizeFromPower
    <3> QED BY <2>1, <3>2
  <2>7. CASE to < RowNum
    <3>1. Size(to) = Digits
      <4>1. Power[Digits - 1] <= to /\ to < Power[(Digits - 1) + 1]
        BY <2>1, <2>5, <2>7 DEF RowNum
      <4>2. Size(to) = (Digits - 1) + 1
        BY <2>1, <2>5, <4>1, SizeFromPower
      <4> QED BY <2>1, <4>2
    <3> HIDE DEF to, low
    <3>2. \A k \in records : InRange(k, from, to) <=> found(k)
      BY <2>4, <2>5, <2>6, <3>1, SameLengthRange DEF Size, Found
    <3> HIDE DEF found
    <3>3. RangeResult(from, to) = {k \in records : found(k)}
      BY <3>2 DEF RangeResult
    <3> QED BY <2>7, <3>3 DEF found, to
  <2>8. CASE ~(to < RowNum)
    <3>1. to < 2 * RowNum /\ 2 * RowNum <= Base * RowNum
      BY <2>1, <2>2, <2>4
    <3>2. Size(to) = Digits + 1
      <4>1. Power[Digits] <= to /\ to < Power[Digits + 1]
        BY <2>1, <2>2, <2>5, <2>8, <3>1 DEF RowNum
      <4> QED BY <2>1, <2>5, <4>1, SizeFromPower
    <3>3. to < from * Base
      <4>1. 2 * low <= RowNum
        BY <2>1, <2>2
      <4>2. width < from
        BY <2>2, <2>4, <2>8, <4>1
      <4>3. to < 2 * from /\ 2 * from <= from * Base
        BY <2>1, <2>4, <4>2
      <4> QED BY <2>1, <2>4, <4>3
    <3> HIDE DEF to, low
    <3>4. \A k \in records : ~InRange(k, from, to)
      BY <2>4, <2>5, <2>6, <3>2, <3>3, LongerEndIsEmpty
    <3>5. RangeResult(from, to) = {}
      BY <3>4 DEF RangeResult
    <3> QED BY <2>8, <3>5 DEF to
  <2> QED BY <2>7, <2>8
<1> QED BY <1>1, InitYInv, StepYInv, PTL DEF Spec

----------------------------------------------------------------------------
(* The analyzers.  Sorting: a line's place.                                *)

(* What a log can contain.                                                 *)
AnyLine == [kind : {"txn", "verify"}, n : Nat, time : Nat, status : {0, 1}] \cup [kind : {"keys"}]

(* The line with index i is not to be before the one with index j.         *)
Behind(lines, j, i) == \/ Before(lines[j], lines[i])
                       \/ ~Before(lines[i], lines[j]) /\ j <= i

(* The lines' indices are in a total order.                                *)
LEMMA BehindIsOrder ==
  ASSUME NEW lines \in Seq(AnyLine),
         NEW i \in DOMAIN lines, NEW j \in DOMAIN lines, NEW k \in DOMAIN lines
  PROVE  /\ Behind(lines, i, i)
         /\ Behind(lines, i, j) \/ Behind(lines, j, i)
         /\ Behind(lines, i, j) /\ Behind(lines, j, i) => i = j
         /\ Behind(lines, i, j) /\ Behind(lines, j, k) => Behind(lines, i, k)
<1> DEFINE a == lines[i]
           b == lines[j]
           c == lines[k]
<1>1. /\ a \in AnyLine /\ b \in AnyLine /\ c \in AnyLine
      /\ i \in Nat /\ j \in Nat /\ k \in Nat
  OBVIOUS
<1>2. \A x \in AnyLine : x.kind # "keys" => x.time \in Nat
  BY DEF AnyLine
<1> HIDE DEF a, b, c
<1>4. /\ a.kind # "keys" => a.time \in Nat
      /\ b.kind # "keys" => b.time \in Nat
      /\ c.kind # "keys" => c.time \in Nat
  BY <1>1, <1>2
<1>5. /\ (Behind(lines, i, i) <=> (Before(a, a) \/ (~Before(a, a) /\ i <= i)))
      /\ (Behind(lines, i, j) <=> (Before(a, b) \/ (~Before(b, a) /\ i <= j)))
      /\ (Behind(lines, j, i) <=> (Before(b, a) \/ (~Before(a, b) /\ j <= i)))
      /\ (Behind(lines, j, k) <=> (Before(b, c) \/ (~Before(c, b) /\ j <= k)))
      /\ (Behind(lines, i, k) <=> (Before(a, c) \/ (~Before(c, a) /\ i <= k)))
  BY DEF Behind, a, b, c
<1> QED BY <1>1, <1>4, <1>5 DEF Before

(* Different lines have different places, because what is not after a line *)
(* is not after one behind it either.                                      *)
LEMMA PlaceIs ==
  ASSUME NEW lines \in Seq(AnyLine), NEW i \in DOMAIN lines
  PROVE  /\ Place(lines, i) \in DOMAIN lines
         /\ \A j \in DOMAIN lines : Place(lines, i) = Place(lines, j) => i = j
         /\ \A j \in DOMAIN lines : Place(lines, i) < Place(lines, j) => ~Before(lines[j], lines[i])
<1> DEFINE n == Len(lines)
           D == DOMAIN lines
           Upto(k) == {j \in D : Behind(lines, j, k)}
<1>1. n \in Nat /\ D = 1..n
  OBVIOUS
<1>2. IsFiniteSet(D) /\ Cardinality(D) = n
  <2>1. \A m \in Nat : IsFiniteSet(1..m) /\ Cardinality(1..m) = m
    BY FS_Interval
  <2> HIDE DEF n
  <2> QED BY <1>1, <2>1
<1> HIDE DEF n, D
<1>3. \A k \in D : Place(lines, k) = Cardinality(Upto(k))
  BY DEF Place, Behind, D
<1>4. \A k \in D : IsFiniteSet(Upto(k)) /\ Cardinality(Upto(k)) \in Nat /\ Cardinality(Upto(k)) <= n
  <2> TAKE k \in D
  <2>1. Upto(k) \in SUBSET D
    OBVIOUS
  <2> HIDE DEF Upto
  <2> QED BY <1>2, <2>1, FS_Subset, FS_CardinalityType
<1>5. \A k \in D : k \in Upto(k)
  BY BehindIsOrder DEF D
<1>6. \A k \in D : Cardinality(Upto(k)) # 0
  <2> TAKE k \in D
  <2>1. Upto(k) # {}
    BY <1>5
  <2> HIDE DEF Upto
  <2> QED BY <1>4, <2>1, FS_EmptySet
<1>7. ASSUME NEW j \in D, NEW k \in D, Behind(lines, j, k), j # k
      PROVE  Cardinality(Upto(j)) < Cardinality(Upto(k))
  <2>1. Upto(j) \subseteq Upto(k)
    BY <1>7, BehindIsOrder DEF D
  <2>2. k \notin Upto(j) /\ k \in Upto(k)
    BY <1>5, <1>7, BehindIsOrder DEF D
  <2>3. Upto(j) # Upto(k)
    BY <2>2
  <2> HIDE DEF Upto
  <2> QED BY <1>4, <2>1, <2>3, FS_Subset
<1>8. i \in D
  BY DEF D
<1>9. Place(lines, i) \in D
  <2> HIDE DEF Upto
  <2> QED BY <1>1, <1>3, <1>4, <1>6, <1>8
<1>10. ASSUME NEW j \in D, Place(lines, i) = Place(lines, j) PROVE i = j
  <2>1. Behind(lines, i, j) \/ Behind(lines, j, i)
    BY BehindIsOrder DEF D
  <2>2. Cardinality(Upto(i)) = Cardinality(Upto(j))
    BY <1>3, <1>8, <1>10
  <2> HIDE DEF Upto
  <2> QED BY <1>4, <1>7, <1>8, <2>1, <2>2
<1>11. ASSUME NEW j \in D, Place(lines, i) < Place(lines, j) PROVE ~Before(lines[j], lines[i])
  <2>1. i # j
    <3> HIDE DEF Upto
    <3> QED BY <1>3, <1>4, <1>8, <1>11
  <2>2. ~Behind(lines, j, i)
    <3>1. Cardinality(Upto(i)) < Cardinality(Upto(j))
      BY <1>3, <1>8, <1>11
    <3> HIDE DEF Upto
    <3> QED BY <1>4, <1>7, <1>8, <2>1, <3>1
  <2> QED BY <2>2 DEF Behind
<1> QED BY <1>9, <1>10, <1>11 DEF D

(* Sorted lines are the lines in another order, and in order.              *)
LEMMA SortedIs ==
  ASSUME NEW lines \in Seq(AnyLine)
  PROVE  \E p \in Bijection(1..Len(lines), 1..Len(lines)) :
           /\ Sorted(lines) = [i \in 1..Len(lines) |-> lines[p[i]]]
           /\ \A i, j \in 1..Len(lines) : i < j => ~Before(lines[p[j]], lines[p[i]])
<1> DEFINE n == Len(lines)
           D == 1..n
           place == [i \in D |-> Place(lines, i)]
           p == [m \in D |-> CHOOSE i \in D : Place(lines, i) = m]
<1>1. n \in Nat /\ D = DOMAIN lines
  OBVIOUS
<1>2. IsFiniteSet(D) /\ Cardinality(D) = n
  <2>1. \A m \in Nat : IsFiniteSet(1..m) /\ Cardinality(1..m) = m
    BY FS_Interval
  <2> HIDE DEF n
  <2> QED BY <1>1, <2>1
<1> HIDE DEF n, D
<1>3. place \in Injection(D, D)
  <2>1. \A i \in D : Place(lines, i) \in D
    BY <1>1, PlaceIs
  <2>2. \A i, j \in D : Place(lines, i) = Place(lines, j) => i = j
    BY <1>1, PlaceIs
  <2> QED BY <2>1, <2>2, Fun_IsInj
<1>4. place \in Surjection(D, D)
  <2> HIDE DEF place
  <2> QED BY <1>2, <1>3, FS_Injection
<1>5. \A m \in D : \E i \in D : Place(lines, i) = m
  BY <1>4 DEF Surjection
<1>6. \A m \in D : p[m] \in D /\ Place(lines, p[m]) = m
  BY <1>5
<1>7. p = [m \in D |-> p[m]]
  OBVIOUS
<1>8. Sorted(lines) = [i \in D |-> lines[p[i]]]
  BY <1>1 DEF Sorted
<1> HIDE DEF p
<1>9. p \in Bijection(D, D)
  <2>1. p \in [D -> D]
    BY <1>6, <1>7
  <2>2. \A i, j \in D : p[i] = p[j] => i = j
    BY <1>6
  <2>3. \A m \in D : \E i \in D : p[i] = m
    <3> TAKE m \in D
    <3>1. Place(lines, m) \in D
      BY <1>1, PlaceIs
    <3>2. p[Place(lines, m)] \in D /\ Place(lines, p[Place(lines, m)]) = Place(lines, m)
      BY <1>6, <3>1
    <3>3. p[Place(lines, m)] = m
      BY <1>1, <3>2, PlaceIs
    <3> QED BY <3>1, <3>3
  <2>4. p \in Injection(D, D)
    BY <2>1, <2>2, Fun_IsInj
  <2>5. p \in Surjection(D, D)
    BY <2>1, <2>3, Fun_IsSurj
  <2> QED BY <2>4, <2>5 DEF Bijection
<1>10. ASSUME NEW i \in D, NEW j \in D, i < j PROVE ~Before(lines[p[j]], lines[p[i]])
  <2>1. Place(lines, p[i]) < Place(lines, p[j]) /\ p[i] \in DOMAIN lines /\ p[j] \in DOMAIN lines
    BY <1>1, <1>6, <1>10
  <2> QED BY <2>1, PlaceIs
<1> QED BY <1>8, <1>9, <1>10 DEF n, D

----------------------------------------------------------------------------
(* The pass over the lines.                                                *)

(* The largest and the smallest of a set of numbers.                       *)
LEMMA MaxIs ==
  ASSUME NEW S \in SUBSET Int, NEW m \in S, \A x \in S : x <= m
  PROVE  Max(S) = m
<1>1. \A x \in S : (\A y \in S : x >= y) => x = m
  OBVIOUS
<1>2. \A y \in S : m >= y
  OBVIOUS
<1> QED BY <1>1, <1>2, Zenon DEF Max

LEMMA MinIs ==
  ASSUME NEW S \in SUBSET Int, NEW m \in S, \A x \in S : m <= x
  PROVE  Min(S) = m
<1>1. \A x \in S : (\A y \in S : x <= y) => x = m
  OBVIOUS
<1>2. \A y \in S : m <= y
  OBVIOUS
<1> QED BY <1>1, <1>2, Zenon DEF Min

(* The fold of FoldLeft, on the indices up to n.                           *)
Folded(f, script, s, n) ==
  f = [t \in SUBSET (1..n) |-> IF t = {} THEN Begun ELSE Step(script, f[t \ {Max(t)}], s[Max(t)])]

(* It exists: that for one index more takes that index first.              *)
LEMMA FoldExists ==
  ASSUME NEW script, NEW s
  PROVE  \A n \in Nat : \E f : Folded(f, script, s, n)
<1> DEFINE Good == {n \in Nat : \E f : Folded(f, script, s, n)}
<1>1. ASSUME NEW n \in Nat, \A m \in Nat : m < n => m \in Good PROVE n \in Good
  <2>1. CASE n = 0
    <3> DEFINE f == [t \in SUBSET (1..n) |-> Begun]
    <3>1. \A t \in SUBSET (1..n) : t = {}
      BY <2>1
    <3>2. f = [t \in SUBSET (1..n) |-> IF t = {} THEN Begun ELSE Step(script, f[t \ {Max(t)}], s[Max(t)])]
      BY <3>1, Zenon
    <3> HIDE DEF f
    <3>3. Folded(f, script, s, n)
      BY <3>2, Zenon DEF Folded
    <3> QED BY <3>3
  <2>2. CASE n # 0
    <3> DEFINE m == n - 1
    <3>1. m \in Nat /\ m < n /\ n \in 1..n /\ 1..n = 1..m \cup {n} /\ n \notin 1..m /\ 1..n \subseteq Int
      BY <2>2
    <3>2. PICK g : Folded(g, script, s, m)
      BY <1>1, <3>1
    <3> HIDE DEF m, Good
    <3> DEFINE value(t) == IF n \in t THEN Step(script, g[t \ {n}], s[n]) ELSE g[t]
               f == [t \in SUBSET (1..n) |-> value(t)]
    <3>3. \A t \in SUBSET (1..m) : t \in SUBSET (1..n) /\ n \notin t
      BY <3>1
    <3>4. \A t \in SUBSET (1..m) : f[t] = g[t]
      BY <3>3, Zenon
    <3>5. \A t \in SUBSET (1..m) :
            g[t] = IF t = {} THEN Begun ELSE Step(script, g[t \ {Max(t)}], s[Max(t)])
      BY <3>2, Zenon DEF Folded
    <3>6. ASSUME NEW t \in SUBSET (1..n)
          PROVE  value(t) = IF t = {} THEN Begun ELSE Step(script, f[t \ {Max(t)}], s[Max(t)])
      <4>1. CASE n \in t
        <5>1. Max(t) = n
          <6>1. t \in SUBSET Int /\ \A x \in t : x <= n
            BY <3>1
          <6> QED BY <4>1, <6>1, MaxIs
        <5>2. t \ {n} \in SUBSET (1..m) /\ t # {}
          BY <3>1, <4>1
        <5>3. f[t \ {n}] = g[t \ {n}]
          BY <3>4, <5>2
        <5>4. value(t) = Step(script, g[t \ {n}], s[n])
          BY <4>1
        <5> HIDE DEF value, f
        <5> QED BY <5>1, <5>2, <5>3, <5>4
      <4>2. CASE n \notin t
        <5>1. t \in SUBSET (1..m) /\ t \ {Max(t)} \in SUBSET (1..m)
          BY <3>1, <4>2
        <5>2. value(t) = g[t] /\ f[t \ {Max(t)}] = g[t \ {Max(t)}]
          BY <3>4, <4>2, <5>1
        <5> HIDE DEF value, f
        <5> QED BY <3>5, <5>1, <5>2
      <4> QED BY <4>1, <4>2
    <3>7. f = [t \in SUBSET (1..n) |-> IF t = {} THEN Begun ELSE Step(script, f[t \ {Max(t)}], s[Max(t)])]
      <4>1. f = [t \in SUBSET (1..n) |-> value(t)]
        OBVIOUS
      <4> HIDE DEF value, f
      <4> QED BY <3>6, <4>1, Zenon
    <3>8. Folded(f, script, s, n)
      <4> HIDE DEF f
      <4> QED BY <3>7, Zenon DEF Folded
    <3>9. \E h : Folded(h, script, s, n)
      <4> HIDE DEF f
      <4> QED BY <3>8
    <3> QED BY <3>9 DEF Good
  <2> QED BY <2>1, <2>2
<1> HIDE DEF Good
<1>2. Nat \subseteq Good
  BY <1>1, Induction
<1> QED BY <1>2 DEF Good

(* What the first k lines make of the report, for all k.                   *)
Reads(after, script, s, n) ==
  /\ after[0] = Begun
  /\ \A k \in 1..n : after[k] = Step(script, after[k - 1], s[k])

(* A report is what the lines make of it, one after the other.             *)
LEMMA ReportIs ==
  ASSUME NEW script, NEW lines, NEW n \in Nat, DOMAIN Sorted(lines) = 1..n
  PROVE  \E after : Reads(after, script, Sorted(lines), n) /\ Report(script, lines) = after[n]
<1> DEFINE s == Sorted(lines)
           f == CHOOSE f : Folded(f, script, s, n)
           after == [k \in 0..n |-> f[1..k]]
<1>1. Folded(f, script, s, n)
  <2>1. \E g : Folded(g, script, s, n)
    BY FoldExists
  <2> HIDE DEF s
  <2> QED BY <2>1, Zenon
<1>2. Report(script, lines) = f[1..n]
  <2>1. DOMAIN s = 1..n
    OBVIOUS
  <2>2. Sorted(lines) = s
    OBVIOUS
  <2> HIDE DEF s
  <2> QED BY <2>1, <2>2 DEF Report, FoldLeft, MapThenFoldSet, Folded
<1> HIDE DEF f
<1>3. f[{}] = Begun
  BY <1>1 DEF Folded
<1>4. ASSUME NEW k \in 1..n PROVE f[1..k] = Step(script, f[1..(k - 1)], s[k])
  <2>1. 1..k \in SUBSET (1..n) /\ 1..k # {} /\ (1..k) \ {k} = 1..(k - 1)
    BY <1>4
  <2>2. Max(1..k) = k
    <3>1. 1..k \in SUBSET Int /\ k \in 1..k /\ \A x \in 1..k : x <= k
      OBVIOUS
    <3> QED BY <3>1, MaxIs
  <2>3. f[1..k] = Step(script, f[(1..k) \ {Max(1..k)}], s[Max(1..k)])
    <3> HIDE DEF s
    <3> QED BY <1>1, <2>1, Zenon DEF Folded
  <2> HIDE DEF s
  <2> QED BY <2>1, <2>2, <2>3
<1>5. after[0] = Begun
  <2>1. 1..0 = {} /\ 0 \in 0..n
    OBVIOUS
  <2> QED BY <1>3, <2>1
<1>6. \A k \in 1..n : after[k] = Step(script, after[k - 1], s[k])
  <2> TAKE k \in 1..n
  <2>1. k \in 0..n /\ k - 1 \in 0..n
    OBVIOUS
  <2>2. after[k] = f[1..k] /\ after[k - 1] = f[1..(k - 1)]
    BY <2>1
  <2> HIDE DEF after, s
  <2> QED BY <1>4, <2>2
<1>7. after[n] = f[1..n]
  OBVIOUS
<1> HIDE DEF after, s
<1>8. Reads(after, script, s, n)
  BY <1>5, <1>6 DEF Reads
<1> QED BY <1>2, <1>7, <1>8 DEF s

----------------------------------------------------------------------------
(* The lines that count, given the window.                                 *)

Inside(s, o, c) == {i \in DOMAIN s : s[i].kind # "keys" /\ o <= s[i].time /\ s[i].time <= c}

Txns(script, s, o, c) == {i \in Inside(s, o, c) : script = "process_smallbank" \/ s[i].kind = "txn"}

Succeeded(script, s, o, c) == {i \in Txns(script, s, o, c) : s[i].status = 0}

Verified(s, o, c) == {i \in Inside(s, o, c) : s[i].kind = "verify" /\ s[i].n > 0}

(* How many of the first k lines are among those of a set.                 *)
HowMany(T, k) == Cardinality(T \cap (1..k))

(* A line more.                                                            *)
LEMMA OneMore ==
  ASSUME NEW T, NEW k \in Nat
  PROVE  /\ HowMany(T, k) \in Nat
         /\ k = 0 => HowMany(T, k) = 0
         /\ k # 0 => HowMany(T, k) = HowMany(T, k - 1) + Counts(k \in T)
<1>1. \A j \in Nat : IsFiniteSet(T \cap (1..j))
  <2> TAKE j \in Nat
  <2>1. IsFiniteSet(1..j) /\ T \cap (1..j) \in SUBSET (1..j)
    BY FS_Interval
  <2> QED BY <2>1, FS_Subset
<1>2. HowMany(T, k) \in Nat
  BY <1>1, FS_CardinalityType DEF HowMany
<1>3. CASE k = 0
  <2>1. T \cap (1..k) = {}
    BY <1>3
  <2> QED BY <1>2, <1>3, <2>1, FS_EmptySet DEF HowMany
<1>4. CASE k # 0
  <2> DEFINE S == T \cap (1..(k - 1))
  <2>1. k - 1 \in Nat /\ k \notin S
    BY <1>4
  <2>2. IsFiniteSet(S) /\ Cardinality(S) \in Nat
    BY <1>1, <2>1, FS_CardinalityType
  <2>3. HowMany(T, k - 1) = Cardinality(S)
    BY DEF HowMany
  <2>4. CASE k \in T
    <3>1. T \cap (1..k) = S \cup {k}
      BY <1>4, <2>4
    <3> HIDE DEF S
    <3>2. Cardinality(S \cup {k}) = Cardinality(S) + 1
      BY <2>1, <2>2, FS_AddElement
    <3> QED BY <1>2, <1>4, <2>3, <2>4, <3>1, <3>2 DEF HowMany, Counts
  <2>5. CASE k \notin T
    <3>1. T \cap (1..k) = S
      BY <1>4, <2>5
    <3>2. HowMany(T, k) = Cardinality(S)
      BY <3>1 DEF HowMany
    <3>3. Counts(k \in T) = 0
      BY <2>5 DEF Counts
    <3> HIDE DEF S
    <3> QED BY <1>2, <1>4, <2>2, <2>3, <3>2, <3>3
  <2> QED BY <2>4, <2>5
<1> QED BY <1>2, <1>3, <1>4

(* What a script keeps while it reads.                                     *)
Reports == [start : Int, end : Int, stopped : BOOLEAN,
            total : Nat, success : Nat, verifs : Nat]

(* What the report says once k lines have been read and the window is open.*)
Kept(r, k, script, s, o, c) ==
  /\ r \in Reports
  /\ r.start = o /\ r.end = c
  /\ r.stopped => \E i \in 1..k : s[i].kind # "keys" /\ s[i].time > c
  /\ r.total = HowMany(Txns(script, s, o, c), k)
  /\ r.success = HowMany(Succeeded(script, s, o, c), k)
  /\ r.verifs = HowMany(Verified(s, o, c), k)

(* Another line of an operation, not before any other.                     *)
LEMMA AnotherLine ==
  ASSUME NEW script \in Scripts, NEW n \in Nat, NEW s \in [1..n -> AnyLine],
         NEW k \in 1..n, s[k].kind # "keys",
         \A i \in 1..k : s[i].kind # "keys" => s[i].time <= s[k].time,
         NEW o \in Nat, NEW c \in Nat, o <= c,
         NEW r, Kept(r, k - 1, script, s, o, c)
  PROVE  Kept(Step(script, r, s[k]), k, script, s, o, c)
<1> DEFINE line == s[k]
           T == Txns(script, s, o, c)
           S == Succeeded(script, s, o, c)
           V == Verified(s, o, c)
           in == o <= line.time /\ line.time <= c
<1>1. /\ line.kind \in {"txn", "verify"} /\ line.n \in Nat /\ line.time \in Nat
      /\ line.status \in {0, 1}
  BY DEF AnyLine
<1>2. /\ k \in T <=> in /\ (script = "process_smallbank" \/ line.kind = "txn")
      /\ k \in S <=> k \in T /\ line.status = 0
      /\ k \in V <=> in /\ line.kind = "verify" /\ line.n > 0
  BY DEF Txns, Succeeded, Verified, Inside
<1>3. /\ HowMany(T, k) = HowMany(T, k - 1) + Counts(k \in T) /\ HowMany(T, k - 1) \in Nat
      /\ HowMany(S, k) = HowMany(S, k - 1) + Counts(k \in S) /\ HowMany(S, k - 1) \in Nat
      /\ HowMany(V, k) = HowMany(V, k - 1) + Counts(k \in V) /\ HowMany(V, k - 1) \in Nat
  <2>1. k \in Nat /\ k # 0 /\ k - 1 \in Nat
    OBVIOUS
  <2> HIDE DEF T, S, V
  <2> QED BY <2>1, OneMore
<1>4. /\ r \in Reports /\ r.start = o /\ r.end = c
      /\ r.stopped => \E i \in 1..(k - 1) : s[i].kind # "keys" /\ s[i].time > c
      /\ r.total = HowMany(T, k - 1) /\ r.success = HowMany(S, k - 1)
      /\ r.verifs = HowMany(V, k - 1)
  BY DEF Kept
<1>5. Opened(script, r, line) = r
  BY <1>4 DEF Opened, Unset
<1>6. \A i \in 1..(k - 1) : i \in 1..k
  OBVIOUS
<1>7. CASE r.stopped
  <2>1. ~(line.time <= c)
    <3>1. PICK i \in 1..(k - 1) : s[i].kind # "keys" /\ s[i].time > c
      BY <1>4, <1>7
    <3>2. s[i].time <= line.time /\ s[i].time \in Nat
      BY <1>6, <3>1 DEF AnyLine
    <3> QED BY <1>1, <3>1, <3>2
  <2>2. Step(script, r, line) = r
    <3>1. r.stopped = TRUE
      BY <1>4, <1>7 DEF Reports
    <3> HIDE DEF line
    <3> QED BY <3>1 DEF Step
  <2>3. Counts(k \in T) = 0 /\ Counts(k \in S) = 0 /\ Counts(k \in V) = 0
    BY <1>2, <2>1 DEF Counts
  <2>4. \E i \in 1..k : s[i].kind # "keys" /\ s[i].time > c
    BY <1>4, <1>6, <1>7
  <2> HIDE DEF line, T, S, V
  <2>5. Kept(r, k, script, s, o, c)
    BY <1>3, <1>4, <2>3, <2>4 DEF Kept, T, S, V
  <2> QED BY <2>2, <2>5 DEF line
<1>8. CASE ~r.stopped
  <2>1. Step(script, r, line) =
          CASE line.time < r.start -> r
            [] line.time > r.end -> [r EXCEPT !.stopped = TRUE]
            [] OTHER -> Counted(script, r, line)
    BY <1>5, <1>8 DEF Step, Line
  <2>2. CASE line.time < o
    <3>1. Step(script, r, line) = r
      <4>1. ~(line.time > c)
        BY <1>1, <2>2
      <4> QED BY <1>4, <2>1, <2>2, <4>1
    <3>2. Counts(k \in T) = 0 /\ Counts(k \in S) = 0 /\ Counts(k \in V) = 0
      BY <1>1, <1>2, <2>2 DEF Counts
    <3> HIDE DEF line, T, S, V
    <3>3. Kept(r, k, script, s, o, c)
      BY <1>3, <1>4, <1>8, <3>2 DEF Kept, T, S, V
    <3> QED BY <3>1, <3>3 DEF line
  <2>3. CASE ~(line.time < o) /\ line.time > c
    <3> DEFINE q == [r EXCEPT !.stopped = TRUE]
    <3>1. Step(script, r, line) = q
      BY <1>4, <2>1, <2>3
    <3>2. Counts(k \in T) = 0 /\ Counts(k \in S) = 0 /\ Counts(k \in V) = 0
      BY <1>1, <1>2, <2>3 DEF Counts
    <3>3. \E i \in 1..k : s[i].kind # "keys" /\ s[i].time > c
      BY <2>3
    <3>4. /\ q \in Reports
          /\ q.start = r.start /\ q.end = r.end /\ q.total = r.total
          /\ q.success = r.success /\ q.verifs = r.verifs
      BY <1>4 DEF Reports
    <3> HIDE DEF line, T, S, V, q
    <3>5. Kept(q, k, script, s, o, c)
      BY <1>3, <1>4, <3>2, <3>3, <3>4 DEF Kept, T, S, V
    <3> QED BY <3>1, <3>5 DEF line
  <2>4. CASE ~(line.time < o) /\ ~(line.time > c)
    <3> DEFINE q == Counted(script, r, line)
               isTxn == script # "process_logs" \/ ~(line.kind = "verify")
               isVerify == line.kind = "verify" /\ line.n > 0
    <3>1. Step(script, r, line) = q
      BY <1>4, <2>1, <2>4
    <3>2. in
      BY <1>1, <2>4
    <3>3. /\ k \in T <=> isTxn
          /\ k \in S <=> isTxn /\ line.status = 0
          /\ k \in V <=> isVerify
      BY <1>1, <1>2, <3>2 DEF Scripts
    <3>4. q = [r EXCEPT !.total = @ + Counts(isTxn),
                        !.success = @ + Counts(isTxn /\ line.status = 0),
                        !.verifs = @ + Counts(isVerify)]
      BY DEF Counted
    <3>5. Counts(isTxn) \in {0, 1} /\ Counts(isTxn /\ line.status = 0) \in {0, 1} /\ Counts(isVerify) \in {0, 1}
      BY DEF Counts
    <3>6. /\ Counts(isTxn) = Counts(k \in T) /\ Counts(isTxn /\ line.status = 0) = Counts(k \in S)
          /\ Counts(isVerify) = Counts(k \in V)
      BY <3>3 DEF Counts
    <3> DEFINE dt == Counts(isTxn)
               ds == Counts(isTxn /\ line.status = 0)
               dv == Counts(isVerify)
    <3>7. q = [r EXCEPT !.total = r.total + dt, !.success = r.success + ds,
                        !.verifs = r.verifs + dv]
      BY <1>4, <3>4 DEF Reports
    <3>8. dt \in {0, 1} /\ ds \in {0, 1} /\ dv \in {0, 1}
      BY <3>5
    <3>9. dt = Counts(k \in T) /\ ds = Counts(k \in S) /\ dv = Counts(k \in V)
      BY <3>6
    <3> HIDE DEF line, T, S, V, q, dt, ds, dv
    <3>11. /\ r.total + dt \in Nat /\ r.success + ds \in Nat /\ r.verifs + dv \in Nat
      <4>1. r.total \in Nat /\ r.success \in Nat /\ r.verifs \in Nat
        BY <1>4 DEF Reports
      <4>2. \A a, b \in Nat : a + b \in Nat
        OBVIOUS
      <4>3. dt \in Nat /\ ds \in Nat /\ dv \in Nat
        BY <3>8
      <4> QED BY <4>1, <4>2, <4>3
    <3> DEFINE total == r.total + dt
               success == r.success + ds
               verifs == r.verifs + dv
    <3>12. /\ total \in Nat /\ success \in Nat /\ verifs \in Nat
           /\ q = [r EXCEPT !.total = total, !.success = success, !.verifs = verifs]
      BY <3>7, <3>11
    <3> HIDE DEF total, success, verifs
    <3>13. /\ q \in Reports
           /\ q.start = r.start /\ q.end = r.end /\ q.stopped = r.stopped
           /\ q.total = total /\ q.success = success /\ q.verifs = verifs
      BY <1>4, <3>12 DEF Reports
    <3>14. /\ q \in Reports
           /\ q.start = r.start /\ q.end = r.end /\ q.stopped = r.stopped
           /\ q.total = r.total + dt /\ q.success = r.success + ds
           /\ q.verifs = r.verifs + dv
      BY <3>13 DEF total, success, verifs
    <3>15. Kept(q, k, script, s, o, c)
      BY <1>3, <1>4, <1>8, <3>9, <3>14 DEF Kept, T, S, V
    <3> QED BY <3>1, <3>15 DEF line
  <2> QED BY <1>1, <2>2, <2>3, <2>4
<1> QED BY <1>4, <1>7, <1>8 DEF Reports

(* The window, given the first time.                                       *)
Opens(script, t) == IF script = "process_logs" THEN t ELSE t + Warmup

Closes(script, t) == IF script = "process_logs" THEN t + Duration ELSE t + 2 * Warmup

(* Sorted lines: the first m are verifynkeys lines, and the others are in  *)
(* the order of their times.                                               *)
InOrder(s, n, m) ==
  /\ \A i \in 1..n : s[i].kind = "keys" <=> i <= m
  /\ \A i, j \in 1..n : i < j /\ m < i => s[i].time <= s[j].time

(* Lines no one of which should be before an earlier one are in order.     *)
LEMMA KeysFirst ==
  ASSUME NEW n \in Nat, NEW s \in [1..n -> AnyLine],
         \A i, j \in 1..n : i < j => ~Before(s[j], s[i])
  PROVE  \E m \in 0..n : InOrder(s, n, m)
<1> DEFINE Ops == {i \in 1..n : s[i].kind # "keys"}
<1>1. \E m \in 0..n : \A i \in 1..n : s[i].kind = "keys" <=> i <= m
  <2>1. CASE Ops = {}
    BY <2>1
  <2>2. CASE Ops # {}
    <3>1. PICK h \in Ops : \A i \in Ops : h <= i
      <4>1. Ops \in SUBSET Nat
        OBVIOUS
      <4> HIDE DEF Ops
      <4> QED BY <2>2, <4>1, LeastNumber
    <3>2. h \in 1..n /\ s[h].kind # "keys" /\ h - 1 \in 0..n
      BY <3>1
    <3>3. ASSUME NEW i \in 1..n PROVE s[i].kind = "keys" <=> i <= h - 1
      <4>1. CASE i < h
        BY <3>1, <3>2, <4>1
      <4>2. CASE i = h
        BY <3>2, <4>2
      <4>3. CASE h < i
        <5>1. ~Before(s[i], s[h])
          BY <3>2, <4>3
        <5> QED BY <3>2, <4>3, <5>1 DEF Before
      <4> QED BY <3>2, <4>1, <4>2, <4>3
    <3> QED BY <3>2, <3>3
  <2> QED BY <2>1, <2>2
<1>2. PICK m \in 0..n : \A i \in 1..n : s[i].kind = "keys" <=> i <= m
  BY <1>1
<1>3. \A i \in 1..n : s[i].kind # "keys" => s[i].time \in Nat
  BY DEF AnyLine
<1>5. ASSUME NEW i \in 1..n, NEW j \in 1..n, i < j, m < i PROVE s[i].time <= s[j].time
  <2>1. s[i].kind # "keys" /\ s[j].kind # "keys"
    BY <1>2, <1>5
  <2>2. ~(s[j].time < s[i].time)
    BY <1>5, <2>1 DEF Before
  <2> QED BY <1>3, <2>1, <2>2
<1> QED BY <1>2, <1>5 DEF InOrder

(* Reading the verifynkeys lines leaves everything as it is.               *)
LEMMA KeysAreRead ==
  ASSUME NEW script, NEW n \in Nat, NEW s \in [1..n -> AnyLine],
         NEW m \in 0..n, InOrder(s, n, m), NEW after, Reads(after, script, s, n)
  PROVE  after[m] = Begun
<1> DEFINE Good == {k \in Nat : k <= m => after[k] = Begun}
<1>1. ASSUME NEW k \in Nat, \A j \in Nat : j < k => j \in Good PROVE k \in Good
  <2>1. CASE k = 0
    BY <2>1 DEF Reads
  <2>2. CASE k # 0 /\ k <= m
    <3>1. k \in 1..n /\ k - 1 \in Good /\ k - 1 <= m
      BY <1>1, <2>2
    <3>2. after[k - 1] = Begun /\ s[k].kind = "keys"
      BY <2>2, <3>1 DEF InOrder
    <3>3. after[k] = Step(script, after[k - 1], s[k])
      BY <3>1 DEF Reads
    <3> QED BY <3>2, <3>3 DEF Step
  <2>3. CASE ~(k <= m)
    BY <2>3
  <2> QED BY <2>1, <2>2, <2>3
<1>2. Nat \subseteq Good
  <2> HIDE DEF Good
  <2> QED BY <1>1, Induction
<1> QED BY <1>2

(* Reading the others.                                                     *)
LEMMA LinesAreRead ==
  ASSUME NEW script \in Scripts, NEW n \in Nat, NEW s \in [1..n -> AnyLine],
         NEW m \in 0..n, m # n, InOrder(s, n, m), NEW after, Reads(after, script, s, n)
  PROVE  Kept(after[n], n, script, s, Opens(script, s[m + 1].time), Closes(script, s[m + 1].time))
<1> DEFINE first == s[m + 1]
           o == Opens(script, first.time)
           c == Closes(script, first.time)
           q == after[m]
           r == [q EXCEPT !.start = o, !.end = c]
           read(k) == IF k = m THEN r ELSE after[k]
           Good == {k \in Nat : m <= k /\ k <= n => Kept(read(k), k, script, s, o, c)}
<1>1. m \in Nat /\ m + 1 \in 1..n /\ first \in AnyLine /\ first.kind # "keys"
  BY DEF InOrder
<1>2. first.time \in Nat
  BY <1>1 DEF AnyLine
<1>3. o \in Nat /\ c \in Nat /\ o <= c
  <2> HIDE DEF first
  <2> QED BY <1>2, WarmupAssumption DEF Opens, Closes, Duration
<1>5. q = Begun
  BY KeysAreRead
<1>6. ASSUME NEW i \in 1..n PROVE (s[i].kind # "keys" <=> m < i)
  BY <1>1 DEF InOrder
<1>7. Step(script, after[m], first) = Step(script, r, first)
  <2>1. q.start = Unset /\ q.stopped = FALSE /\ r.stopped = FALSE /\ r.start = o
        /\ r = [q EXCEPT !.start = o, !.end = c]
    <3> HIDE DEF q, o, c
    <3> QED BY <1>5 DEF Begun
  <2>2. o # Unset
    BY <1>3 DEF Unset
  <2> HIDE DEF r, q
  <2>3. Opened(script, r, first) = r
    BY <2>1, <2>2 DEF Opened
  <2>4. Opened(script, q, first) = r
    <3>1. o = IF script = "process_logs" THEN first.time ELSE first.time + Warmup
      BY DEF Opens
    <3>2. c = (IF script = "process_logs" THEN first.time ELSE first.time + Warmup)
                + (IF script = "process_logs" THEN Duration ELSE Warmup)
      <4> HIDE DEF first
      <4> QED BY <1>2, WarmupAssumption DEF Closes, Duration
    <3> HIDE DEF o, c, first
    <3> QED BY <2>1, <3>1, <3>2 DEF Opened
  <2>5. Line(script, q, first) = Line(script, r, first)
    BY <2>3, <2>4 DEF Line
  <2> HIDE DEF first, o, c
  <2>6. Step(script, q, first) = Line(script, q, first)
    BY <1>1, <2>1 DEF Step
  <2>7. Step(script, r, first) = Line(script, r, first)
    BY <1>1, <2>1 DEF Step
  <2> QED BY <2>5, <2>6, <2>7 DEF q
<1>8. Kept(r, m, script, s, o, c)
  <2>1. ASSUME NEW T \in {Txns(script, s, o, c), Succeeded(script, s, o, c), Verified(s, o, c)}
        PROVE  HowMany(T, m) = 0
    <3>1. \A i \in T : i \in 1..n /\ s[i].kind # "keys"
      <4>1. DOMAIN s = 1..n
        OBVIOUS
      <4> QED BY <4>1 DEF Txns, Succeeded, Verified, Inside
    <3>2. T \cap (1..m) = {}
      <4> HIDE DEF first, o, c, q, r, read, Good
      <4>1. ASSUME NEW i \in T PROVE m < i /\ i \in Nat
        <5>1. i \in 1..n /\ s[i].kind # "keys"
          BY <3>1
        <5> QED BY <1>6, <5>1
      <4> QED BY <1>1, <4>1
    <3> QED BY <3>2, FS_EmptySet DEF HowMany
  <2>2. /\ r.start = o /\ r.end = c /\ r.stopped = FALSE /\ r.total = 0
        /\ r.success = 0 /\ r.verifs = 0
        /\ r \in Reports
    <3> HIDE DEF q, o, c
    <3>1. q \in Reports /\ o \in Int /\ c \in Int
      BY <1>3, <1>5 DEF Begun, Reports, Unset
    <3>2. r \in Reports
      BY <3>1 DEF Reports
    <3>3. /\ r.start = o /\ r.end = c /\ r.stopped = q.stopped /\ r.total = q.total
          /\ r.success = q.success /\ r.verifs = q.verifs
      BY <3>1 DEF Reports
    <3> HIDE DEF r
    <3> QED BY <1>5, <3>2, <3>3 DEF Begun
  <2> HIDE DEF r, q, o, c
  <2> QED BY <2>1, <2>2 DEF Kept
<1>9. ASSUME NEW k \in Nat, \A j \in Nat : j < k => j \in Good PROVE k \in Good
  <2> SUFFICES ASSUME m <= k, k <= n PROVE Kept(read(k), k, script, s, o, c)
    OBVIOUS
  <2>1. CASE k = m
    <3> HIDE DEF r, o, c
    <3> QED BY <1>8, <2>1
  <2>2. CASE k # m
    <3>1. k \in 1..n /\ k - 1 \in Nat /\ m <= k - 1 /\ k - 1 <= n /\ m < k
      BY <1>1, <2>2
    <3>2. Kept(read(k - 1), k - 1, script, s, o, c)
      BY <1>9, <3>1
    <3>3. after[k] = Step(script, after[k - 1], s[k])
      BY <3>1 DEF Reads
    <3>4. Step(script, after[k - 1], s[k]) = Step(script, read(k - 1), s[k])
      <4>1. CASE k - 1 = m
        <5>1. s[k] = first /\ after[k - 1] = after[m] /\ read(k - 1) = r
          <6>1. k = m + 1
            BY <1>1, <4>1
          <6> HIDE DEF r
          <6> QED BY <4>1, <6>1
        <5> HIDE DEF first, r, read
        <5> QED BY <1>7, <5>1
      <4>2. CASE k - 1 # m
        <5> HIDE DEF r
        <5> QED BY <4>2
      <4> QED BY <4>1, <4>2
    <3>5. /\ s[k].kind # "keys"
          /\ \A i \in 1..k : s[i].kind # "keys" => s[i].time <= s[k].time
      <4>1. s[k].kind # "keys"
        BY <1>6, <3>1
      <4>2. ASSUME NEW i \in 1..k, s[i].kind # "keys" PROVE s[i].time <= s[k].time
        <5>1. i \in 1..n /\ m < i
          BY <1>1, <1>6, <3>1, <4>2
        <5>2. CASE i = k
          <6>1. s[k].time \in Nat
            BY <3>1, <4>1 DEF AnyLine
          <6> QED BY <5>2, <6>1
        <5>3. CASE i < k
          BY <3>1, <5>1, <5>3 DEF InOrder
        <5> QED BY <5>1, <5>2, <5>3
      <4> QED BY <4>1, <4>2
    <3> DEFINE prev == read(k - 1)
    <3>6. Kept(prev, k - 1, script, s, o, c)
      BY <3>2
    <3> HIDE DEF prev, q, o, c, read, Good, r
    <3>7. Kept(Step(script, prev, s[k]), k, script, s, o, c)
      BY <1>3, <3>1, <3>5, <3>6, AnotherLine
    <3>8. read(k) = Step(script, prev, s[k])
      BY <2>2, <3>3, <3>4 DEF read, prev
    <3> QED BY <3>7, <3>8
  <2> QED BY <2>1, <2>2
<1>10. Nat \subseteq Good
  <2> HIDE DEF Good
  <2> QED BY <1>9, Induction
<1>11. Kept(read(n), n, script, s, o, c)
  <2>1. n \in Nat /\ m <= n /\ n <= n
    BY <1>1
  <2> HIDE DEF read, o, c
  <2> QED BY <1>10, <2>1
<1> HIDE DEF o, c, r
<1> QED BY <1>11 DEF o, c

----------------------------------------------------------------------------
(* From the sorted lines back to the lines.                                *)

(* A set of lines has as many members after the sort as before.            *)
LEMMA SameNumber ==
  ASSUME NEW n \in Nat, NEW p \in Bijection(1..n, 1..n), NEW T \in SUBSET (1..n)
  PROVE  HowMany({i \in 1..n : p[i] \in T}, n) = Cardinality(T)
<1> DEFINE U == {i \in 1..n : p[i] \in T}
           f == [i \in U |-> p[i]]
<1>1. /\ p \in [1..n -> 1..n]
      /\ \A i, j \in 1..n : p[i] = p[j] => i = j
      /\ \A k \in 1..n : \E i \in 1..n : p[i] = k
  BY DEF Bijection, Injection, Surjection, IsInjective
<1>2. f \in [U -> T] /\ \A i, j \in U : f[i] = f[j] => i = j
  BY <1>1
<1>3. \A k \in T : \E i \in U : f[i] = k
  BY <1>1
<1>4. IsFiniteSet(U)
  <2>1. IsFiniteSet(1..n) /\ U \in SUBSET (1..n)
    BY FS_Interval
  <2> HIDE DEF U
  <2> QED BY <2>1, FS_Subset
<1>5. U \cap (1..n) = U
  OBVIOUS
<1> HIDE DEF U, f
<1>6. f \in Bijection(U, T)
  <2>1. f \in Injection(U, T)
    BY <1>2, Fun_IsInj
  <2>2. f \in Surjection(U, T)
    BY <1>2, <1>3, Fun_IsSurj
  <2> QED BY <2>1, <2>2 DEF Bijection
<1>7. Cardinality(T) = Cardinality(U)
  <2>1. ExistsBijection(U, T)
    BY <1>6 DEF ExistsBijection
  <2> QED BY <1>4, <2>1, FS_Bijection
<1> QED BY <1>5, <1>7 DEF HowMany, U

(* So has each of the sets that are counted.                               *)
LEMMA CountsAreSame ==
  ASSUME NEW n \in Nat, NEW lines, DOMAIN lines = 1..n, NEW p \in Bijection(1..n, 1..n), NEW s,
         s = [i \in 1..n |-> lines[p[i]]], NEW script, NEW o, NEW c
  PROVE  /\ HowMany(Txns(script, s, o, c), n) = Cardinality(Txns(script, lines, o, c))
         /\ HowMany(Succeeded(script, s, o, c), n) = Cardinality(Succeeded(script, lines, o, c))
         /\ HowMany(Verified(s, o, c), n) = Cardinality(Verified(lines, o, c))
<1>1. /\ DOMAIN s = 1..n
      /\ \A i \in 1..n : p[i] \in 1..n /\ s[i] = lines[p[i]]
  BY DEF Bijection, Injection
<1>2. \A i \in 1..n : i \in Inside(s, o, c) <=> p[i] \in Inside(lines, o, c)
  BY <1>1 DEF Inside
<1>3. /\ Inside(s, o, c) \subseteq 1..n /\ Inside(lines, o, c) \subseteq 1..n
  BY <1>1 DEF Inside
<1>4. /\ Txns(script, lines, o, c) \in SUBSET (1..n)
      /\ Txns(script, s, o, c) = {i \in 1..n : p[i] \in Txns(script, lines, o, c)}
  BY <1>1, <1>2, <1>3 DEF Txns
<1>5. /\ Succeeded(script, lines, o, c) \in SUBSET (1..n)
      /\ Succeeded(script, s, o, c) = {i \in 1..n : p[i] \in Succeeded(script, lines, o, c)}
  BY <1>1, <1>4 DEF Succeeded
<1>6. /\ Verified(lines, o, c) \in SUBSET (1..n)
      /\ Verified(s, o, c) = {i \in 1..n : p[i] \in Verified(lines, o, c)}
  BY <1>1, <1>2, <1>3 DEF Verified
<1> QED BY <1>4, <1>5, <1>6, SameNumber

(* All that is needed of the sort and of the pass, at once.                *)
LEMMA Analysed ==
  ASSUME NEW script \in Scripts, NEW n \in Nat, NEW lines \in Seq(AnyLine), Len(lines) = n
  PROVE  \E m \in 0..n, p \in Bijection(1..n, 1..n) :
           LET s == [i \in 1..n |-> lines[p[i]]]
               r == Report(script, lines)
           IN  /\ s \in [1..n -> AnyLine]
               /\ InOrder(s, n, m)
               /\ m # n => Kept(r, n, script, s, Opens(script, s[m + 1].time),
                                Closes(script, s[m + 1].time))
<1>1. PICK p \in Bijection(1..n, 1..n) :
           /\ Sorted(lines) = [i \in 1..n |-> lines[p[i]]]
           /\ \A i, j \in 1..n : i < j => ~Before(lines[p[j]], lines[p[i]])
  BY SortedIs
<1> DEFINE s == [i \in 1..n |-> lines[p[i]]]
<1>2. s \in [1..n -> AnyLine] /\ \A i \in 1..n : s[i] = lines[p[i]]
  <2>1. \A i \in 1..n : p[i] \in 1..n
    BY DEF Bijection, Injection
  <2> QED BY <2>1
<1>3. Sorted(lines) = s
  BY <1>1
<1> HIDE DEF s
<1>4. \A i, j \in 1..n : i < j => ~Before(s[j], s[i])
  BY <1>1, <1>2
<1>5. PICK m \in 0..n : InOrder(s, n, m)
  BY <1>2, <1>4, KeysFirst
<1>6. PICK after : Reads(after, script, s, n) /\ Report(script, lines) = after[n]
  <2>1. DOMAIN Sorted(lines) = 1..n
    BY <1>2, <1>3
  <2>2. \E after : Reads(after, script, Sorted(lines), n) /\ Report(script, lines) = after[n]
    BY <2>1, ReportIs
  <2> QED BY <1>3, <2>2
<1>7. CASE m = n
  BY <1>2, <1>5, <1>7 DEF s
<1>8. CASE m # n
  <2>1. Kept(after[n], n, script, s, Opens(script, s[m + 1].time), Closes(script, s[m + 1].time))
    BY <1>2, <1>5, <1>6, <1>8, LinesAreRead
  <2> QED BY <1>2, <1>5, <1>6, <1>8, <2>1 DEF s
<1> QED BY <1>7, <1>8

(* The first time.                                                         *)
LEMMA FirstTime ==
  ASSUME NEW n \in Nat, NEW lines \in Seq(AnyLine), Len(lines) = n,
         NEW p \in Bijection(1..n, 1..n), NEW s \in [1..n -> AnyLine], \A i \in 1..n : s[i] = lines[p[i]],
         NEW m \in 0..n, m # n, InOrder(s, n, m)
  PROVE  Min({lines[k].time : k \in {k \in DOMAIN lines : lines[k].kind # "keys"}}) = s[m + 1].time
<1> DEFINE Ops == {k \in DOMAIN lines : lines[k].kind # "keys"}
           S == {lines[k].time : k \in Ops}
           t == s[m + 1].time
<1>1. /\ DOMAIN lines = 1..n
      /\ \A k \in 1..n : lines[k] \in AnyLine /\ (lines[k].kind # "keys" => lines[k].time \in Nat)
  BY DEF AnyLine
<1>2. /\ \A i \in 1..n : p[i] \in 1..n
      /\ \A k \in 1..n : \E i \in 1..n : p[i] = k
  BY DEF Bijection, Injection, Surjection
<1>3. S \in SUBSET Int
  BY <1>1
<1>4. m + 1 \in 1..n /\ s[m + 1].kind # "keys"
  BY DEF InOrder
<1>5. t \in S
  <2>1. p[m + 1] \in Ops
    BY <1>1, <1>2, <1>4
  <2>2. t = lines[p[m + 1]].time
    BY <1>4
  <2> HIDE DEF Ops, t
  <2> QED BY <2>1, <2>2
<1>6. ASSUME NEW k \in Ops PROVE t <= lines[k].time
  <2>1. PICK i \in 1..n : p[i] = k
    BY <1>1, <1>2
  <2>2. s[i] = lines[k] /\ s[i].kind # "keys" /\ m < i /\ s[i].time \in Nat
    <3>1. s[i] = lines[k] /\ s[i].kind # "keys"
      BY <2>1
    <3>2. ~(i <= m)
      BY <3>1 DEF InOrder
    <3> QED BY <1>1, <3>1, <3>2
  <2>3. CASE i = m + 1
    BY <2>2, <2>3
  <2>4. CASE i # m + 1
    <3>1. m + 1 < i /\ m < m + 1
      BY <2>2, <2>4
    <3>2. s[m + 1].time <= s[i].time
      BY <1>4, <3>1 DEF InOrder
    <3> QED BY <2>2, <3>2
  <2> QED BY <2>3, <2>4
<1>7. \A x \in S : t <= x
  BY <1>6
<1> HIDE DEF S, t
<1>8. Min(S) = t
  BY <1>3, <1>5, <1>7, MinIs
<1> QED BY <1>8 DEF S, t

----------------------------------------------------------------------------
(* The logs, one after the other.                                          *)

(* The function of FlattenSeq, on the first n sequences.                   *)
Flattened(f, seqs, n) ==
  f = [i \in 1..n |-> IF i = 1 THEN seqs[i] ELSE f[i - 1] \o seqs[i]]

(* FlattenSeq's recursive function exists.                                 *)
LEMMA FlattenExists ==
  ASSUME NEW seqs
  PROVE  \A n \in Nat : \E f : Flattened(f, seqs, n)
<1> DEFINE Good == {n \in Nat : \E f : Flattened(f, seqs, n)}
<1>1. ASSUME NEW n \in Nat, \A m \in Nat : m < n => m \in Good PROVE n \in Good
  <2>1. CASE n = 0
    <3> DEFINE f == [i \in 1..n |-> << >>]
    <3>1. 1..n = {}
      BY <2>1
    <3>2. f = [i \in 1..n |-> IF i = 1 THEN seqs[i] ELSE f[i - 1] \o seqs[i]]
      BY <3>1, Zenon
    <3> HIDE DEF f
    <3>3. Flattened(f, seqs, n)
      BY <3>2, Zenon DEF Flattened
    <3> QED BY <3>3
  <2>2. CASE n # 0
    <3> DEFINE m == n - 1
    <3>1. m \in Nat /\ m < n /\ \A i \in 1..n : i = n \/ i \in 1..m
      BY <2>2
    <3>2. PICK g : Flattened(g, seqs, m)
      BY <1>1, <3>1
    <3> DEFINE value(i) == IF i \in 1..m THEN g[i]
                           ELSE IF i = 1 THEN seqs[i] ELSE g[i - 1] \o seqs[i]
               f == [i \in 1..n |-> value(i)]
    <3>3. \A i \in 1..m : i \in 1..n /\ f[i] = g[i] /\ (i # 1 => i - 1 \in 1..m)
      BY <3>1
    <3>4. \A i \in 1..m : g[i] = IF i = 1 THEN seqs[i] ELSE g[i - 1] \o seqs[i]
      <4> HIDE DEF m
      <4> QED BY <3>2, Zenon DEF Flattened
    <3>5. ASSUME NEW i \in 1..n
          PROVE  value(i) = IF i = 1 THEN seqs[i] ELSE f[i - 1] \o seqs[i]
      <4>1. CASE i \in 1..m
        <5>1. i # 1 => f[i - 1] = g[i - 1]
          BY <3>3, <4>1
        <5>2. value(i) = g[i]
          BY <4>1
        <5> HIDE DEF value, f, m
        <5> QED BY <3>4, <4>1, <5>1, <5>2
      <4>2. CASE i \notin 1..m
        <5>1. i # 1 => i - 1 \in 1..m
          BY <3>1, <4>2
        <5>2. i # 1 => f[i - 1] = g[i - 1]
          BY <3>3, <5>1
        <5>3. value(i) = IF i = 1 THEN seqs[i] ELSE g[i - 1] \o seqs[i]
          BY <4>2
        <5> HIDE DEF value, f, m
        <5> QED BY <5>2, <5>3
      <4> QED BY <4>1, <4>2
    <3>6. f = [i \in 1..n |-> value(i)]
      OBVIOUS
    <3> HIDE DEF f, value, Good
    <3>7. Flattened(f, seqs, n)
      BY <3>5, <3>6, Zenon DEF Flattened
    <3> QED BY <3>7 DEF Good
  <2> QED BY <2>1, <2>2
<1> HIDE DEF Good
<1>2. Nat \subseteq Good
  BY <1>1, Induction
<1> QED BY <1>2 DEF Good

(* A sequence of sequences over a set becomes a sequence over it.          *)
LEMMA FlattenIsTyped ==
  ASSUME NEW S, NEW seqs \in Seq(Seq(S))
  PROVE  FlattenSeq(seqs) \in Seq(S)
<1>1. Len(seqs) \in Nat
  OBVIOUS
<1>2. CASE Len(seqs) = 0
  <2>1. seqs = << >>
    BY <1>2
  <2>2. FlattenSeq(seqs) = seqs
    BY <1>2 DEF FlattenSeq
  <2>3. << >> \in Seq(S)
    BY EmptySeq
  <2> QED BY <2>1, <2>2, <2>3, Zenon
<1>3. CASE Len(seqs) # 0
  <2> DEFINE n == Len(seqs)
             f == CHOOSE f : Flattened(f, seqs, n)
             Good == {i \in Nat : i \in 1..n => f[i] \in Seq(S)}
  <2>1. FlattenSeq(seqs) = f[n]
    BY <1>3 DEF FlattenSeq, Flattened
  <2>2. Flattened(f, seqs, n)
    <3>1. \E g : Flattened(g, seqs, n)
      BY <1>1, FlattenExists
    <3> HIDE DEF n
    <3> QED BY <3>1, Zenon
  <2> HIDE DEF f
  <2>3. ASSUME NEW i \in Nat, \A j \in Nat : j < i => j \in Good PROVE i \in Good
    <3> SUFFICES ASSUME i \in 1..n PROVE f[i] \in Seq(S)
      OBVIOUS
    <3>1. f[i] = IF i = 1 THEN seqs[i] ELSE f[i - 1] \o seqs[i]
      <4> HIDE DEF n
      <4> QED BY <2>2, Zenon DEF Flattened
    <3>2. seqs[i] \in Seq(S)
      OBVIOUS
    <3>3. CASE i # 1
      <4>1. i - 1 \in Nat /\ i - 1 < i /\ i - 1 \in 1..n
        BY <1>1, <3>3
      <4>2. f[i - 1] \in Seq(S)
        BY <2>3, <4>1
      <4>3. f[i - 1] \o seqs[i] \in Seq(S)
        BY <3>2, <4>2, ConcatProperties
      <4> QED BY <3>1, <3>3, <4>3
    <3> QED BY <3>1, <3>2, <3>3
  <2>4. Nat \subseteq Good
    <3> HIDE DEF Good
    <3> QED BY <2>3, Induction
  <2>5. n \in 1..n /\ n \in Nat
    BY <1>1, <1>3
  <2>6. f[n] \in Seq(S)
    <3> HIDE DEF n
    <3> QED BY <2>4, <2>5
  <2> HIDE DEF n, Good
  <2> QED BY <2>1, <2>6
<1> QED BY <1>2, <1>3

(* What the clients' logs contain.                                         *)
LEMMA LinesAreTyped ==
  ASSUME YTyped
  PROVE  Lines \in Seq(AnyLine)
<1> DEFINE n == Cardinality(Clients)
           order == SetToSeq(Clients)
           logs == [i \in 1..n |-> log[order[i]]]
<1>1. n \in Nat /\ \E f \in [1..n -> Clients] : IsInjective(f)
  <2>1. PICK k \in Nat : ExistsBijection(1..k, Clients)
    BY YcsbAssumption, FS_NatBijection
  <2>2. k = n
    BY <2>1, FS_CountingElements
  <2>3. PICK f \in Bijection(1..k, Clients) : TRUE
    BY <2>1 DEF ExistsBijection
  <2>4. f \in [1..k -> Clients] /\ IsInjective(f)
    BY <2>3 DEF Bijection, Injection
  <2> QED BY <2>2, <2>4
<1>2. order \in [1..n -> Clients]
  <2> HIDE DEF n
  <2> QED BY <1>1 DEF SetToSeq, n
<1>3. Entries(now) \subseteq AnyLine
  <2>1. 0..now \subseteq Nat /\ 0..1 \subseteq Nat
    BY YcsbAssumption DEF YTyped
  <2> QED BY <2>1 DEF Entries, AnyLine
<1>4. \A c \in Clients : log[c] \in Seq(AnyLine)
  <2> TAKE c \in Clients
  <2>1. log[c] \in Seq(Entries(now))
    BY DEF YTyped
  <2> QED BY <1>3, <2>1, SeqMonotonic
<1>5. logs \in Seq(Seq(AnyLine))
  <2> HIDE DEF n, order
  <2>1. logs \in [1..n -> Seq(AnyLine)]
    BY <1>2, <1>4
  <2> HIDE DEF logs
  <2> QED BY <1>1, <2>1, IsASeq
<1>6. FlattenSeq(logs) \in Seq(AnyLine)
  <2> HIDE DEF logs
  <2> QED BY <1>5, FlattenIsTyped
<1> QED BY <1>6 DEF Lines

----------------------------------------------------------------------------
(* Both scripts stop at the first line beyond the window; because the lines*)
(* are sorted by the times at which operations ended, no line is missed:   *)
(* every transaction and every verification in the window is counted once, *)
(* whatever the logs of however many clients contain.                      *)
THEOREM WindowsAreExact == Spec => []WindowIsExact
<1>1. YInv => WindowIsExact
  <2> SUFFICES ASSUME YInv PROVE WindowIsExact
    OBVIOUS
  <2> DEFINE lines == Lines
             n == Len(lines)
             ops == {k \in DOMAIN lines : lines[k].kind # "keys"}
             first == Min({lines[k].time : k \in ops})
             open == [process_logs |-> first, process_smallbank |-> first + Warmup]
             close == [process_logs |-> first + Duration, process_smallbank |-> first + 2 * Warmup]
             inside(script) == {k \in ops : open[script] <= lines[k].time /\ lines[k].time <= close[script]}
             txns(script) == {k \in inside(script) : script = "process_smallbank" \/ lines[k].kind = "txn"}
  <2>1. lines \in Seq(AnyLine) /\ n \in Nat
    BY LinesAreTyped DEF YInv
  <2>2. ASSUME ops # {}, NEW script \in Scripts
        PROVE  /\ Report(script, lines).total = Cardinality(txns(script))
               /\ Report(script, lines).success = Cardinality({k \in txns(script) : lines[k].status = 0})
               /\ Report(script, lines).verifs
                    = Cardinality({k \in inside(script) : lines[k].kind = "verify" /\ lines[k].n > 0})
    <3> DEFINE r == Report(script, lines)
               o == open[script]
               c == close[script]
    <3> HIDE DEF lines
    <3>1. PICK m \in 0..n, p \in Bijection(1..n, 1..n) :
             LET s == [i \in 1..n |-> lines[p[i]]]
             IN  /\ s \in [1..n -> AnyLine]
                 /\ InOrder(s, n, m)
                 /\ m # n => Kept(r, n, script, s, Opens(script, s[m + 1].time),
                                  Closes(script, s[m + 1].time))
      BY <2>1, Analysed
    <3> DEFINE s == [i \in 1..n |-> lines[p[i]]]
    <3>2. s \in [1..n -> AnyLine] /\ InOrder(s, n, m) /\ \A i \in 1..n : s[i] = lines[p[i]]
      BY <3>1
    <3>3. m # n => Kept(r, n, script, s, Opens(script, s[m + 1].time),
                        Closes(script, s[m + 1].time))
      BY <3>1
    <3>4. s = [i \in 1..n |-> lines[p[i]]]
      OBVIOUS
    <3> HIDE DEF s, r
    <3>5. DOMAIN lines = 1..n
      BY <2>1
    <3>6. m # n
      <4>1. PICK k \in 1..n : lines[k].kind # "keys"
        BY <2>2, <3>5
      <4>2. PICK i \in 1..n : p[i] = k
        BY DEF Bijection, Surjection
      <4>3. ~(i <= m)
        BY <3>2, <4>1, <4>2 DEF InOrder
      <4> QED BY <4>3
    <3>7. first = s[m + 1].time
      BY <2>1, <3>2, <3>6, FirstTime
    <3> HIDE DEF first
    <3>8. o = Opens(script, first) /\ c = Closes(script, first)
      BY DEF Opens, Closes, Scripts
    <3> HIDE DEF o, c
    <3>9. /\ r.total = HowMany(Txns(script, s, o, c), n)
          /\ r.success = HowMany(Succeeded(script, s, o, c), n)
          /\ r.verifs = HowMany(Verified(s, o, c), n)
      BY <3>3, <3>6, <3>7, <3>8 DEF Kept
    <3>10. /\ r.total = Cardinality(Txns(script, lines, o, c))
           /\ r.success = Cardinality(Succeeded(script, lines, o, c))
           /\ r.verifs = Cardinality(Verified(lines, o, c))
      BY <2>1, <3>4, <3>5, <3>9, CountsAreSame
    <3>11. inside(script) = Inside(lines, o, c)
      BY DEF Inside, o, c
    <3> HIDE DEF inside
    <3>12. txns(script) = Txns(script, lines, o, c)
      BY <3>11 DEF Txns
    <3> HIDE DEF txns
    <3> QED BY <3>10, <3>11, <3>12 DEF r, Succeeded, Verified
  <2> QED BY <2>2 DEF WindowIsExact
<1> QED BY <1>1, InitYInv, StepYInv, PTL DEF Spec
=============================================================================
