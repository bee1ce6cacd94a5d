--------------------------- MODULE CcfBankProofs ---------------------------
(***************************************************************************)
(* Proofs about CcfBank for words of any size and any number of accounts.  *)
(***************************************************************************)
EXTENDS CcfBank, TLAPS

----------------------------------------------------------------------------
(* Arithmetic on words.                                                    *)

(* Two numbers that the same word stands for.                              *)
Same(m, n) == \E q \in Int : m = n + q * Modulus

LEMMA Sizes ==
  /\ IntMax \in Nat /\ IntMin \in Int
  /\ Modulus \in Nat \ {0}
  /\ IntMin < 0
  /\ IntMax - IntMin + 1 = Modulus
BY CcfBankAssumption DEF IntMin, Modulus

LEMMA RemainderIsSame ==
  ASSUME NEW n \in Int
  PROVE  /\ n % Modulus \in 0..Modulus - 1
         /\ n = Modulus * (n \div Modulus) + (n % Modulus)
         /\ n \div Modulus \in Int
BY Sizes

LEMMA SameIsReflexive == \A n \in Int : Same(n, n)
<1>1. \A n \in Int : n = n + 0 * Modulus
  BY Sizes
<1> QED BY <1>1 DEF Same

LEMMA SameIsSymmetric ==
  ASSUME NEW m \in Int, NEW n \in Int, Same(m, n)
  PROVE  Same(n, m)
<1>1. PICK q \in Int : m = n + q * Modulus
  BY DEF Same
<1>2. n = m + (-q) * Modulus
  BY <1>1, Sizes
<1> QED BY <1>2 DEF Same

LEMMA SameIsTransitive ==
  ASSUME NEW l \in Int, NEW m \in Int, NEW n \in Int, Same(l, m), Same(m, n)
  PROVE  Same(l, n)
<1>1. PICK q \in Int : l = m + q * Modulus
  BY DEF Same
<1>2. PICK p \in Int : m = n + p * Modulus
  BY DEF Same
<1>3. l = n + (p + q) * Modulus
  BY <1>1, <1>2, Sizes
<1> QED BY <1>3 DEF Same

LEMMA SameAdds ==
  ASSUME NEW l \in Int, NEW m \in Int, NEW i \in Int, NEW j \in Int, Same(l, i), Same(m, j)
  PROVE  Same(l + m, i + j)
<1>1. PICK q \in Int : l = i + q * Modulus
  BY DEF Same
<1>2. PICK p \in Int : m = j + p * Modulus
  BY DEF Same
<1>3. l + m = (i + j) + (q + p) * Modulus
  BY <1>1, <1>2, Sizes
<1> QED BY <1>3 DEF Same

(* Numbers that differ by less than the modulus.                           *)
LEMMA SameAndClose ==
  ASSUME NEW m \in Int, NEW n \in Int, Same(m, n), m - n < Modulus, n - m < Modulus
  PROVE  m = n
<1>1. PICK q \in Int : m = n + q * Modulus
  BY DEF Same
<1>2. q * Modulus < Modulus /\ -q * Modulus < Modulus
  BY <1>1, Sizes
<1>3. q < 1 /\ -q < 1
  BY <1>2, Sizes
<1> QED BY <1>1, <1>3, Sizes

LEMMA RemainderFromQuotient ==
  ASSUME NEW n \in Int, NEW q \in Int, NEW r \in Int, NEW m \in Int, n = m * q + r
  PROVE  r = n + (-q) * m
OBVIOUS

LEMMA UnsignedIsSame ==
  ASSUME NEW n \in Int
  PROVE  /\ Unsigned(n) \in 0..Modulus - 1
         /\ Same(Unsigned(n), n)
<1> DEFINE q == n \div Modulus
<1>1. q \in Int /\ -q \in Int /\ n % Modulus \in 0..Modulus - 1
  BY RemainderIsSame
<1>2. n = Modulus * q + (n % Modulus)
  BY RemainderIsSame
<1>3. n % Modulus = n + (-q) * Modulus
  <2> HIDE DEF q
  <2>1. n % Modulus \in Int /\ Modulus \in Int
    BY <1>1, Sizes
  <2> QED BY <1>1, <1>2, <2>1, RemainderFromQuotient
<1> QED BY <1>1, <1>3 DEF Unsigned, Same

LEMMA SameIsRemainderZero ==
  ASSUME NEW m \in Int, NEW n \in Int
  PROVE  Same(m, n) <=> (m - n) % Modulus = 0
<1>1. m - n \in Int /\ Unsigned(m - n) \in 0..Modulus - 1 /\ Same(Unsigned(m - n), m - n)
  BY UnsignedIsSame
<1>2. ASSUME Same(m, n) PROVE Unsigned(m - n) = 0
  <2>1. PICK q \in Int : m = n + q * Modulus
    BY <1>2 DEF Same
  <2>2. m - n = 0 + q * Modulus
    BY <2>1, Sizes
  <2>3. Same(m - n, 0)
    BY <2>2 DEF Same
  <2>4. Same(Unsigned(m - n), 0)
    BY <1>1, <2>3, SameIsTransitive, Sizes
  <2> QED BY <1>1, <2>4, SameAndClose, Sizes
<1>3. ASSUME Unsigned(m - n) = 0 PROVE Same(m, n)
  <2>1. Same(m - n, 0)
    BY <1>1, <1>3, SameIsSymmetric
  <2>2. PICK q \in Int : m - n = 0 + q * Modulus
    BY <2>1 DEF Same
  <2>3. m = n + q * Modulus
    BY <2>2, Sizes
  <2> QED BY <2>3 DEF Same
<1> QED BY <1>2, <1>3 DEF Unsigned

LEMMA AsIntIsSame ==
  ASSUME NEW n \in Int
  PROVE  /\ AsInt(n) \in IntMin..IntMax
         /\ Same(AsInt(n), n)
<1> DEFINE k == n - IntMin
<1>1. k \in Int
  BY Sizes
<1>2. k % Modulus \in 0..Modulus - 1 /\ Same(k % Modulus, k)
  BY <1>1, UnsignedIsSame DEF Unsigned
<1> HIDE DEF k
<1>3. Same((k % Modulus) + IntMin, k + IntMin)
  <2>1. k % Modulus \in Int /\ IntMin \in Int /\ Same(IntMin, IntMin)
    BY <1>2, Sizes, SameIsReflexive
  <2> QED BY <1>1, <1>2, <2>1, SameAdds
<1>4. k + IntMin = n
  BY Sizes DEF k
<1> QED BY <1>2, <1>3, <1>4, Sizes DEF AsInt, k

----------------------------------------------------------------------------
(* The endpoints.                                                          *)

LEMMA LoadedAccounts ==
  /\ LoadedRecords \subseteq Records
  /\ \A a \in Accounts :
       /\ saving(a) \in Records /\ checking(a) \in Records
       /\ saving(a) \in LoadedRecords <=> a \in Loaded
       /\ checking(a) \in LoadedRecords <=> a \in Loaded
BY DEF LoadedRecords, Records, saving, checking

LEMMA TaskShape ==
  ASSUME NEW t \in Tasks
  PROVE  /\ t.acc1 \in Accounts /\ t.acc2 \in Accounts
         /\ t.balance \in Int
         /\ t.op \in {"AM", "GB", "UB", "US", "SP", "WC"}
<1>1. t.acc1 \in Accounts /\ t.acc2 \in Accounts /\ t.balance \in Nat
      /\ t.op \in {"AM", "GB", "UB", "US", "SP", "WC"}
  BY SmallBankAssumption DEF Tasks
<1> QED BY <1>1

(* An endpoint that does not throw has read loaded accounts only, and they *)
(* are the accounts it puts.                                               *)
LEMMA StaysLoaded ==
  ASSUME TypeOK, NEW t \in Tasks, ~Throws(t)
  PROVE  Reads(t) \subseteq LoadedRecords /\ StoredKeys(t) \subseteq LoadedRecords
<1>1. Reads(t) \subseteq Records
  BY TaskShape, LoadedAccounts DEF Reads
<1>2. Reads(t) \subseteq LoadedRecords
  BY <1>1 DEF Throws, StoiThrows, StoulThrows, TypeOK
<1> QED BY <1>2, TaskShape, LoadedAccounts DEF Reads, StoredKeys, PutKeys

(* The puts are sums of what was read, so they agree for balances that do. *)
LEMMA StoredPutsSame ==
  ASSUME TypeOK, NEW t \in Tasks, ~Throws(t), NEW taken \in Int,
         NEW v \in [LoadedRecords -> Int], NEW w \in [LoadedRecords -> Int],
         \A r \in LoadedRecords : Same(v[r], w[r])
  PROVE  /\ StoredPuts(t, v, taken) \in [LoadedRecords -> Int]
         /\ \A r \in LoadedRecords : Same(StoredPuts(t, v, taken)[r], StoredPuts(t, w, taken)[r])
         /\ \A r \in LoadedRecords \ StoredKeys(t) : StoredPuts(t, v, taken)[r] = v[r]
<1>1. /\ Same(0, 0) /\ Same(taken, taken) /\ Same(t.balance, t.balance)
      /\ Same(-taken, -taken) /\ Same(-t.balance, -t.balance)
      /\ t.balance \in Int /\ -t.balance \in Int /\ -taken \in Int
  BY TaskShape, SameIsReflexive
<1>2. Reads(t) \subseteq LoadedRecords /\ StoredKeys(t) \subseteq LoadedRecords
  BY StaysLoaded
<1>3. \A r \in LoadedRecords :
        /\ Same(v[r] + t.balance, w[r] + t.balance)
        /\ Same(v[r] - t.balance, w[r] - t.balance)
        /\ Same(v[r] - taken, w[r] - taken)
  <2> TAKE r \in LoadedRecords
  <2>1. /\ Same(v[r] + t.balance, w[r] + t.balance)
        /\ Same(v[r] + (-t.balance), w[r] + (-t.balance))
        /\ Same(v[r] + (-taken), w[r] + (-taken))
    BY <1>1, SameAdds
  <2>2. /\ v[r] + (-t.balance) = v[r] - t.balance /\ w[r] + (-t.balance) = w[r] - t.balance
        /\ v[r] + (-taken) = v[r] - taken /\ w[r] + (-taken) = w[r] - taken
    BY <1>1
  <2> QED BY <2>1, <2>2
<1>4. CASE t.op = "AM"
  <2>1. saving(t.acc1) \in LoadedRecords /\ checking(t.acc2) \in LoadedRecords
    BY <1>2, <1>4 DEF Reads
  <2>2. Same(v[saving(t.acc1)] + v[checking(t.acc2)], w[saving(t.acc1)] + w[checking(t.acc2)])
    BY <2>1, SameAdds
  <2>3. /\ StoredKeys(t) = {checking(t.acc1), saving(t.acc2)}
        /\ \A x : StoredPuts(t, x, taken) =
                [x EXCEPT ![checking(t.acc1)] = 0,
                          ![saving(t.acc2)] = x[saving(t.acc1)] + x[checking(t.acc2)]]
    BY <1>4 DEF StoredPuts, StoredKeys, PutKeys
  <2>4. ASSUME NEW x \in [LoadedRecords -> Int]
        PROVE  /\ StoredPuts(t, x, taken) \in [LoadedRecords -> Int]
               /\ \A r \in LoadedRecords :
                    StoredPuts(t, x, taken)[r] =
                      IF r = saving(t.acc2) THEN x[saving(t.acc1)] + x[checking(t.acc2)]
                      ELSE IF r = checking(t.acc1) THEN 0 ELSE x[r]
    BY <1>2, <2>1, <2>3
  <2>5. \A r \in LoadedRecords : Same(StoredPuts(t, v, taken)[r], StoredPuts(t, w, taken)[r])
    BY <1>1, <2>2, <2>4
  <2> QED BY <2>3, <2>4, <2>5
<1>5. CASE t.op = "GB"
  BY <1>5 DEF StoredPuts
<1>6. CASE t.op \in {"UB", "US"}
  <2>1. /\ StoredKeys(t) = {checking(t.acc1)}
        /\ \A x : StoredPuts(t, x, taken) = [x EXCEPT ![checking(t.acc1)] = @ + t.balance]
    BY <1>6 DEF StoredPuts, StoredKeys, PutKeys
  <2> QED BY <1>1, <1>2, <1>3, <2>1
<1>7. CASE t.op = "SP"
  <2>1. /\ StoredKeys(t) = {checking(t.acc1), checking(t.acc2)}
        /\ \A x : StoredPuts(t, x, taken) =
                [x EXCEPT ![checking(t.acc1)] = x[checking(t.acc1)] - t.balance,
                          ![checking(t.acc2)] = x[checking(t.acc2)] + t.balance]
    BY <1>7 DEF StoredPuts, StoredKeys, PutKeys
  <2> QED BY <1>1, <1>2, <1>3, <2>1
<1>8. CASE t.op = "WC"
  <2>1. /\ StoredKeys(t) = {checking(t.acc1)}
        /\ \A x : StoredPuts(t, x, taken) = [x EXCEPT ![checking(t.acc1)] = @ - taken]
    BY <1>8 DEF StoredPuts, StoredKeys, PutKeys
  <2> QED BY <1>2, <1>3, <2>1
<1> QED BY <1>4, <1>5, <1>6, <1>7, <1>8, TaskShape

LEMMA ConvertedSame ==
  ASSUME TypeOK, NEW t \in Tasks
  PROVE  /\ Converted(t) \in [LoadedRecords -> Int]
         /\ \A r \in LoadedRecords : Same(Converted(t)[r], records[r])
<1>1. \A r \in LoadedRecords : records[r] \in Int
  BY Sizes, LoadedAccounts DEF TypeOK
<1>2. \A r \in LoadedRecords : Stoul(r) \in Int /\ Same(Stoul(r), records[r])
  BY <1>1, UnsignedIsSame DEF Stoul
<1> QED BY <1>1, <1>2, SameIsReflexive DEF Converted

LEMMA WrittenSame ==
  ASSUME NEW t \in Tasks, NEW n \in Int
  PROVE  Written(t, n) \in IntMin..Modulus - 1 /\ Same(Written(t, n), n)
<1>1. 0..Modulus - 1 \subseteq IntMin..Modulus - 1 /\ IntMin..IntMax \subseteq IntMin..Modulus - 1
  BY Sizes
<1> QED BY <1>1, UnsignedIsSame, AsIntIsSame DEF Written

LEMMA TakesIntegers ==
  ASSUME TypeOK, NEW t \in Tasks, ~Throws(t)
  PROVE  Takes(t) \subseteq Int
<1>1. CASE t.op = "WC"
  <2>1. records[checking(t.acc1)] \in Int /\ records[saving(t.acc1)] \in Int
    BY <1>1, Sizes, StaysLoaded, LoadedAccounts DEF TypeOK, Reads
  <2>2. t.balance \in Int
    BY TaskShape
  <2> QED BY <1>1, <2>1, <2>2 DEF Takes, Taken
<1>2. CASE t.op # "WC"
  BY <1>2 DEF Takes
<1> QED BY <1>1, <1>2

----------------------------------------------------------------------------
(* The inductive invariant.                                                *)

InRangeUntilOverdrawn == ~overdrawn => \A r \in LoadedRecords : ideal[r] \in 0..IntMax

IInv == TypeOK /\ CongruentToIdeal /\ InRangeUntilOverdrawn

LEMMA InitIInv == Init => IInv
<1> SUFFICES ASSUME Init PROVE IInv
  OBVIOUS
<1>1. \A r \in LoadedRecords : Balances[r] \in 0..IntMax
  BY CcfBankAssumption DEF Balances
<1>2. 0..IntMax \subseteq IntMin..Modulus - 1 /\ 0..IntMax \subseteq Int
  BY Sizes
<1>3. Missing \notin 0..IntMax
  BY <1>2, CcfBankAssumption
<1>4. Balances \in [LoadedRecords -> Int]
  BY <1>1, <1>2 DEF Balances
<1>5. TypeOK
  <2>1. records = [r \in Records |-> IF r \in LoadedRecords THEN Balances[r] ELSE Missing]
    BY DEF Init
  <2>2. /\ records \in [Records -> (IntMin..Modulus - 1) \cup {Missing}]
        /\ \A r \in Records : records[r] = Missing <=> r \notin LoadedRecords
    BY <1>1, <1>2, <1>3, <2>1
  <2>3. posts \in 0..MaxPosts
    BY CcfBankAssumption DEF Init
  <2> QED BY <1>4, <2>2, <2>3 DEF Init, TypeOK
<1>6. CongruentToIdeal
  <2> SUFFICES ASSUME NEW r \in LoadedRecords PROVE (records[r] - ideal[r]) % Modulus = 0
    BY DEF CongruentToIdeal
  <2>1. records[r] = Balances[r] /\ ideal[r] = Balances[r] /\ Balances[r] \in Int
    BY <1>1, <1>2, LoadedAccounts DEF Init
  <2> QED BY <2>1, SameIsReflexive, SameIsRemainderZero
<1> QED BY <1>1, <1>5, <1>6 DEF IInv, InRangeUntilOverdrawn, Init

LEMMA RecordsAreSame ==
  ASSUME TypeOK, CongruentToIdeal
  PROVE  \A r \in LoadedRecords :
           records[r] \in Int /\ ideal[r] \in Int /\ Same(records[r], ideal[r])
<1>1. \A r \in LoadedRecords : records[r] \in Int /\ ideal[r] \in Int
  BY Sizes, LoadedAccounts DEF TypeOK
<1> QED BY <1>1, SameIsRemainderZero DEF CongruentToIdeal

LEMMA SucceedsIInv ==
  ASSUME IInv, NEW t \in Tasks, ~Throws(t), NEW taken \in Takes(t), Succeeds(t, taken),
         posts' \in 0..MaxPosts, curl' \in {0, 1}
  PROVE  IInv'
<1> DEFINE new == StoredPuts(t, Converted(t), taken)
           ideal2 == StoredPuts(t, ideal, taken)
<1>1. taken \in Int
  BY TakesIntegers DEF IInv
<1>2. /\ Converted(t) \in [LoadedRecords -> Int]
      /\ ideal \in [LoadedRecords -> Int]
      /\ \A r \in LoadedRecords : Same(Converted(t)[r], ideal[r])
  BY ConvertedSame, RecordsAreSame, SameIsTransitive DEF IInv, TypeOK
<1>3. /\ new \in [LoadedRecords -> Int]
      /\ \A r \in LoadedRecords : Same(new[r], ideal2[r])
  BY <1>1, <1>2, StoredPutsSame DEF IInv
<1>4. /\ ideal2 \in [LoadedRecords -> Int]
      /\ \A r \in LoadedRecords \ StoredKeys(t) : ideal2[r] = ideal[r]
  <2>1. \A r \in LoadedRecords : Same(ideal[r], ideal[r])
    BY <1>2, SameIsReflexive
  <2> QED BY <1>1, <1>2, <2>1, StoredPutsSame DEF IInv
<1>5. StoredKeys(t) \subseteq LoadedRecords
  BY StaysLoaded DEF IInv
<1>6. /\ records' = [r \in Records |-> IF r \in StoredKeys(t) THEN Written(t, new[r]) ELSE records[r]]
      /\ ideal' = ideal2
      /\ overdrawn' = (overdrawn \/ \E r \in LoadedRecords : ideal2[r] \notin 0..IntMax)
      /\ http' = "ok"
  BY DEF Succeeds, Recorded
<1> HIDE DEF new, ideal2
<1>7. \A r \in StoredKeys(t) :
        Written(t, new[r]) \in IntMin..Modulus - 1 /\ Same(Written(t, new[r]), new[r])
  BY <1>3, <1>5, WrittenSame
<1>8. TypeOK'
  <2>1. Missing \notin IntMin..Modulus - 1
    BY CcfBankAssumption, Sizes
  <2> QED BY <1>4, <1>5, <1>6, <1>7, <2>1, LoadedAccounts DEF IInv, TypeOK
<1>9. CongruentToIdeal'
  <2> SUFFICES ASSUME NEW r \in LoadedRecords PROVE (records'[r] - ideal'[r]) % Modulus = 0
    BY DEF CongruentToIdeal
  <2>1. records'[r] \in Int /\ ideal2[r] \in Int
    BY <1>4, <1>8, Sizes, LoadedAccounts DEF TypeOK
  <2>2. Same(records'[r], ideal2[r])
    <3>1. CASE r \in StoredKeys(t)
      <4>1. records'[r] = Written(t, new[r]) /\ new[r] \in Int
        BY <1>3, <1>6, <3>1, LoadedAccounts
      <4> QED BY <1>3, <1>7, <2>1, <3>1, <4>1, SameIsTransitive
    <3>2. CASE r \notin StoredKeys(t)
      BY <1>4, <1>6, <3>2, RecordsAreSame, LoadedAccounts DEF IInv
    <3> QED BY <3>1, <3>2
  <2> QED BY <1>6, <2>1, <2>2, SameIsRemainderZero
<1>10. InRangeUntilOverdrawn'
  BY <1>6 DEF InRangeUntilOverdrawn
<1> QED BY <1>8, <1>9, <1>10 DEF IInv

LEMMA StepIInv == IInv /\ [Next]_vars => IInv'
<1> SUFFICES ASSUME IInv, [Next]_vars PROVE IInv'
  OBVIOUS
<1>1. ASSUME UNCHANGED <<records, ideal, overdrawn>>,
             http' \in {"none", "ok", "error"}, curl' \in {0, 1}, posts' \in 0..MaxPosts
      PROVE  IInv'
  BY <1>1 DEF IInv, TypeOK, CongruentToIdeal, InRangeUntilOverdrawn
<1>2. ASSUME NEW t \in Tasks, Post(t) PROVE IInv'
  <2>1. posts' \in 0..MaxPosts /\ curl' \in {0, 1}
    BY <1>2, CcfBankAssumption DEF Post, IInv, TypeOK
  <2> QED BY <1>1, <1>2, <2>1, SucceedsIInv DEF Post
<1>3. ASSUME NEW t \in Tasks, PostFails(t) PROVE IInv'
  <2>1. posts' \in 0..MaxPosts /\ curl' \in {0, 1}
    BY <1>3, CcfBankAssumption DEF PostFails, IInv, TypeOK
  <2> QED BY <1>1, <1>3, <2>1, SucceedsIInv DEF PostFails
<1>4. CASE UNCHANGED vars
  BY <1>1, <1>4 DEF vars, IInv, TypeOK
<1> QED BY <1>2, <1>3, <1>4 DEF Next

LEMMA AlwaysIInv == Spec => []IInv
BY InitIInv, StepIInv, PTL DEF Spec

----------------------------------------------------------------------------
(* The results.                                                            *)

(* Records hold words, and only accounts that were not loaded have none.   *)
THEOREM TypeCorrect == Spec => []TypeOK
BY AlwaysIInv, PTL DEF IInv

(* Whatever mixture of signed and unsigned endpoints has run, whatever was *)
(* lost in an overflow: a record is the exact balance modulo the word.     *)
THEOREM AlwaysCongruent == Spec => []CongruentToIdeal
BY AlwaysIInv, PTL DEF IInv

LEMMA ExactInvariant == IInv => ExactUntilOverdrawn
<1> SUFFICES ASSUME IInv, ~overdrawn, NEW r \in LoadedRecords PROVE records[r] = ideal[r]
  BY DEF ExactUntilOverdrawn
<1>1. records[r] \in Int /\ ideal[r] \in Int /\ Same(records[r], ideal[r])
  BY RecordsAreSame DEF IInv
<1>2. records[r] \in IntMin..Modulus - 1
  BY <1>1, LoadedAccounts, CcfBankAssumption DEF IInv, TypeOK
<1>3. ideal[r] \in 0..IntMax
  BY DEF IInv, InRangeUntilOverdrawn
<1> QED BY <1>1, <1>2, <1>3, Sizes, SameAndClose

(* Records drift from the exact balances only through an overdraft or an   *)
(* overflow, never through a conversion alone.                             *)
THEOREM ExactBeforeOverdraft == Spec => []ExactUntilOverdrawn
BY AlwaysIInv, ExactInvariant, PTL

LEMMA ThrowsInvariant == IInv => ThrowsOnlyWhenOverdrawn
<1> SUFFICES ASSUME IInv, NEW t \in Tasks, t.acc1 \in Loaded, t.acc2 \in Loaded, Throws(t)
             PROVE  t.op = "WC" /\ overdrawn
  BY DEF ThrowsOnlyWhenOverdrawn
<1>1. Reads(t) \subseteq LoadedRecords
  BY TaskShape, LoadedAccounts DEF Reads
<1>2. \A r \in LoadedRecords : records[r] # Missing
  BY LoadedAccounts DEF IInv, TypeOK
<1>3. PICK r \in Reads(t) : IF t.op = "WC" THEN StoiThrows(r) ELSE StoulThrows(r)
  BY DEF Throws
<1>4. t.op = "WC" /\ records[r] \notin IntMin..IntMax
  BY <1>1, <1>2, <1>3 DEF StoiThrows, StoulThrows
<1>5. ASSUME ~overdrawn PROVE FALSE
  <2>1. records[r] = ideal[r] /\ ideal[r] \in 0..IntMax
    BY <1>1, <1>5, ExactInvariant DEF IInv, ExactUntilOverdrawn, InRangeUntilOverdrawn
  <2> QED BY <1>4, <2>1, Sizes
<1> QED BY <1>4, <1>5

(* Between loaded accounts only sb_writecheck answers with an error, and   *)
(* only after an overdraft.                                                *)
THEOREM ErrorsNeedOverdraft == Spec => []ThrowsOnlyWhenOverdrawn
BY AlwaysIInv, ThrowsInvariant, PTL

LEMMA AgreeInvariant == IInv => FourAgree
<1> SUFFICES ASSUME IInv, NEW t \in Tasks, t.op \in {"AM", "GB", "UB", "SP"},
                    ~Throws(t), ~overdrawn,
                    \A r \in LoadedRecords : Applied(t, records)[r] \in 0..IntMax
             PROVE  Recorded(t, 0) = Applied(t, records)
  BY DEF FourAgree
<1> DEFINE bank2 == Applied(t, records)
           v == Converted(t)
<1>1. \A r \in LoadedRecords : records[r] \in 0..IntMax
  BY ExactInvariant DEF IInv, ExactUntilOverdrawn, InRangeUntilOverdrawn
<1>2. ASSUME NEW n \in 0..IntMax PROVE Unsigned(n) = n
  <2>1. n \in Int /\ n < Modulus
    BY Sizes
  <2>2. Unsigned(n) \in 0..Modulus - 1 /\ Same(Unsigned(n), n)
    BY <2>1, UnsignedIsSame
  <2> QED BY <2>1, <2>2, SameAndClose, Sizes
<1>3. \A r \in LoadedRecords : v[r] = records[r]
  BY <1>1, <1>2 DEF Converted, Stoul
<1>4. v = [r \in LoadedRecords |-> v[r]]
  BY DEF Converted
<1>5. Reads(t) \subseteq LoadedRecords /\ StoredKeys(t) \subseteq LoadedRecords
  BY StaysLoaded DEF IInv
<1>6. records = [r \in Records |-> records[r]]
  BY DEF IInv, TypeOK
<1>7. /\ bank2 = [r \in Records |-> bank2[r]]
      /\ \A r \in Records \ StoredKeys(t) : bank2[r] = records[r]
  BY <1>6 DEF Applied, Commits, WithPuts, StoredKeys, PutKeys
<1>8. \A r \in StoredKeys(t) : StoredPuts(t, v, 0)[r] = bank2[r]
  <2> HIDE DEF v
  <2>1. CASE t.op = "AM"
    BY <1>3, <1>4, <1>5, <1>6, <2>1, LoadedAccounts
    DEF StoredPuts, Applied, Commits, WithPuts, StoredKeys, PutKeys, Reads
  <2>2. CASE t.op = "GB"
    BY <2>2 DEF StoredKeys, PutKeys
  <2>3. CASE t.op = "UB"
    BY <1>3, <1>4, <1>5, <1>6, <2>3, LoadedAccounts
    DEF StoredPuts, Applied, Commits, WithPuts, StoredKeys, PutKeys, Reads
  <2>4. CASE t.op = "SP"
    BY <1>3, <1>4, <1>5, <1>6, <2>4, LoadedAccounts
    DEF StoredPuts, Applied, Commits, WithPuts, StoredKeys, PutKeys, Reads
  <2> QED BY <2>1, <2>2, <2>3, <2>4
<1>9. \A r \in StoredKeys(t) : Written(t, StoredPuts(t, v, 0)[r]) = bank2[r]
  BY <1>2, <1>5, <1>8 DEF Written
<1> HIDE DEF bank2, v
<1>10. Recorded(t, 0) = [r \in Records |-> bank2[r]]
  BY <1>7, <1>9 DEF Recorded, v
<1> QED BY <1>7, <1>10 DEF bank2

(* Before an overdraft four of the stored procedures are the interactive   *)
(* transactions, for any amounts and any pair of accounts.                 *)
THEOREM FourProceduresAgree == Spec => []FourAgree
BY AlwaysIInv, AgreeInvariant, PTL
=============================================================================
