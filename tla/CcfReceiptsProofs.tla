------------------------- MODULE CcfReceiptsProofs -------------------------
(***************************************************************************)
(* Safety of CcfReceipts for every stride, ledger length and depth.        *)
(*                                                                         *)
(* That receipts are asked for once per stride is inductive only together  *)
(* with where the loop stands: latest_commit is a whole number of strides  *)
(* after base, and neither it nor Verify's copy of the commit number is    *)
(* beyond what the node has committed.                                     *)
(***************************************************************************)
EXTENDS CcfReceipts, TLAPS

USE ReceiptsAssumption

OnStride == \E k \in 0..MaxSeq : latest_commit = base + k * Stride

WithinLedger ==
  /\ latest_commit <= committed
  /\ verifier = "loop" => seq <= committed
  /\ walker = "walk" => latest + (Depth - left) <= latest_commit

IInv ==
  /\ TypeOK
  /\ OnStride
  /\ WithinLedger
  /\ \A s \in walked : s <= committed
  /\ ReceiptsOncePerStride
  /\ WalkIsContiguous

(* Between two neighbouring multiples of a number there is no third.       *)
LEMMA NextMultiple ==
  ASSUME NEW d \in Nat \ {0}, NEW j \in Nat, NEW k \in Nat,
         j * d < k * d, k * d <= j * d + d
  PROVE  k = j + 1
<1>1. CASE k <= j
  <2>1. PICK m \in Nat : j = k + m
    BY <1>1
  <2>2. j * d = k * d + m * d /\ m * d >= 0
    BY <2>1
  <2> QED BY <2>2
<1>2. CASE k >= j + 2
  <2>1. PICK m \in Nat : k = j + 2 + m
    BY <1>2
  <2>2. k * d = j * d + d + d + m * d /\ m * d >= 0
    BY <2>1
  <2> QED BY <2>2
<1> QED BY <1>1, <1>2

(* One more iteration of the loop makes exactly one more receipt due.      *)
LEMMA DueOneMore ==
  ASSUME TypeOK, OnStride, latest_commit + Stride <= MaxSeq
  PROVE  Due(latest_commit + Stride) = Due(latest_commit) \cup {latest_commit + Stride}
<1>1. PICK j \in 0..MaxSeq : latest_commit = base + j * Stride
  BY DEF OnStride
<1>2. latest_commit \in Nat /\ base \in Nat /\ latest_commit + Stride \in Seqs
  BY DEF TypeOK, Seqs
<1>3. latest_commit + Stride = base + (j + 1) * Stride /\ j + 1 \in 1..MaxSeq
  <2>1. (j + 1) * Stride = j * Stride + Stride
    OBVIOUS
  <2>2. j * Stride >= j
    OBVIOUS
  <2> QED BY <1>1, <1>2, <2>1, <2>2
<1>4. ASSUME NEW s \in Due(latest_commit + Stride), s > latest_commit
      PROVE  s = latest_commit + Stride
  <2>1. PICK k \in 1..MaxSeq : s = base + k * Stride
    BY DEF Due
  <2>2. j * Stride < k * Stride /\ k * Stride <= j * Stride + Stride
    BY <1>1, <1>2, <1>4, <2>1 DEF Due, Seqs
  <2>3. k = j + 1
    BY <2>2, NextMultiple
  <2> QED BY <1>3, <2>1, <2>3
<1>5. latest_commit + Stride \in Due(latest_commit + Stride)
  <2>1. \E k \in 1..MaxSeq : latest_commit + Stride = base + k * Stride
    BY <1>3, Zenon
  <2>2. latest_commit + Stride <= latest_commit + Stride
    BY <1>2
  <2> QED BY <1>2, <2>1, <2>2 DEF Due
<1>6. Due(latest_commit) \subseteq Due(latest_commit + Stride)
  BY <1>2 DEF Due, Seqs
<1>7. Due(latest_commit + Stride) \subseteq Due(latest_commit) \cup {latest_commit + Stride}
  <2> SUFFICES ASSUME NEW s \in Due(latest_commit + Stride), s # latest_commit + Stride
               PROVE  s \in Due(latest_commit)
    OBVIOUS
  <2>1. s \in Seqs /\ \E k \in 1..MaxSeq : s = base + k * Stride
    BY DEF Due
  <2>2. s <= latest_commit
    BY <1>2, <1>4, <2>1 DEF Seqs
  <2> QED BY <2>1, <2>2 DEF Due
<1> QED BY <1>5, <1>6, <1>7

(* No iteration, no receipt.                                               *)
LEMMA NoneDueAtStart == ASSUME base \in Seqs PROVE Due(base) = {}
<1>1. ASSUME NEW k \in 1..MaxSeq PROVE k * Stride > 0
  OBVIOUS
<1> QED BY <1>1 DEF Due, Seqs

LEMMA InitIInv == Init => IInv
<1> SUFFICES ASSUME Init PROVE IInv
  OBVIOUS
<1>1. TypeOK
  BY DEF Init, TypeOK, Seqs
<1>2. OnStride
  <2>1. latest_commit = base + 0 * Stride /\ 0 \in 0..MaxSeq
    BY <1>1 DEF Init, TypeOK, Seqs
  <2> QED BY <2>1 DEF OnStride
<1>3. WithinLedger /\ WalkIsContiguous /\ \A s \in walked : s <= committed
  BY <1>1 DEF Init, WithinLedger, WalkIsContiguous, TypeOK, Seqs
<1>4. ReceiptsOncePerStride
  BY <1>1, NoneDueAtStart DEF Init, ReceiptsOncePerStride, TypeOK
<1> QED BY <1>1, <1>2, <1>3, <1>4 DEF IInv

LEMMA AskReceiptIInv == IInv /\ AskReceipt => IInv'
<1> SUFFICES ASSUME IInv, AskReceipt PROVE IInv'
  OBVIOUS
<1> USE DEF IInv
<1>0. latest_commit + Stride <= seq /\ seq <= committed /\ latest_commit + Stride \in Seqs
  BY DEF AskReceipt, WithinLedger, TypeOK, Seqs
<1>1. TypeOK'
  BY <1>0 DEF AskReceipt, TypeOK, walkerVars
<1>2. OnStride'
  <2>1. PICK j \in 0..MaxSeq : latest_commit = base + j * Stride
    BY DEF OnStride
  <2>2. (j + 1) * Stride = j * Stride + Stride /\ j * Stride >= j
    OBVIOUS
  <2>3. latest_commit + Stride = base + (j + 1) * Stride /\ j + 1 \in 0..MaxSeq
    BY <1>0, <2>1, <2>2 DEF TypeOK, Seqs
  <2> QED BY <2>3 DEF AskReceipt, OnStride
<1>3. WithinLedger'
  BY <1>0 DEF AskReceipt, WithinLedger, TypeOK, Seqs, walkerVars
<1>4. (\A s \in walked : s <= committed)'
  BY DEF AskReceipt, walkerVars
<1>5. ReceiptsOncePerStride'
  <2>1. latest_commit + Stride <= MaxSeq
    BY <1>0 DEF Seqs
  <2>2. Due(latest_commit)' = Due(latest_commit) \cup {latest_commit + Stride}
    BY <2>1, DueOneMore DEF AskReceipt, Due
  <2>3. latest_commit + Stride \notin Due(latest_commit)
    BY <1>0 DEF Due, TypeOK, Seqs
  <2> QED BY <1>0, <2>2, <2>3 DEF AskReceipt, ReceiptsOncePerStride, TypeOK
<1>6. WalkIsContiguous'
  BY DEF AskReceipt, WalkIsContiguous, walkerVars
<1> QED BY <1>1, <1>2, <1>3, <1>4, <1>5, <1>6

(* The steps that move neither latest_commit nor the receipts asked for.   *)
LEMMA QuietIInv ==
  ASSUME IInv, UNCHANGED <<latest_commit, base, asked>>
  PROVE  OnStride' /\ ReceiptsOncePerStride'
BY DEF IInv, OnStride, ReceiptsOncePerStride, Due

LEMMA VerifierIInv ==
  ASSUME IInv, GetLatestCommit \/ GetLatestCommitFails \/ VerifyReturns \/ VerifierStops
  PROVE  IInv'
<1> USE DEF IInv, GetLatestCommit, GetLatestCommitFails, VerifyReturns, VerifierStops
<1>1. TypeOK'
  BY DEF TypeOK, AsBool, walkerVars
<1>2. WithinLedger'
  BY DEF WithinLedger, TypeOK, Seqs, walkerVars
<1>3. (\A s \in walked : s <= committed)' /\ WalkIsContiguous'
  BY DEF WalkIsContiguous, walkerVars
<1> QED BY <1>1, <1>2, <1>3, QuietIInv

LEMMA NodeIInv == ASSUME IInv, NodeCommits PROVE IInv'
<1> USE DEF IInv, NodeCommits, verifierVars, walkerVars
<1>1. TypeOK'
  BY DEF TypeOK, Seqs
<1>2. WithinLedger'
  BY DEF WithinLedger, TypeOK, Seqs
<1>3. (\A s \in walked : s <= committed)' /\ WalkIsContiguous'
  BY DEF WalkIsContiguous, TypeOK, Seqs
<1> QED BY <1>1, <1>2, <1>3, QuietIInv

LEMMA ProvenanceIInv == ASSUME IInv, Provenance PROVE IInv'
<1> USE DEF IInv, verifierVars
<1>1. CASE ProvenanceBegins
  <2>1. TypeOK' /\ WithinLedger' /\ (\A s \in walked : s <= committed)'
    BY <1>1 DEF ProvenanceBegins, TypeOK, WithinLedger, Seqs
  <2>2. WalkIsContiguous'
    BY <1>1 DEF ProvenanceBegins, WalkIsContiguous, TypeOK, Seqs
  <2> QED BY <1>1, <2>1, <2>2, QuietIInv DEF ProvenanceBegins
<1>2. CASE HandleProvenance
  <2>1. latest \in Seqs /\ latest - 1 \in Seqs /\ left - 1 \in 0..Depth
    BY <1>2 DEF HandleProvenance, TypeOK, Seqs
  <2>2. latest <= committed
    BY <1>2, <2>1 DEF HandleProvenance, WithinLedger, TypeOK, Seqs
  <2>3. TypeOK' /\ WithinLedger' /\ (\A s \in walked : s <= committed)'
    BY <1>2, <2>1, <2>2 DEF HandleProvenance, TypeOK, WithinLedger, Seqs
  <2>4. WalkIsContiguous'
    BY <1>2, <2>1 DEF HandleProvenance, WalkIsContiguous, TypeOK, Seqs
  <2> QED BY <1>2, <2>3, <2>4, QuietIInv DEF HandleProvenance
<1>3. CASE ProvenanceEnds
  <2>1. TypeOK' /\ WithinLedger' /\ (\A s \in walked : s <= committed)' /\ WalkIsContiguous'
    BY <1>3 DEF ProvenanceEnds, TypeOK, WithinLedger, WalkIsContiguous
  <2> QED BY <1>3, <2>1, QuietIInv DEF ProvenanceEnds
<1> QED BY <1>1, <1>2, <1>3 DEF Provenance

LEMMA StepIInv == IInv /\ [Next]_vars => IInv'
<1> SUFFICES ASSUME IInv, [Next]_vars PROVE IInv'
  OBVIOUS
<1>1. CASE UNCHANGED vars
  BY <1>1 DEF vars, verifierVars, walkerVars, IInv, TypeOK, OnStride, WithinLedger,
              ReceiptsOncePerStride, Due, WalkIsContiguous
<1> QED BY <1>1, AskReceiptIInv, VerifierIInv, NodeIInv, ProvenanceIInv DEF Next, Verify

LEMMA Invariance == Spec => []IInv
BY InitIInv, StepIInv, PTL DEF Spec

(* The types hold for every stride, ledger and depth.                      *)
THEOREM TypeCorrect == Spec => []TypeOK
<1>1. IInv => TypeOK
  BY DEF IInv
<1> QED BY <1>1, Invariance, PTL

(* Receipts are asked for once in every stride, none skipped or repeated   *)
(* across calls of Verify, however the ledger grows meanwhile.             *)
THEOREM OncePerStride == Spec => []ReceiptsOncePerStride
<1>1. IInv => ReceiptsOncePerStride
  BY DEF IInv
<1> QED BY <1>1, Invariance, PTL

(* Neither receipts nor versions are asked for beyond the node's commits.  *)
THEOREM NothingBeyondTheLedger == Spec => []OnlyCommittedAsked
<1>1. IInv => OnlyCommittedAsked
  BY DEF IInv, OnlyCommittedAsked, WithinLedger, ReceiptsOncePerStride, Due, TypeOK, Seqs
<1> QED BY <1>1, Invariance, PTL

(* A provenance walk sees one stretch of the ledger although Verify moves  *)
(* latest_commit while it runs.                                            *)
THEOREM WalksAreContiguous == Spec => []WalkIsContiguous
<1>1. IInv => WalkIsContiguous
  BY DEF IInv
<1> QED BY <1>1, Invariance, PTL
=============================================================================
