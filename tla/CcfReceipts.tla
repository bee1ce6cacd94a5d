---------------------------- MODULE CcfReceipts ----------------------------
(***************************************************************************)
(* Deferred verification and provenance in the CCF adapter                 *)
(* (dbadapter/ccf/ccf.cc).                                                 *)
(*                                                                         *)
(* The node's ledger is a growing sequence of committed transactions.  The *)
(* adapter remembers in latest_commit the last one it asked a receipt for; *)
(* Verify reads the node's commit number and asks for the receipt of every *)
(* Stride-th transaction up to it.  CCFPromise::size() is always 1, so the *)
(* verification thread calls Verify in every round.  The transaction thread*)
(* reads latest_commit, without a lock, to walk back through the ledger.   *)
(*                                                                         *)
(* The node is external.  A request for its commit number that fails leaves*)
(* an empty buffer, on which substr throws out of the verification thread; *)
(* a request for a receipt that fails only sets the curl result.  Left out *)
(* are the return of Verify without a curl handle, which the constructor   *)
(* made before any thread started, and the narrowing of latest_commit to   *)
(* int in a provenance query, which tells nothing apart below 2^31.        *)
(*                                                                         *)
(* Bound: the ledger ends at MaxSeq.                                       *)
(***************************************************************************)
EXTENDS Integers

CONSTANTS
  Stride,      \* 160 in the code
  MaxSeq,
  Depth        \* how many versions a provenance query asks for

ASSUME ReceiptsAssumption ==
  /\ Stride \in Nat \ {0}
  /\ MaxSeq \in Nat
  /\ Depth \in Nat

VARIABLES
  committed,      \* the node: sequence number of its last commit
  base,           \* latest_commit when the adapter was constructed
  latest_commit,
  verifier,       \* where the verification thread is
  seq,            \* Verify's local: the commit number it read
  result,         \* Verify's local res: unset, ok or failed
  returned,       \* what the last Verify returned
  asked,          \* history: how often each receipt was asked for
  walker,         \* where a provenance query of the transaction thread is
  latest, left,   \* its locals
  walked          \* history: the transactions the current query asked for

verifierVars == <<latest_commit, verifier, seq, result, returned, asked>>
walkerVars == <<walker, latest, left, walked>>
vars == <<committed, base, verifierVars, walkerVars>>

Seqs == 0..MaxSeq

(* The constructor reads the commit number before any thread is started.   *)
Init ==
  /\ committed \in Seqs
  /\ base = committed
  /\ latest_commit = base
  /\ verifier = "idle"
  /\ seq = 0
  /\ result = "unset"
  /\ returned = "none"
  /\ asked = [s \in Seqs |-> 0]
  /\ walker = "idle"
  /\ latest = 0
  /\ left = 0
  /\ walked = {}

----------------------------------------------------------------------------
(* The node commits transactions of this and of other clients.             *)
NodeCommits ==
  /\ committed < MaxSeq
  /\ committed' = committed + 1
  /\ UNCHANGED <<base, verifierVars, walkerVars>>

----------------------------------------------------------------------------
(* Verify.                                                                 *)

GetLatestCommit ==
  /\ verifier = "idle"
  /\ seq' = committed
  /\ result' = "unset"
  /\ verifier' = "loop"
  /\ UNCHANGED <<committed, base, latest_commit, returned, asked, walkerVars>>

GetLatestCommitFails ==
  /\ verifier = "idle"
  /\ verifier' = "threw"
  /\ UNCHANGED <<committed, base, latest_commit, seq, result, returned, asked, walkerVars>>

AskReceipt_PastEnd ==
  LET i == latest_commit + Stride
  IN  /\ verifier = "loop"
      /\ latest_commit <= seq
      /\ asked' = [asked EXCEPT ![i] = @ + 1]
      /\ result' \in {"ok", "failed"}
      /\ latest_commit' = i
      /\ UNCHANGED <<committed, base, verifier, seq, returned, walkerVars>>

AskReceipt_BeforeEnd ==
  LET i == latest_commit + Stride
  IN  /\ verifier = "loop"
      /\ i < seq
      /\ asked' = [asked EXCEPT ![i] = @ + 1]
      /\ result' \in {"ok", "failed"}
      /\ latest_commit' = i
      /\ UNCHANGED <<committed, base, verifier, seq, returned, walkerVars>>

AskReceipt_RereadsSeq ==
  LET i == latest_commit + Stride
  IN  /\ verifier = "loop"
      /\ i <= committed + 1
      /\ asked' = [asked EXCEPT ![i] = @ + 1]
      /\ result' \in {"ok", "failed"}
      /\ latest_commit' = i
      /\ UNCHANGED <<committed, base, verifier, seq, returned, walkerVars>>

(* One iteration: the loop variable is always latest_commit + Stride.      *)
AskReceipt ==
  LET i == latest_commit + Stride
  IN  /\ verifier = "loop"
      /\ i <= seq
      /\ asked' = [asked EXCEPT ![i] = @ + 1]
      /\ result' \in {"ok", "failed"}
      /\ latest_commit' = i
      /\ UNCHANGED <<committed, base, verifier, seq, returned, walkerVars>>

(* A CURLcode is converted to bool: CURLE_OK is 0, every error is not.     *)
(* With no iteration res was never assigned, and its value is arbitrary.   *)
AsBool(res) ==
  CASE res = "ok" -> {FALSE}
    [] res = "failed" -> {TRUE}
    [] res = "unset" -> BOOLEAN

VerifyReturns_JumpsToSeq ==
  /\ verifier = "loop"
  /\ latest_commit + Stride > seq
  /\ \E b \in AsBool(result) : returned' = IF b THEN "true" ELSE "false"
  /\ latest_commit' = seq
  /\ verifier' = "idle"
  /\ UNCHANGED <<committed, base, seq, result, asked, walkerVars>>

VerifyReturns ==
  /\ verifier = "loop"
  /\ latest_commit + Stride > seq
  /\ \E b \in AsBool(result) : returned' = IF b THEN "true" ELSE "false"
  /\ verifier' = "idle"
  /\ UNCHANGED <<committed, base, latest_commit, seq, result, asked, walkerVars>>

(* The thread finds running cleared between two calls (exps/main.cc).      *)
VerifierStops ==
  /\ verifier = "idle"
  /\ verifier' = "stopped"
  /\ UNCHANGED <<committed, base, latest_commit, seq, result, returned, asked, walkerVars>>

Verify == GetLatestCommit \/ AskReceipt \/ VerifyReturns

----------------------------------------------------------------------------
(* StoredProcedure with kPROVENANCE, HandleProvenance for each version.    *)

ProvenanceBegins ==
  /\ walker = "idle"
  /\ latest' = latest_commit
  /\ left' = Depth
  /\ walked' = {}
  /\ walker' = "walk"
  /\ UNCHANGED <<committed, base, verifierVars>>

HandleProvenance_Rereads ==
  /\ walker = "walk"
  /\ left > 0 /\ latest > 0
  /\ walked' = walked \cup {latest}
  /\ left' = left - 1
  /\ latest' = IF latest_commit > Depth - left THEN latest_commit - (Depth - left) - 1 ELSE 0
  /\ UNCHANGED <<committed, base, verifierVars, walker>>

HandleProvenance ==
  /\ walker = "walk"
  /\ left > 0 /\ latest > 0
  /\ walked' = walked \cup {latest}
  /\ left' = left - 1
  /\ latest' = latest - 1
  /\ UNCHANGED <<committed, base, verifierVars, walker>>

ProvenanceEnds ==
  /\ walker = "walk"
  /\ left = 0 \/ latest = 0
  /\ walker' = "idle"
  /\ UNCHANGED <<committed, base, verifierVars, latest, left, walked>>

Provenance == ProvenanceBegins \/ HandleProvenance \/ ProvenanceEnds

----------------------------------------------------------------------------
Next ==
  NodeCommits \/ Verify \/ GetLatestCommitFails \/ VerifierStops \/ Provenance

(* The verification thread is scheduled; nothing else has to happen.       *)
Spec == Init /\ [][Next]_vars /\ WF_vars(Verify)

----------------------------------------------------------------------------
(* Properties.                                                             *)

TypeOK ==
  /\ committed \in Seqs
  /\ base \in Seqs
  /\ latest_commit \in Seqs
  /\ verifier \in {"idle", "loop", "threw", "stopped"}
  /\ seq \in Seqs
  /\ result \in {"unset", "ok", "failed"}
  /\ returned \in {"none", "true", "false"}
  /\ asked \in [Seqs -> Nat]
  /\ walker \in {"idle", "walk"}
  /\ latest \in Seqs
  /\ left \in 0..Depth
  /\ walked \subseteq Seqs

(* The transactions whose receipts were due between two sequence numbers.  *)
Due(to) == {s \in Seqs : s <= to /\ \E k \in 1..MaxSeq : s = base + k * Stride}

(* Across all calls of Verify, with the ledger growing meanwhile, receipts *)
(* are asked for at exactly one place in every Stride, once each: none is  *)
(* skipped where one call ends and the next begins, and none repeated.     *)
ReceiptsOncePerStride ==
  asked = [s \in Seqs |-> IF s \in Due(latest_commit) THEN 1 ELSE 0]

(* No receipt is asked for, and no version looked up, beyond what the node *)
(* has committed.                                                          *)
OnlyCommittedAsked ==
  /\ latest_commit <= committed
  /\ \A s \in Seqs : asked[s] > 0 => s <= committed
  /\ \A s \in walked : s <= committed

(* The walk sees one consistent stretch of the ledger although Verify moves*)
(* latest_commit while it runs.                                            *)
WalkIsContiguous ==
  walker = "walk" =>
    walked = {s \in Seqs : latest < s /\ s <= latest + (Depth - left)}

(* As long as the thread lives, a receipt that is due is asked for.        *)
ReceiptsEventuallyAsked ==
  \A s \in Seqs :
    (s \in Due(committed)) ~> (asked[s] > 0 \/ verifier \in {"threw", "stopped"})
=============================================================================
