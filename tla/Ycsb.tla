-------------------------------- MODULE Ycsb --------------------------------
(***************************************************************************)
(* The YCSB workload (workload/ycsb/ycsb.cc) from the load to the report,  *)
(* on three kinds of systems:                                              *)
(*   "ccf"      stored procedure: the ycsb endpoint of the CCF application *)
(*              (app.cpp), loaded by initycsb;                             *)
(*   "merkle2"  interactive: dbadapter/merkle2 and the Go client under     *)
(*              dbs/merkle2, loaded by each client's Init;                 *)
(*   "ledger"   interactive: LedgerDB, GlassDB or SQLLedger, of which YCSB *)
(*              sees a status and never a value.                           *)
(* Each client process has a transaction and a verification thread and a   *)
(* log of its own; the logs are what Analyzer reads, at whatever moment the*)
(* processes end.                                                          *)
(*                                                                         *)
(* Keys are numbers written in base Base, strings are sequences of digits  *)
(* and underscores.  Provenance queries are in CcfReceipts.  What a server *)
(* refuses is external, and so is the status of the ledger systems.        *)
(*                                                                         *)
(* Bounds: MaxOps transactions and verifications, times up to MaxTime.     *)
(***************************************************************************)
EXTENDS Analyzer

CONSTANTS
  Clients,    \* the processes' numbers, main.cc's -n
  Base,       \* 10 in the code
  Digits,     \* of the keys of a range, 5 in the code
  RangeSize,  \* rangesize of the configuration
  Spread,     \* what NextTask can add to it, 0 to 9 in the code
  KeysDrawn,  \* the keys the tasks draw
  Preloaded,  \* the keys Merkle2::Init puts are 0..Preloaded-1, 626 in the code
  MaxOps, MaxTime

Power[n \in Nat] == IF n = 0 THEN 1 ELSE Base * Power[n - 1]

RowNum == Power[Digits]

ASSUME YcsbAssumption ==
  /\ Clients \subseteq Nat /\ IsFiniteSet(Clients)
  /\ Base \in Nat \ {0, 1}
  /\ Digits \in Nat \ {0}
  /\ RangeSize \in Nat
  /\ Spread \in Nat
  /\ RangeSize + Spread < RowNum \div Base
  /\ KeysDrawn \subseteq 1..RowNum
  /\ Preloaded \in Nat
  /\ MaxOps \in Nat
  /\ MaxTime \in Nat

VARIABLES
  system,
  now,
  records,   \* the keys of the CCF application's map
  appended,  \* Merkle2's server: key -> what was appended to it
  preload,   \* how many keys each client's Init has put
  alive,     \* which processes have not panicked
  txn,       \* what each transaction thread executes, Idle in between
  verify,    \* the verification threads that are inside Verify
  log        \* each process's log

vars == <<system, now, records, appended, preload, alive, txn, verify, log>>

Idle == [op |-> "none"]

----------------------------------------------------------------------------
(* Strings.                                                                *)

Str[k \in Nat] == IF k < Base THEN <<k>> ELSE Append(Str[k \div Base], k % Base)

(* Comes after the digits, as in ASCII.                                    *)
Underscore == Base

Precedes(s, t) ==
  \/ Len(s) < Len(t) /\ \A i \in DOMAIN s : s[i] = t[i]
  \/ \E i \in DOMAIN s \cap DOMAIN t : s[i] < t[i] /\ \A j \in 1 .. i - 1 : s[j] = t[j]

(* The keys of a range query: strings between two strings.                 *)
InRange_EndExcluded(k, from, to) ==
  ~Precedes(Str[k], Str[from]) /\ Precedes(Str[k], Str[to])

InRange(k, from, to) ==
  ~Precedes(Str[k], Str[from]) /\ ~Precedes(Str[to], Str[k])

RangeResult(from, to) == {k \in records : InRange(k, from, to)}

ClientId_NoSeparator(c) == Str[c]

ClientId(c) == Append(Str[c], Underscore)

(* Put and Get put the client's prefix before every key; Init has put it   *)
(* there already.                                                          *)
StoredKey(c, key) == ClientId(c) \o key

InitKey(c, i) == StoredKey(c, ClientId(c) \o Str[i])

----------------------------------------------------------------------------
Init ==
  /\ system \in {"ccf", "merkle2", "ledger"}
  /\ now = 0
  /\ records = IF system = "ccf" THEN 0 .. RowNum - 1 ELSE {}
  /\ appended = << >>
  /\ preload = [c \in Clients |-> IF system = "merkle2" THEN 0 ELSE Preloaded]
  /\ alive = Clients
  /\ txn = [c \in Clients |-> Idle]
  /\ verify = {}
  /\ log = [c \in Clients |-> << >>]

Operations(c) == Cardinality({n \in DOMAIN log[c] : log[c][n].kind # "keys"})
                   + Counts(txn[c] # Idle) + Counts(c \in verify)

MayBegin == MapThenSumSet(Operations, Clients) < MaxOps

(* Set: the key is registered if it is new, then the value is appended.    *)
Appended(key, value) ==
  [s \in DOMAIN appended \cup {key} |->
     IF s \notin DOMAIN appended THEN <<value>>
     ELSE IF s = key THEN Append(appended[s], value) ELSE appended[s]]

(* A line as main.cc prints it when an operation has ended.                *)
Printed(kind, n, status) == [kind |-> kind, n |-> n, time |-> now, status |-> status]

Tick ==
  /\ now < MaxTime
  /\ now' = now + 1
  /\ UNCHANGED <<system, records, appended, preload, alive, txn, verify, log>>

(* Init, before any thread is started.                                     *)
InitPuts(c) ==
  /\ c \in alive
  /\ preload[c] < Preloaded
  /\ appended' = Appended(InitKey(c, preload[c]), [by |-> c, what |-> "init"])
  /\ preload' = [preload EXCEPT ![c] = @ + 1]
  /\ UNCHANGED <<system, now, records, alive, txn, verify, log>>

Running(c) == c \in alive /\ preload[c] = Preloaded

TxnBegins(c) ==
  /\ Running(c)
  /\ txn[c] = Idle
  /\ MayBegin
  /\ \E op \in {"read", "write", "range"}, k \in KeysDrawn :
       /\ op # "write" \/ system = "ledger" => k = Min(KeysDrawn)   \* its key makes no difference
       /\ txn' = [txn EXCEPT ![c] = [op |-> op, key |-> k]]
  /\ UNCHANGED <<system, now, records, appended, preload, alive, verify, log>>

Statuses_Negative(c) == IF system = "merkle2" /\ txn[c].op = "read" THEN {0, -1} ELSE {0, 1}

(* A CCF request has curl's status whatever the endpoint answers.  Merkle2 *)
(* has no range query, a failing Set does not return, and a Get of an      *)
(* unknown key succeeds.                                                   *)
Statuses(c) == IF system = "merkle2" /\ txn[c].op # "read" THEN {0} ELSE {0, 1}

TxnEnds(c) ==
  /\ c \in alive
  /\ txn[c] # Idle
  /\ \E status \in Statuses(c), done \in BOOLEAN :
       /\ status = 0 => done    \* a request that failed may have been executed
       /\ records' = IF system = "ccf" /\ txn[c].op = "write" /\ done
                       THEN records \cup {txn[c].key} ELSE records
       /\ log' = [log EXCEPT ![c] = Append(@, Printed("txn", 1, status))]
  /\ appended' = IF system = "merkle2" /\ txn[c].op = "write"
                   THEN Appended(StoredKey(c, Str[txn[c].key]), [by |-> c, what |-> "write"])
                   ELSE appended
  /\ txn' = [txn EXCEPT ![c] = Idle]
  /\ UNCHANGED <<system, now, preload, alive, verify>>

(* Register or Append fails: the Go client panics, and the process is gone *)
(* with everything in flight; the value may have been appended.            *)
SetFails(c) ==
  /\ system = "merkle2"
  /\ c \in alive
  /\ preload[c] < Preloaded \/ txn[c].op = "write"
  /\ alive' = alive \ {c}
  /\ \/ UNCHANGED appended
     \/ appended' = IF preload[c] < Preloaded
                      THEN Appended(InitKey(c, preload[c]), [by |-> c, what |-> "init"])
                      ELSE Appended(StoredKey(c, Str[txn[c].key]), [by |-> c, what |-> "write"])
  /\ UNCHANGED <<system, now, records, preload, txn, verify, log>>

(* Merkle2's promises are always none, CCF's one, a ledger's any number.   *)
VerifyBegins(c) ==
  /\ Running(c)
  /\ system # "merkle2"
  /\ c \notin verify
  /\ MayBegin
  /\ verify' = verify \cup {c}
  /\ UNCHANGED <<system, now, records, appended, preload, alive, txn, log>>

(* CCF::Verify, or the client library of a ledger, prints a verifynkeys    *)
(* line, which goes to the same log as main.cc's.  A node                  *)
(* that cannot be reached ends the thread (CcfReceipts).                   *)
VerifyEnds(c) ==
  /\ c \in verify
  /\ \E left \in 0..1, status \in {0, 1} :
       /\ system = "ccf" => left = 1
       /\ system = "ledger" => status = 0
       /\ log' = [log EXCEPT ![c] =
                    @ \o <<[kind |-> "keys"], Printed("verify", left, status)>>]
  /\ verify' = verify \ {c}
  /\ UNCHANGED <<system, now, records, appended, preload, alive, txn>>

Next ==
  \/ Tick
  \/ \E c \in Clients :
       InitPuts(c) \/ TxnBegins(c) \/ TxnEnds(c) \/ SetFails(c) \/ VerifyBegins(c) \/ VerifyEnds(c)

Spec == Init /\ [][Next]_vars

----------------------------------------------------------------------------
(* Properties.                                                             *)

TypeOK ==
  /\ system \in {"ccf", "merkle2", "ledger"}
  /\ now \in 0..MaxTime
  /\ records \subseteq 0..RowNum
  /\ \A s \in DOMAIN appended : \A n \in DOMAIN appended[s] :
       appended[s][n] \in [by : Clients, what : {"init", "write"}]
  /\ preload \in [Clients -> 0..Preloaded]
  /\ alive \subseteq Clients
  /\ verify \subseteq Clients
  /\ \A c \in Clients :
       /\ txn[c] \in {Idle} \cup [op : {"read", "write", "range"}, key : KeysDrawn]
       /\ \A n \in DOMAIN log[c] :
            log[c][n] \in [kind : {"txn", "verify"}, n : 0..1, time : 0..now, status : {0, 1}]
                            \cup [kind : {"keys"}]

(* The Merkle2 server has one name space.  What a YCSB read can find there *)
(* was put by a YCSB write of the same client: no two clients share a key, *)
(* and the keys of Init, which carry the prefix twice, are never read.     *)
ReadsOwnWrites ==
  \A c \in Clients : \A k \in 1..RowNum :
    LET key == StoredKey(c, Str[k])
    IN  key \in DOMAIN appended =>
          \A n \in DOMAIN appended[key] : appended[key][n] = [by |-> c, what |-> "write"]

(* A range query of CCF compares strings.  As long as its end has as many  *)
(* digits as its start, it finds the records between the two numbers, those*)
(* shorter numbers that lie between them when filled up with zeros, and    *)
(* those longer ones whose leading digits do; otherwise it finds nothing.  *)
RangeIsLexical ==
  (\E c \in Clients : txn[c].op = "range") =>
  \A from \in Power[Digits - 1] .. RowNum - 2, width \in RangeSize .. RangeSize + Spread :
    LET to == from + width
        found(k) ==
          LET d == Len(Str[k])
          IN  CASE d = Digits -> from <= k /\ k <= to
                [] d < Digits -> from < k * Power[Digits - d] /\ k * Power[Digits - d] <= to
                [] d > Digits -> LET lead == k \div Power[d - Digits]
                                 IN  from <= lead /\ lead < to
    IN  RangeResult(from, to) = IF to < RowNum THEN {k \in records : found(k)} ELSE {}

(* The logs as run_analyzer.sh concatenates them.                          *)
Lines == FlattenSeq([i \in 1 .. Cardinality(Clients) |-> log[SetToSeq(Clients)[i]]])

(* Both scripts stop reading at the first line beyond the window, though   *)
(* the logs of the processes follow one another: still, every transaction  *)
(* and every verification that ended in the window is counted once and no  *)
(* other, and the scripts differ only in the window and in counting        *)
(* verifications as transactions.                                          *)
WindowIsExact ==
  LET lines == Lines
      ops == {n \in DOMAIN lines : lines[n].kind # "keys"}
      first == Min({lines[n].time : n \in ops})
      open == [process_logs |-> first, process_smallbank |-> first + Warmup]
      close == [process_logs |-> first + Duration, process_smallbank |-> first + 2 * Warmup]
  IN  ops # {} =>
        \A script \in Scripts :
          LET r == Report(script, lines)
              inside == {n \in ops : open[script] <= lines[n].time /\ lines[n].time <= close[script]}
              txns == {n \in inside : script = "process_smallbank" \/ lines[n].kind = "txn"}
          IN  /\ r.total = Cardinality(txns)
              /\ r.success = Cardinality({n \in txns : lines[n].status = 0})
              /\ r.verifs = Cardinality({n \in inside : lines[n].kind = "verify" /\ lines[n].n > 0})
=============================================================================
