------------------------------ MODULE Analyzer ------------------------------
(***************************************************************************)
(* What becomes of the clients' logs after a run: run_analyzer.sh of each  *)
(* workload concatenates the logs of a host and sorts the lines by their   *)
(* third field, the time the operation ended; process_logs.py (YCSB) or    *)
(* process_tpcc.py and process_smallbank.py read the result line by line.  *)
(*                                                                         *)
(* A line is a transaction or a verification, with that time, its status   *)
(* and its first field n, or a "verifynkeys" line, which a verification    *)
(* prints while it runs and which has only two fields.  Left out are the   *)
(* latencies (a list of them is its length) and the number of a verifynkeys*)
(* line with the sum the scripts make of it, which decide nothing else.    *)
(* Warmup is a third of the duration, in the unit of the times.            *)
(***************************************************************************)
EXTENDS Integers, SequencesExt

CONSTANT Warmup

ASSUME WarmupAssumption == Warmup \in Nat \ {0}

Duration == 3 * Warmup

Scripts == {"process_logs", "process_smallbank"}

(* sort -g -k 3: a line without a third field comes before every number.   *)
Before(a, b) ==
  /\ b.kind # "keys"
  /\ a.kind = "keys" \/ a.time < b.time

Sorted_AsWritten(lines) == lines

(* The place of a line: how many lines are not to be after it.  Lines that *)
(* neither comes before the other stay as written: sort would compare their*)
(* text, and nothing here depends on it.  (SortSeq is defined for orders   *)
(* that tell any two different lines apart, which this one does not.)      *)
Place(lines, i) ==
  Cardinality({j \in DOMAIN lines : \/ Before(lines[j], lines[i])
                                    \/ ~Before(lines[i], lines[j]) /\ j <= i})

Sorted(lines) ==
  [n \in DOMAIN lines |-> lines[CHOOSE i \in DOMAIN lines : Place(lines, i) = n]]

Counts(cond) == IF cond THEN 1 ELSE 0

Unset == -1

Begun ==
  [start |-> Unset, end |-> Unset, stopped |-> FALSE,
   total |-> 0, success |-> 0, verifs |-> 0]

(* The window opens at the first line of an operation.                     *)
Opened(script, r, line) ==
  LET first == IF script = "process_logs" THEN line.time ELSE line.time + Warmup
  IN  IF r.start # Unset THEN r
      ELSE [r EXCEPT !.start = first,
                     !.end = first + (IF script = "process_logs" THEN Duration ELSE Warmup)]

(* process_logs leaves verifications out of the transactions, the other two*)
(* do not; all of them count a verification only if promises remain.       *)
Counted(script, r, line) ==
  LET verify == line.kind = "verify"
      txn == script # "process_logs" \/ ~verify
  IN  [r EXCEPT !.total = @ + Counts(txn),
                !.success = @ + Counts(txn /\ line.status = 0),
                !.verifs = @ + Counts(verify /\ line.n > 0)]

Line(script, r, line) ==
  LET s == Opened(script, r, line)
  IN  CASE line.time < s.start -> s
        [] line.time > s.end -> [s EXCEPT !.stopped = TRUE]
        [] OTHER -> Counted(script, s, line)

Step(script, r, line) ==
  IF r.stopped \/ line.kind = "keys" THEN r ELSE Line(script, r, line)

Report(script, lines) ==
  FoldLeft(LAMBDA r, line : Step(script, r, line), Begun, Sorted(lines))
=============================================================================
