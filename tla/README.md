# VeriBench: a verification development

VeriBench is a benchmark for ledger databases.  A client process drives a
workload (YCSB, SmallBank, TPC-C) against a database through an adapter, and in
the background checks the proofs for what it was told: *deferred verification*.
The TLA+ modules beside this file model the parts of it in which threads,
promises, words of memory or several clients interact.  TLC checks them on small
instances, and TLAPS proves the central properties for every instance.

Paths are relative to `src/`.

## 1. Inventory

| component | source | state | operations |
|---|---|---|---|
| Benchmark driver | `exps/main.cc` | `running`, `task_queue`, the adapter, the workload, the promises, the threads' locals | `main`, `taskGenerator`, `txnThread`, `verifyThread` |
| LedgerDB adapter (GlassDB, SQLLedger: the same code) | `dbadapter/ledgerdb`, `glassdb`, `sqlledger` | `LDBPromise::verify_map` and `lck` | `Begin`, `Commit`, `Abort`, `Get`, `Put`, `Range`, `Provenance`, `Verify`, `Merge` |
| SmallBank | `workload/smallbank` | none (a random generator) | `NextTask`, `ExecuteTxn` and its six transactions |
| CCF adapter | `dbadapter/ccf/ccf.cc` | `latest_commit` | `GetLatestCommit`, `Verify`, `StoredProcedure`, `HandleProvenance` |
| CCF application | `dbadapter/ccf/conf/cpp/app/app.cpp` | the `RECORDS` table of the node | `initsb`, `sb_*`, `tpcc*`, `ycsb*`, `get_historical` |
| TPC-C | `workload/tpcc` | none (a random generator) | five transactions, interactive or stored |
| YCSB | `workload/ycsb` | none (a random generator) | `NextTask`, `ExecuteTxn`, `StoredProcedure`: read, write, range, provenance |
| Merkle2 adapter and Go client | `dbadapter/merkle2`, `dbs/merkle2/include` | the client's prefix; the Go side's handle table | `Init`, `Put`, `Get`, `Verify`; `createMerkleClient`, ... |
| Log analyzers | `analyzer` | the window and the counts of one pass | sort the logs of a host, read them line by line, report |
| QLDB adapter | `dbadapter/qldb` | a promise map it never fills | forwards |
| Experiment scripts | `exps/*.sh`, `dbadapter/*/conf` | the processes of a cluster | start, wait, stop |

**How they interact.**  `main` creates one adapter, one workload and one promise
object and starts `nThread` generators, one transaction thread and one
verification thread.  Generators put tasks into the queue; the transaction thread
takes them and calls `ExecuteTxn` (interactive: the workload calls
`Begin`/`Get`/`Put`/`Commit` of the adapter) or `StoredProcedure` (one request).
With the LedgerDB family, the reply to a commit or a range query carries keys whose
proofs are still to come; `Merge` adds them to `verify_map`.  The verification thread
calls `Verify` of the adapter on the same objects.  With CCF there is no map:
`Verify` asks the node for the receipt of every 160th transaction.  The client
libraries (strongstore, curl, the node) are not in the repository.  Every operation and every
verification ends as a line of the client's log, and after a run the analyzers sort the logs of a host
into one and count the lines inside a window of time.

**What is hard.**  Two threads share the adapter and the promises, and `Verify`
lets go of the lock in the middle.  `running` is a plain flag tested and acted upon
in separate steps, and the end of a run is the order in which C++ destroys a few
locals.  Exceptions end a thread silently.  Several client processes share a store
that validates optimistically.  The stored procedures store balances as text, read
them with `stoul` into 32-bit words in one endpoint and with `stoi` in another, and
reimplement the transactions that also exist interactively.  `CCF::Verify` and
provenance queries share `latest_commit` without a lock.  The interactive TPC-C transactions read in
batches, and compute the keys of one batch from the rows of the one before while other clients
commit.  YCSB keys are numbers turned into text, compared as text, and prefixed with a client's number.

**What makes each part correct.**

* adapters: every promise the server makes is checked in the end; nothing is erased
  unchecked; a copy in progress is not invalidated by a merge;
* driver: every client exits, no thread uses an object that `main` has destroyed, work done
  after the stop is bounded, and what is left unverified at the end is only what came last;
* SmallBank: the interleaved transactions are serializable, and a decision made on a
  balance still holds at commit;
* CCF receipts: exactly one receipt per stride across all calls, and a provenance walk
  sees one stretch of the ledger;
* CCF application: a record is the exact balance as far as the words allow, and a stored
  procedure does what the interactive transaction of the same name does;
* TPC-C: order numbers are dense per district, stock and money are accounted for, an
  interactive order is as atomic as a stored one, and a reader finds the rows it follows
  a number to;
* YCSB and Merkle2: no two clients share a key of a server with one name space, and a range
  of strings is what it should be of numbers;
* analyzers: every operation that ended in the window is counted once.

The hazards, each at its line, are in `PROJECT.json`.

## 2. Modules

A name with an underscore and a word after an operator's name (`Merged_KnownBlockDropsNew`,
`GeneratorCheck_Ignored`) is a deliberately *wrong variant* of that operator, the change a
plausible bug would make.  Nothing uses it in the specification; `PROJECT.json`
pairs each property with a variant that TLC must find it violated by, which shows that
the property is sensitive to the code.

| module | extends / instantiates | what it is |
|---|---|---|
| `PromiseMap` | | the nested maps of `LDBPromise` and the two updates of them |
| `VerificationLedger` | | abstract: promises are reported, checked, and dropped only after that |
| `LedgerDB` | `PromiseMap`; implements `VerificationLedger` | `Merge` against the four steps of `Verify` |
| `Driver` | | the threads of one client, clock, queue, exceptions, destruction |
| `ClientProcess` | `Driver`, `LedgerDB` | the two composed |
| `SmallBank` | | the transactions as functions of what they read |
| `AtomicBank` | `SmallBank` | abstract: whole transactions, one at a time |
| `SmallBankClients` | `SmallBank`; implements `AtomicBank` | several clients on an optimistic store |
| `CcfBank` | `SmallBank`; compared with `AtomicBank` | the `sb_*` endpoints on words |
| `CcfTpcc` | | the `tpcc*` endpoints on tables |
| `TpccClients` | `CcfTpcc` | the same workload in either mode: interactive clients on the same tables |
| `Analyzer` | | the sort and the pass over the lines, as pure operators |
| `Ycsb` | `Analyzer` | YCSB on three kinds of systems, with the logs its clients leave |
| `CcfReceipts` | | `CCF::Verify` and provenance against a growing ledger |
| `MC*` | | instances for TLC |
| `*Proofs` | | theorems, checked by tlapm |

### LedgerDB (and GlassDB, SQLLedger)

`verify_map` is a partial function from replicas to partial functions from blocks to
sets of keys, as in the code.  `Merged` is `LedgerDB::Merge` in one expression: the
code's three branches (replica known or not, block known or not) are the cases where
one side of each union is empty.  `Erased` is the second critical section of
`Verify`, which erases whole blocks and a replica that has none left.

`Verify` is four actions, cut where it takes and drops the lock: `VerifyCall` (the test of
`size()`, line 89), `VerifyCopy`, `VerifyClient` (the request, without the lock) and
`VerifyErase`.  Each critical section is one action since both threads take `lck`.
`size()` is read without it; since it is compared with zero only, it cannot tell a half
done `Merge` from a finished one.  `Commit` is any server list followed by `Merge`, also
when the commit was refused, and `Range` is the same action.  `client->Verify`'s result is
ignored by the code and so has no part in the model: no property here is about a proof that
fails, because nothing in the code follows from it.

`late` is a history variable: the promises merged into a block that a running `Verify`
has already copied and will erase whole, and not reported again since.  `ImplementsLedger` is the refinement of
`VerificationLedger`: the ledger's outstanding promises are those the adapter holds and that
are not late.  A server that reports a block only when it is full never makes a late one;
`SealedSpec` is the adapter with such a server.

### Driver

`main`, each generator, the transaction and the verification thread have a program
counter whose steps are the reads and writes of shared state.  `limit` is
`duration*1000000`: an `int` product, so on overflow the wrapped or the exact value.  `Tick`
only advances the clock: that nobody sets it back during a run is an assumption.  The
destructors run in C++ order: the futures (which wait), `wl`, `db`, then the static
promises.  A thread that throws ends and its future keeps the exception.
`VerifierThrows` and `TxnThrows` need `MayThrow`.

### ClientProcess

Instances of the two above: `Merge` only while the transaction thread executes, the steps
of `Verify` only inside the verification thread's call, the call only after
`promises->size()` was not zero, and an exception only from the request to the server.  The size is
read again on entering `Verify` (`VerifierEnters`), again without the lock; `entered` says that this
has happened, so that merges fall between the two reads.  `fresh` is a history variable: what was merged
since `Verify` last copied the map.  `OnlyFreshLeft` says that a verification thread which came to its
end leaves no call half done and no other promise behind; the code verifies nothing after the stop, so
that these are never checked.

### SmallBank, SmallBankClients

`SmallBank` gives, per operation, the keys it reads, whether it reaches its commit, and
what it puts.  The puts are applied in the order of the code, so that a payment to
oneself keeps the later put, as the buffered writes do.  `SmallBankClients` runs them in
several clients: `Begin`, a `Read` per key (the keys of a batch are on different shards),
then `Commit`, `Conflict` or `ReturnUncommitted` (GetBalance always, WriteCheck when not
covered).  `GetFails` is a batch that fails or lacks a value: GetBalance returns when the status is
not zero; with a value missing, and in all other transactions, `stoi` runs on an empty string and the
thread ends (`Die`).  The store is external:
its rule (a commit is accepted iff each version read is current) is the meaning of the
`MODE_OCC` the adapter is constructed with.

### CcfBank

One request is one action, because CCF executes an endpoint as a transaction.  A record is
the number its text denotes.  `Stoul`, `StoiThrows`, `AsInt` and `Written` model the
conversions for an `int` from `-IntMax - 1` to `IntMax` and an `unsigned int` of as many numbers; `ideal` is the history of exact balances.  A request that throws
leaves no write, and the adapter returns 0, the status of curl, all the same.
`initsb` loads 0..99999 and tasks draw 1..100000: an account that is not `Loaded` has no
record.

### CcfTpcc

The code keeps each row as comma separated text under a composed key.  Here each kind of row is a
table of its own (`stock`, `orders`, `orderLines`, ...), with the columns that change; taxes and
discounts, which never do, are left out of an order line's amount, and money counts from the loaded
values.  `NewOrder`, `Payment` and `Delivery` are one action each, with every put of the endpoint;
`OrderStatus` and `StockLevel` put nothing, so that only the condition under which they miss a row is
modelled (`OrderStatus` then takes a missing line for an empty one, `StockLevel` reports an error).  A
request that fails changes nothing, which is a stutter, or is lost on its way back, which is the same
step: unlike in `CcfBank` no property is about its status.  The put of a later line wins over that of an earlier one (`StockPuts`).  The loaded tables
are not in the repository; since `Delivery` begins at order 1 of each district, the model begins
before that order is entered.  `committed` is a history variable: the payments a client was told
are committed.  The clock is the system's, which can stand still and be set back.

### TpccClients

`mode` is `main.cc`'s option.  In mode `stored` the steps are those of `CcfTpcc`.  In mode `interactive`
each client runs one transaction at a time: `Begin`, a `Read` per row of the present batch (rows are on
different shards), `NextBatch`, and one of the commits, each with every put of the function.  `Batch`
computes the rows of a batch from what the client has seen, as the code does; `ReturnsEarly` is the test
for an empty row between batches, `GetFails` a batch that fails: where the code converts the fields
of an empty row it throws and the thread is `Dead`.  The store is that of `SmallBankClients`: `version`
counts the puts of a row, a commit is accepted iff every version read is current.  Rows no interactive
transaction changes (taxes, prices, and `next_d`, as `execDelivery` never puts) have no version and are
read as they are.  `CommitNewOrder` uses `PutOrder` of `CcfTpcc` with the numbers and quantities *read*;
`CommitPayment` and `CommitDelivery` put nothing, because the code calls `Commit` without `Put`.

### Ycsb and Analyzer

`system` chooses between the three families of adapters: the CCF endpoint (a map of all keys), Merkle2
(one name space on the server, two prefixes on the keys of `Init`), and the ledger systems, which answer
YCSB with a status.  Numbers become strings of digits (`Str`), and `Precedes` is `std::string::compare`.
A client's log grows by a line per operation and by two per verification, the first of which
(`verifynkeys`) has no time.  `SetFails` is the Go client's panic, which ends the process anywhere.

`Analyzer` is what happens to the logs: `Sorted` is `sort -g -k 3` and `Report` the pass of
`process_logs.py` or of the SmallBank and TPC-C scripts (one model: they have the same loop), as a fold
over the lines.  The properties compare it at every reachable moment with a definition by sets:
what ended in the window, in any process's log.  Lines with the same time, which `sort` orders by their text, stay as written;
no property depends on their order.  The lines without a time come first, and the number of keys on
them, with the sum the scripts make of it, is left out (see section 4).

### CcfReceipts

`AskReceipt` is one iteration of the loop in `Verify`: `latest_commit` is written in each,
and the transaction thread's provenance query may read it between any two.  The result
of a call is the conversion of a `CURLcode` to `bool`, or an uninitialised variable when no
iteration ran.  Left out: the return of `Verify` without a curl handle, which the constructor made
before any thread started, and the narrowing of `latest_commit` to `int` in a provenance query.  A request
for a receipt that failed counts as asked, as in the code: `latest_commit` has moved on.

## 3. Runs

| run | question | result |
|---|---|---|
| `ledgerdb_window` | Merge against every step of Verify, two replicas, one block, two keys | what is neither held nor checked is late; a copy stays intact; but for late promises the adapter implements the abstract ledger, its leads-to included |
| `ledgerdb_loss` | the same, no promise excepted | **violated**: a promise is erased unchecked |
| `driver_threads` | two generators, both threads, exceptions, a duration whose product overflows | ends, in the right order, whatever the product becomes |
| `driver_hang` | does every client exit? | **violated**: not when the transaction thread throws |
| `client_process` | driver and adapter together | `Verify` never reports a failure; while running each promise is checked; what is left at the end is only what came since the last copy |
| `smallbank_clients` | two clients, two transactions each, all operations | serializable; checks covered |
| `ccf_receipts` | eight transactions, a receipt every third, walks of depth three | once per stride; contiguous walks |
| `ccf_words` | four-bit words, two loaded accounts and a missing one | congruent modulo the width, exact until an overdraft, throws only after one; four endpoints agree with the interactive transactions |
| `tpcc_clients` | stored: new orders, payments and deliveries in any order, two warehouses, two districts, two customers, two items; interactive: two clients, seven kinds of tasks | dense order numbers, deliveries in order, money and stock accounted for, status and history as far as their rows go; an interactive commit is an atomic `NewOrder`; readers meet no gap |
| `tpcc_interactive` | does a committed interactive payment count? | **violated** |
| `ycsb` | two processes on each kind of system, three operations, panics; the logs analyzed at every moment | names do not clash, ranges are lexical, the window is exact |
| `ccf_drift` | do all endpoints agree? | **violated**: UpdateSaving in the trace found; with `Ops = {"WC"}` TLC finds WriteCheck |

**Bounds and why they are enough.**  *LedgerDB*: the actions treat replicas and blocks
independently of each other, so two of one and one of the other suffice for a replica or a
block to be left, erased or shared while another one is not; two keys are needed for one to
be copied and the other late.  Server lists of up to two promises include lists with
empty blocks, empty replicas and nothing.  *Driver*: a queue of `MaxQueue` stands for every
longer one (a pop may leave it at the bound); the largest `int` is 1 and the
product 2, so that the limits 2 and, wrapped, -2 both occur; `MaxTime` exceeds the limit, so that the clock
can pass it; two generators suffice for one to be behind the other.  *SmallBankClients*: two
accounts allow the same account twice, and all conflicts of two batches; a conflict needs two
transactions, and a second one per client lets a client start on what another one committed.
*CcfBank*: with four bits one overdraft and one wrap are two requests away; five requests let
an overdrawn account be read by every endpoint.  *TpccClients*: two interactive transactions at a time are
what it takes to race for an order number, a stock row or a batch; the third and the fourth let a reader
follow orders that others have put; the tasks meet in one district of one warehouse.  The window of
`StockLevel` is shortened to two orders, so that both a district with too few and one with enough occur.
*Stored*: `MaxPosts` new orders and payments together; three let a district have an order more
than the (shortened) window of `StockLevel`, two districts have orders pending together, and two
payments meet in one millisecond.  The item lists of `MCTpccClients` take exactly what is left of a stock,
name an item twice and order from another warehouse.  *CcfReceipts*: eight over three leaves a
remainder, and the constructor may start anywhere, also past the last stride.  *Ycsb*: digits in
base three and two of them give keys with fewer, as many and more digits than the ends of a range; the clients 1 and 4 are
chosen because 4 is `11` in base three, so that a prefix without the separator would clash; times up to four and a
window of one to three let lines fall before, on and after each edge.

**Fairness.**  `LdbSpec`: weak fairness of `Verify`, because the verification thread runs it in a
loop (`main.cc:66`) and every lock is held for a bounded time.  None of `Commit`.  `DriverSpec`:
weak fairness of each thread and of the clock; none of exceptions, nor of a transaction being any
particular one.  A call of the client library is assumed to return or to throw.  `CcfReceipts`:
weak fairness of `Verify` only; a failed request or the end of the run excuses it, as the property
says.  `SmallBankClients`, `CcfBank`, `TpccClients` and `Ycsb` have safety properties only: the code promises
no progress when a commit is refused.

`CHECK_DEADLOCK FALSE` where the system really stops: a client that has exited, transactions or
requests used up, the verification thread gone and the ledger at its bound.

## 4. Findings

1. **A promise can be lost** (`ledgerdb.cc:110`).  `Verify` erases the *blocks* it copied, not the
   keys; a key that `Merge` added to one of those blocks meanwhile is gone, never verified.
2. **A client hangs when its transaction thread throws** (`main.cc:99`): `running` stays true.
3. **Stored and interactive SmallBank differ** (`app.cpp:687` and `app.cpp:734`): `sb_updatesav` adds to
   the checking record; `sb_writecheck` takes one more than the check when funds suffice.
4. **Interactive TPC-C payments and deliveries change nothing** (`tpcc.cc:280`, `tpcc.cc:431`): the rows are
   computed and collected, but `Put` is never called.

Seen while modelling, and stated without a run because the expression itself is the whole matter:
`CCF::Verify` returns a `CURLcode` as `bool` (`ccf.cc:84`), so that `CURLE_OK` becomes `false` and is logged as a
failed verification, and with no receipt due it returns an uninitialised variable (`AsBool` of `CcfReceipts`).
All verifications of a host are counted with the number of keys on one line (`process_logs.py:25`),
because the sort moves the `verifynkeys` lines, which have no third field, before all others; among themselves
it orders them by their text, so that this line is neither the last written nor the largest (9 comes after 10).
From 2148 seconds on, `duration*1000000` no longer fits an `int` (`main.cc:116`); with the wrapped value the run
ends at its first check of the time.  In `Driver` this is a value of `limit`, and the run `driver_threads` shows
that such a client still shuts down in order.

## 5. Proofs

All theorems hold for any constants that satisfy the named assumptions (`UnverifiedListsAssumption`,
`DriverAssumption`, `ClientAssumption`, `SmallBankAssumption`, `ReceiptsAssumption`,
`CcfBankAssumption`, `TpccAssumption`, `YcsbAssumption`, and a `ClientsAssumption` in each module of several clients), which TLC evaluates in the runs.
Where something is summed or sorted, they say that the sets of clients, districts and customers are finite.

**`LedgerDBProofs`.**  `LossNeedsTheWindow`: `LdbSpec => []LossOnlyWhenLate`;
`CopiedPromisesStay`: `LdbSpec => []SnapshotStillHeld`; `SealedLosesNothing`: `SealedSpec =>
[]NoPromiseLost`; and `AdapterImplementsLedger`: every step of the adapter is a step of the ledger
or a stutter.
`LossOnlyWhenLate` is not inductive: `VerifyErase` removes promises from the map, and to see that each
was verified or late one must know that in phase `erase` the snapshot has been verified, and
that every promise held in a copied block is in the snapshot or late.  The invariant adds these two
and `SnapshotStillHeld`, without which the erase could touch what was not copied.  They rest on
lemmas about `Merged` and `Erased`: which promises are in the result.

**`DriverProofs`.**  `TypeCorrect`; `NothingUsedAfterDestroy`, whose invariant says that `main` is past
its join only if every thread has ended and that nothing is destroyed earlier; `AtMostOneMoreRound`,
whose invariant ties each counter to the thread's position (a thread that has counted one round after
the stop is back at its check, or done).

**`SmallBankClientsProofs`.**  `ClientsSerializable`: `Spec => Serializable`, for any number of clients.  Its
invariant is the types and that equal versions name equal values, a fact about the assumed store.  A `Commit` whose
reads are current computed with the present values, hence is one step of `AtomicBank`; every other
action leaves the store alone.  `AcceptedChecksAreCovered` (`Spec => ChecksAreCovered`) is a step
property from the same invariant.

**`CcfReceiptsProofs`.**  `TypeCorrect`, `OncePerStride`, `NothingBeyondTheLedger`, `WalksAreContiguous`.
The invariant adds that `latest_commit` is a whole number of strides after `base` and that neither it,
nor Verify's copy of the commit number, nor a walk is beyond the node.  That one more iteration
makes exactly one more receipt due (`DueOneMore`) comes down to there being no multiple of the
stride between two neighbouring ones (`NextMultiple`).

**`ClientProcessProofs`.**  `ClientIsLedger` and `ClientIsDriver`: every step of the composition is a step
of either part or a stutter, so that the invariants of both carry over (`ClientLosesOnlyLate`).
`VerifyNeverFails`: `Spec => []VerifyNeverReportsFailure`, whose invariant is that a thread that has seen a
size that is not zero and has not yet entered still finds one, because only that same thread erases.
`OnlyFreshIsLeft`: `Spec => []OnlyFreshLeft`, whose invariant is that a call of `Verify` is in progress only while
the verification thread is in it, and that whatever is held is fresh or in the copy whose blocks the call in progress
is going to erase (`LeftIsFresh`).

**`CcfBankProofs`.**  `TypeCorrect`, `AlwaysCongruent`, `ExactBeforeOverdraft`, `ErrorsNeedOverdraft`,
`FourProceduresAgree`, for every width.  The inductive invariant is `TypeOK`, `CongruentToIdeal` and "until an
overdraft every exact balance is in `0..IntMax`"; with it two numbers of that range that are congruent
are equal, which gives exactness.  The provers know little of `%`: the lemmas
about congruence (sums, differences, the two conversions) are proved from the defining equation of
the remainder.

**`TpccClientsProofs`.**  Of `CcfTpcc`, each endpoint keeps `TInv`: the columns' types, dense orders and lines,
`DeliveredInOrder`, the newest order per customer, the history.  Of `ClientsSpec`, for any number of clients and in
both modes: `OrdersStayDense`, `DeliveriesKeepOrder`, `HistoryIsComplete`, `NewestIsFound`, and
`InteractiveOrdersAreAtomic`: a commit changes the tables as `NewOrder` would at that moment.  Its invariant
(`AInv`) says that a row whose version has not changed since it was read has the value that was read (`Fresh`); a
commit whose versions are current has therefore computed with present numbers.  `ReadersFindTheirRows`
(`ClientsSpec => []ReadersMeetNoGap`) is about readers who do *not* validate: `RInv` adds what a client knows of each
row it has read (a district's number is at most the present one, an order read is there with the same count) and what
it has read before it came to its batch.  Both survive the commits of others because numbers only grow and orders are
never removed (`Grows`).
`MoneyAlwaysAddsUp` and `StockAlwaysAccounts` are about sums over tables.  Induction over a finite set is stated as a
fact about a set of its subsets, which needs no operator as a parameter; from it follow the existence of sums, and
what adding, changing or moving one row does to them.  The invariant `MInv` is `TInv`, the types, finite tables and
the two equations together: that a delivery charges a customer what the lines of the order cost needs the lines of
`TInv`, and that the stock moves by the sold quantity up to a multiple of 100 needs its types.  In the interactive
mode the same follows from `OrdersAreAtomic`.  `ClientsAreTyped` adds the types of what clients have read.

**`YcsbProofs`.**  `TypeCorrect`; `KeysArePrivate` and `RangesAreLexical`, which rest on what the recursive functions
`Str` and `Power` compute for *every* number.  The provers do not know that a recursive function exists; `Recursion`
shows it once, for functions whose value depends on one smaller argument, by an induction stated as a fact about a set
of numbers.  For `KeysArePrivate` strings of digits are injective and the separator is the first one in the key, so
that a key determines its client; the invariant `Traced` says that a value on the server is under a key that the client
named in it made.  For `RangesAreLexical` the order of two strings is the order of the numbers once the shorter one is
filled up with zeros (`OrderIsNumeric`, by induction on the sum of the two numbers).

`WindowsAreExact` is about the logs of any number of clients.  Ranking the lines by their place is
a bijection (`PlaceIs`, `SortedIs`), so that any set of lines has as many members after the sort as before.  Sorted
lines begin with all the verifynkeys lines, which leave the report as it is, and go on in the order of their times (`InOrder`); `Kept` says what the
report is after each further line: the counts of the lines read that lie in the window, and, once the script has
stopped, that a line beyond the window has been read, so that no later one lies in it.  That `FoldLeft` and
`FlattenSeq` compute what their definitions say is proved by the same induction.

**Model-checked only.**  The liveness properties (`ExitsUnlessTxnThrew`, `VerifiedUnlessStopped`,
`ReceiptsEventuallyAsked`, the leads-to of `ImplementsLedger`): they rest on fairness, which is outside the prover's
reach.  Every other property of a passing run is a theorem.

## 6. Not modelled

* QLDB: it forwards, and never fills its map, so that `Verify` is never called.
* The JavaScript CCF application: two stateless handlers the adapter does not call.
* `inittpcc` loads files that are not in the repository; `get_historical` reads the node's ledger and changes nothing.
* The test program under `dbadapter/ccf/conf/script/cpp`: a straight line of requests.
* The Go client's handle table: each process makes one object and frees it at exit.
* The scripts that add up results of several hosts and print them; shell scripts and configuration: I/O.
* The interior of the client libraries, and what two threads calling one client object at once do to it.
* Whether a proof that the server sent is right: the adapters of the LedgerDB family ignore the result of
  `client->Verify`, and `CCF::Verify` does not look at the receipt.
* The number of keys on `verifynkeys` lines and its sums.
* A clock that is set back while a client runs; how long the task queue grows (`MaxQueue` stands for any length).
* Option parsing, logging, log formats, and the random and Zipf distributions.

## 7. Plan

1. Deferred verification: `PromiseMap`, `VerificationLedger`, `LedgerDB` -- done, proved.
2. The driver and the composed client: `Driver`, `ClientProcess` -- done, proved.
3. SmallBank: `SmallBank`, `AtomicBank`, `SmallBankClients` -- done, proved.
4. CCF: `CcfReceipts`, `CcfBank` -- done, proved.
5. TPC-C: `CcfTpcc`, `TpccClients` -- done, proved.
6. Merkle2 and YCSB: `Ycsb` -- done, proved.
7. The analyzers: `Analyzer` -- done, checked on the logs `Ycsb` produces and proved in `YcsbProofs`.
8. Left: a crash and restart of a CCF node, once its persistence is part of
   the repository.
