---------------------------- MODULE PromiseMap ----------------------------
(***************************************************************************)
(* The containers in which an adapter keeps what it still has to verify:   *)
(*                                                                         *)
(*   std::map<int, std::map<uint64_t, std::set<std::string>>> verify_map   *)
(*                                                                         *)
(* (LDBPromise, dbadapter/ledgerdb/ledgerdb.h) maps a replica to the       *)
(* blocks it promised, and a block to the keys promised in it.  A promise  *)
(* map is a partial function to partial functions to sets; one promise is  *)
(* a triple <<replica, block, key>>.  This module has no state: it defines *)
(* the values and the two updates that ledgerdb.cc makes to them.          *)
(***************************************************************************)
CONSTANTS Replica, Block, Key

PartialFns(D, R) == UNION {[S -> R] : S \in SUBSET D}

PromiseMaps == PartialFns(Replica, PartialFns(Block, SUBSET Key))

Triples == Replica \X Block \X Key

EmptyMap == [r \in {} |-> {}]

Blocks(vm, r) == IF r \in DOMAIN vm THEN DOMAIN vm[r] ELSE {}

Keys(vm, r, b) == IF b \in Blocks(vm, r) THEN vm[r][b] ELSE {}

(* The promises held in a map.                                             *)
Promises(vm) == {t \in Triples : t[3] \in Keys(vm, t[1], t[2])}

(* The promises of the blocks a map mentions, whichever the keys.          *)
Covered(vm) == {t \in Triples : t[2] \in Blocks(vm, t[1])}

(* Two ways to get the branch of a known block wrong, which the runs must  *)
(* tell from the code: map::emplace on a known block keeps the old keys    *)
(* only, and an assignment keeps the new ones only.                        *)
Merged_KnownBlockDropsNew(vm, newmap) ==
  [r \in DOMAIN vm \cup DOMAIN newmap |->
     [b \in Blocks(vm, r) \cup Blocks(newmap, r) |->
        IF b \in Blocks(vm, r) THEN Keys(vm, r, b) ELSE Keys(newmap, r, b)]]

Merged_KnownBlockOverwritten(vm, newmap) ==
  [r \in DOMAIN vm \cup DOMAIN newmap |->
     [b \in Blocks(vm, r) \cup Blocks(newmap, r) |->
        IF b \in Blocks(newmap, r) THEN Keys(newmap, r, b) ELSE Keys(vm, r, b)]]

(* LedgerDB::Merge: every replica and block of either map, with the keys   *)
(* of both.  The three branches of the code (replica known or not, block   *)
(* known or not) are the cases in which one of the two sides is empty.     *)
Merged(vm, newmap) ==
  [r \in DOMAIN vm \cup DOMAIN newmap |->
     [b \in Blocks(vm, r) \cup Blocks(newmap, r) |->
        Keys(vm, r, b) \cup Keys(newmap, r, b)]]

(* The second critical section of LedgerDB::Verify: whole blocks of the    *)
(* snapshot are erased, and a replica of the snapshot left without a block *)
(* is erased too.                                                          *)
Remaining(vm, snapshot, r) == Blocks(vm, r) \ Blocks(snapshot, r)

(* A way to get it wrong: the erase works on a copy of the map.            *)
Erased_FromACopy(vm, snapshot) == vm

Erased(vm, snapshot) ==
  [r \in {q \in DOMAIN vm :
            q \in DOMAIN snapshot => Remaining(vm, snapshot, q) # {}} |->
     [b \in Remaining(vm, snapshot, r) |-> vm[r][b]]]
=============================================================================
