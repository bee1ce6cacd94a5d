---------------------------- MODULE MCLedgerDB ----------------------------
(***************************************************************************)
(* Instances of LedgerDB for TLC.  A reply reports at most two promises:   *)
(* two keys of a block, keys of two blocks or replicas, a block with       *)
(* no key, a replica with no block, or nothing at all.                     *)
(***************************************************************************)
EXTENDS LedgerDB, Naturals, FiniteSets

MCUnverifiedLists ==
  {m \in PromiseMaps : Cardinality(Promises(m)) <= 2}

=============================================================================
