-------------------------- MODULE MCClientProcess --------------------------
(***************************************************************************)
(* An instance of ClientProcess for TLC: replies report one promise or     *)
(* none.                                                                   *)
(***************************************************************************)
EXTENDS ClientProcess, FiniteSets

P == INSTANCE PromiseMap

MCUnverifiedLists ==
  {m \in P!PromiseMaps :
     /\ Cardinality(P!Promises(m)) <= 1
     /\ \A r \in DOMAIN m : DOMAIN m[r] # {} /\ \A b \in DOMAIN m[r] : m[r][b] # {}}
=============================================================================
