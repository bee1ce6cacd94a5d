------------------------ MODULE VerificationLedger ------------------------
(***************************************************************************)
(* What deferred verification promises, with no map, lock or snapshot: the *)
(* server reports promises, the client checks some, and it drops only those*)
(* from its list of outstanding ones that have been checked.               *)
(***************************************************************************)
CONSTANT Promise

VARIABLES outstanding, verified

vars == <<outstanding, verified>>

Init == outstanding = {} /\ verified = {}

Report ==
  /\ outstanding \subseteq outstanding' /\ outstanding' \subseteq Promise
  /\ UNCHANGED verified

Check ==
  /\ verified \subseteq verified' /\ verified' \subseteq Promise
  /\ UNCHANGED outstanding

Drop ==
  /\ outstanding' \subseteq outstanding
  /\ outstanding \ outstanding' \subseteq verified
  /\ UNCHANGED verified

Next == Report \/ Check \/ Drop

Spec ==
  /\ Init
  /\ [][Next]_vars
  /\ \A t \in Promise : (t \in outstanding) ~> (t \in verified)
=============================================================================
