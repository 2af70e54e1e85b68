------------------------------ MODULE MCAccess ------------------------------
EXTENDS Access, TLC

CONSTANT p1

(* The principal has the scope of one of the two routes. *)
OneScope == (p1 :> {"predictive"})

Symmetry == Permutations(Requests) \cup Permutations(Revocations)
=============================================================================
