--------------------------- MODULE MCCardCreation ---------------------------
(* Instances of CardCreation for TLC. *)
EXTENDS CardCreation, TLC

CONSTANTS e1, e2, r1, r2

Symmetry == Permutations({e1, e2})
=============================================================================
