--------------------------- MODULE MCOzonImport ---------------------------
(* Instances of OzonImport for TLC. *)
EXTENDS OzonImport, TLC

CONSTANTS t1, t2, t3

Symmetry == Permutations({t1, t2, t3})
=============================================================================
