----------------------- MODULE MCDownloadIdempotency -----------------------
(* Instances of DownloadIdempotency for TLC. *)
EXTENDS DownloadIdempotency, TLC

CONSTANTS x1, x2, x3

Symmetry == Permutations(Exec)
=============================================================================
