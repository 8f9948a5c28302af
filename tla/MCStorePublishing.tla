------------------------- MODULE MCStorePublishing -------------------------
(* Instances of StorePublishing for TLC. *)
EXTENDS StorePublishing

CONSTANTS main, other
=============================================================================
