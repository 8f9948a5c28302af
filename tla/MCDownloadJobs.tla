--------------------------- MODULE MCDownloadJobs ---------------------------
(* Instances of DownloadJobs for TLC. *)
EXTENDS DownloadJobs, TLC

CONSTANTS s1, s2, wa, wb

(* A batch asks for everything. *)
MCSkusOf == [b \in Batch |-> Sku]

=============================================================================
