------------------------ MODULE MCReviewOperations ------------------------
(* Instances of ReviewOperations for TLC: two tasks, a review row and a    *)
(* pending row of the first and a pending row of the second, an approval,  *)
(* a batch over both tasks and a retry of the second.                      *)
EXTENDS ReviewOperations, TLC

CONSTANTS t1, t2, review1, pending1, pending2, approve1, batch12, retry2

MCTask == {t1, t2}
MCDocTask == [d \in Doc |-> IF d = pending2 THEN t2 ELSE t1]
MCKindOf == [r \in Request |-> CASE r = approve1 -> "APPROVE"
                                 [] r = batch12  -> "BATCH"
                                 [] OTHER        -> "RETRY"]
MCSubjectsOf == [r \in Request |-> CASE r = approve1 -> {t1}
                                     [] r = batch12  -> {t1, t2}
                                     [] OTHER        -> {t2}]
MCDocsOf == [r \in Request |-> Doc \cap CASE r = approve1 -> {review1}
                                          [] r = batch12  -> {pending1, pending2}
                                          [] OTHER        -> {}]
MCUnitsOf == [r \in Request |-> IF r = batch12 THEN 2 ELSE 1]

(* Idempotency-Keys are only compared: which is which never matters. *)
KeySymmetry == Permutations(Key)
=============================================================================
