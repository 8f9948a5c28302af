-------------------------- MODULE MCQueueDelivery --------------------------
(* Instances of QueueDelivery for TLC: rows a1 and a2 of one target, for    *)
(* two variant groups, and row b1 of another target for the first group.    *)
EXTENDS QueueDelivery, TLC

CONSTANTS a1, a2, b1, ta, tb, g1, g2, draft, redrawn, default, tuned

MCTargetOf == [i \in Item |-> IF i = b1 THEN tb ELSE ta]
MCGroupOf  == [i \in Item |-> IF i = a2 THEN g2 ELSE g1]

(* The two rows of one target may be exchanged together with their groups. *)
RowSymmetry ==
  {p \in Permutations({a1, a2, g1, g2}) :
     \/ p[a1] = a1 /\ p[a2] = a2 /\ p[g1] = g1
     \/ p[a1] = a2 /\ p[a2] = a1 /\ p[g1] = g2}
=============================================================================
