------------------------------ MODULE TaskLocks ------------------------------
(***************************************************************************)
(* What the operation queue promises about tasks: an operation holds all   *)
(* of its tasks or none, and no task is held twice.                        *)
(***************************************************************************)
CONSTANTS
  Task,   \* what is locked
  Holder  \* who locks

VARIABLE held  \* [Holder -> SUBSET Task]

TypeOK == held \in [Holder -> SUBSET Task]

Init == held = [h \in Holder |-> {}]

Acquire(h, tasks) ==
  /\ held[h] = {}
  /\ held' = [held EXCEPT ![h] = tasks]
  /\ \A g \in Holder : held[g] \cap tasks = {}

Release(h) == held[h] # {} /\ held' = [held EXCEPT ![h] = {}]

\* Most steps of a queue take and give back nothing; said first, that is cheap to check.
Next ==
  \/ UNCHANGED held
  \/ \E h \in Holder : Release(h) \/ \E tasks \in (SUBSET Task) \ {{}} : Acquire(h, tasks)

Spec == Init /\ [][Next]_held
=============================================================================
