--------------------------- MODULE DeliveryPromise ---------------------------
(***************************************************************************)
(* What a user may rely on about rows that are delivered to queues: a row   *)
(* is delivered at most once, and reports about it, which may change from   *)
(* one try to the next, never contradict what has happened to it.           *)
(***************************************************************************)
EXTENDS Naturals

CONSTANT Row  \* what is to be delivered

VARIABLES
  delivered,  \* [Row -> number of deliveries]
  report      \* [Row -> the last report about it]

Report == {"none", "refused", "incomplete", "done"}

TypeOK == delivered \in [Row -> 0..1] /\ report \in [Row -> Report]

Init ==
  /\ delivered = [r \in Row |-> 0]
  /\ report = [r \in Row |-> "none"]

Deliver(r) ==
  /\ delivered[r] = 0
  /\ delivered' = [delivered EXCEPT ![r] = 1]
  /\ UNCHANGED report

(* A failure is only reported of what has not been delivered. *)
Refuse(r) ==
  /\ delivered[r] = 0
  /\ report' = [report EXCEPT ![r] = "refused"]
  /\ UNCHANGED delivered

(* Something is left to be done after the delivery, or nothing is. *)
Acknowledge(r, outcome) ==
  /\ delivered[r] = 1 /\ report[r] # "done"
  /\ report' = [report EXCEPT ![r] = outcome]
  /\ UNCHANGED delivered

Next ==
  \E r \in Row :
    Deliver(r) \/ Refuse(r) \/ \E o \in {"incomplete", "done"} : Acknowledge(r, o)

Spec == Init /\ [][Next]_<<delivered, report>>
=============================================================================
