------------------------------ MODULE MCEventBus -----------------------------
(***************************************************************************)
(* Instances of EventBus for TLC: one subscriber that may block, another   *)
(* that does not, queues that a blocked worker fills, and two Subscribes,  *)
(* of different ids or of the same one, which replaces its worker.         *)
(***************************************************************************)
EXTENDS EventBus

(* The id of a worker that was not made yet is immaterial.                   *)
FirstId == CHOOSE i \in Ids : i \notin Stuck
BusInit == Init /\ id = [w \in Workers |-> FirstId]
BusSpec == BusInit /\ [][Next]_vars /\ Fairness
=============================================================================
