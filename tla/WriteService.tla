---------------------------- MODULE WriteService ----------------------------
(***************************************************************************)
(* What submitTrafficWrite promises its caller, and nothing of how: a      *)
(* write that is submitted is either applied exactly once, and then its    *)
(* own result is returned, or refused, and then it never runs.             *)
(* TrafficWriter implements this specification.                            *)
(***************************************************************************)
EXTENDS Naturals

CONSTANT Submitters          \* goroutines that call submitTrafficWrite

VARIABLES
    st,                      \* st[s]: where the current call of s stands
    count                    \* count[s]: how often its function has run

svars == <<st, count>>

SInit == /\ st = [s \in Submitters |-> "idle"]
         /\ count = [s \in Submitters |-> 0]

(* A goroutine calls submitTrafficWrite. *)
SSubmit(s) == /\ st[s] = "idle"
              /\ st' = [st EXCEPT ![s] = "pending"]
              /\ count' = [count EXCEPT ![s] = 0]

(* The submitted function runs, once. *)
SApply(s) == /\ st[s] = "pending"
             /\ count[s] = 0
             /\ st' = [st EXCEPT ![s] = "applied"]
             /\ count' = [count EXCEPT ![s] = 1]

(* The write is refused; it has not run and never will. *)
SRefuse(s) == /\ st[s] = "pending"
              /\ count[s] = 0
              /\ st' = [st EXCEPT ![s] = "refused"]
              /\ UNCHANGED count

(* The call returns. *)
SReturn(s) == /\ st[s] \in {"applied", "refused"}
              /\ st' = [st EXCEPT ![s] = "idle"]
              /\ UNCHANGED count

SNext == \E s \in Submitters :
            SSubmit(s) \/ SApply(s) \/ SRefuse(s) \/ SReturn(s)

ServiceSpec == SInit /\ [][SNext]_svars
=============================================================================
