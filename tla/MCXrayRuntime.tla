---------------------------- MODULE MCXrayRuntime ----------------------------
(***************************************************************************)
(* XrayRuntime with two users: one that the process has from the start and *)
(* one that it has not.                                                    *)
(***************************************************************************)
EXTENDS XrayRuntime, TLC

CONSTANTS u1, u2

MCInit ==
  /\ wanted = [users |-> u1 :> 1 @@ u2 :> 0, core |-> 0]
  /\ Init

MCSpec == MCInit /\ [][Next]_vars /\ Fairness
=============================================================================
