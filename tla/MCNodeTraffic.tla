---------------------------- MODULE MCNodeTraffic ----------------------------
(***************************************************************************)
(* An instance of NodeTraffic: node n1 has two inbounds and n2 has one; the  *)
(* client is on one of each, or on all.                                     *)
(***************************************************************************)
EXTENDS NodeTraffic, TLC

CONSTANTS n1, n2, a1, a2, b

MCHome == a1 :> n1 @@ a2 :> n1 @@ b :> n2

MCInit ==
    /\ node \in {p \in [Inbounds -> {"bare", "client"}] : {p[a1], p[b]} = {"client"}}
    /\ Start
MCSpec == MCInit /\ [][Next]_vars
=============================================================================
