---------------------------- MODULE MCClientLimits ---------------------------
(***************************************************************************)
(* Instances of ClientLimits for TLC.                                      *)
(***************************************************************************)
EXTENDS ClientLimits

(* A client that is renewed has one inbound: what happens to one with       *)
(* several is the finding about Renewed.                                    *)
OneHomeInit == Init /\ (renews => Cardinality(homes) = 1)
OneHomeSpec == OneHomeInit /\ [][Next]_vars /\ Fairness
=============================================================================
