------------------------------ MODULE MCCharge ------------------------------
(* Small instances of Charge for TLC.                                      *)
EXTENDS Charge, TLC

CONSTANTS l1, l2, l3, m1, m2, p1, p2

(* Sound when no payment is Suspect and no liveness is checked.            *)
FullSymmetry ==
    Permutations(Links) \cup Permutations(Pays) \cup Permutations(Panels)
=============================================================================
