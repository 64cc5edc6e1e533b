---------------------------- MODULE MCApprovals ----------------------------
(* Finite instances of Approvals for TLC: calls t1 and t2 have the same key, *)
(* t3 has another one and auto_approve covers it.                            *)
EXTENDS Approvals, TLC

CONSTANTS t1, t2, t3

MCKey  == [t \in Tools |-> IF t = t3 THEN "k2" ELSE "k1"]
MCAuto == {t3}

Symmetry == Permutations({t1, t2})

=============================================================================
