---------------------------- MODULE MCNightQueue ----------------------------
(* Finite instance of NightQueue for TLC: two batches of the sidecar, so   *)
(* that one can replace the other, beside one of the command line.         *)
EXTENDS NightQueue, TLC

CONSTANTS b1, b2, c1

Symmetry == Permutations({b1, b2})

=============================================================================
