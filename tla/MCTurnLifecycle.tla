-------------------------- MODULE MCTurnLifecycle --------------------------
(* Finite instances of TurnLifecycle for TLC. *)
EXTENDS TurnLifecycle, TLC

Symmetry == Permutations(Calls)

=============================================================================
