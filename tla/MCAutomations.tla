--------------------------- MODULE MCAutomations ---------------------------
(* Finite instance of Automations for TLC: one automation whose runs meet  *)
(* each other in every way.                                                *)
EXTENDS Automations

=============================================================================
