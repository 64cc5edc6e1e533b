---------------------------- MODULE MCSupervisor ----------------------------
(* Finite instance of Supervisor for TLC: two process ids are enough for a *)
(* sidecar of the running shell beside one an earlier shell left behind.   *)
EXTENDS Supervisor

=============================================================================
