--------------------------- MODULE MCTaskManager ---------------------------
(* Finite instance of TaskManager for TLC: two workers for two tasks, one  *)
(* of which may wait while the other is executed or finished.              *)
EXTENDS TaskManager

=============================================================================
