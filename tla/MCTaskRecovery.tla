--------------------------- MODULE MCTaskRecovery ---------------------------
(* Instances of TaskRecovery for TLC. *)
EXTENDS TaskRecovery, TLC
=============================================================================
