-------------------------- MODULE MCStateRecovery --------------------------
(* A small instance of StateRecovery: its constants are all model values.   *)
EXTENDS StateRecovery
=============================================================================
