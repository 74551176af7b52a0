------------------------- MODULE MCRecoveryDelivery -------------------------
(* Two spawner instances that repair one story, for TLC. *)
EXTENDS RecoveryDelivery

CONSTANTS i1, i2

MCInstances == {i1, i2}
=============================================================================
