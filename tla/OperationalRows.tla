--------------------------- MODULE OperationalRows ---------------------------
(* What the outbox and the deliveries have in common.                       *)
EXTENDS Naturals

CONSTANTS
    Events,       \* event keys
    AttemptLimit  \* DELIVERY_ATTEMPT_LIMIT, and 3 in the SQL of the deliveries

ASSUME AttemptAssumption == AttemptLimit \in Nat \ {0}
=============================================================================
