-------------------------- MODULE MCCommandDelivery --------------------------
(* Instances of CommandDelivery small enough for TLC. *)
EXTENDS CommandDelivery

CONSTANTS m1, c1, c2
=============================================================================
