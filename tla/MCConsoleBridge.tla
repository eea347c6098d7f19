--------------------------- MODULE MCConsoleBridge ---------------------------
(* A loss that reaches the limit of the day, and a gain. *)
EXTENDS ConsoleBridge

SomeOutcomes == {-2, 1}
===============================================================================
