---------------------------- MODULE MCTradingLoop ----------------------------
(* TradingLoop with values for the constants a .cfg cannot write. *)
EXTENDS TradingLoop

\* A round trip loses half of the limit, or gains as much.
TripOutcomes == {-1, 1}
===============================================================================
