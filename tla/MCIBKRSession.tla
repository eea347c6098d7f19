---------------------------- MODULE MCIBKRSession ----------------------------
(* Two of the four account tags are enough for a snapshot to mix two updates. *)
EXTENDS IBKRSession

TwoTags == <<"NetLiquidation", "AvailableFunds">>
===============================================================================
