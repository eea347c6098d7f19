---------------------------- MODULE SinglePosition ----------------------------
(***************************************************************************)
(* What the execution spine promises its account: a running process works  *)
(* at most one order at a time, buys one contract only when it has none,   *)
(* sells only the one it bought, and stops only with no order at work.     *)
(* Where the process, its files and its broker keep their state is left to *)
(* TradingLoop.                                                            *)
(***************************************************************************)
EXTENDS Integers

VARIABLES
  exposure,   \* contracts the account gained since the process started
  order,      \* the order at work: "none", "buy" or "sell"
  running     \* whether the trading process runs

vars == <<exposure, order, running>>

TypeOK ==
  /\ exposure \in {0, 1}
  /\ order \in {"none", "buy", "sell"}
  /\ running \in BOOLEAN

Init == exposure = 0 /\ order = "none" /\ running = FALSE

\* A start forgets what an earlier process left in the account.
Start ==
  /\ ~running
  /\ running' = TRUE
  /\ exposure' = 0
  /\ UNCHANGED order

Submit ==
  /\ running /\ order = "none"
  /\ order' = IF exposure = 0 THEN "buy" ELSE "sell"
  /\ UNCHANGED <<exposure, running>>

Fill ==
  /\ order # "none"
  /\ order' = "none"
  /\ exposure' = IF order = "buy" THEN 1 ELSE 0
  /\ UNCHANGED running

\* Rejected, or cancelled.
Lapse ==
  /\ order # "none"
  /\ order' = "none"
  /\ UNCHANGED <<exposure, running>>

Stop ==
  /\ running /\ order = "none"
  /\ running' = FALSE
  /\ UNCHANGED <<exposure, order>>

Next == Start \/ Submit \/ Fill \/ Lapse \/ Stop

Spec == Init /\ [][Next]_vars
===============================================================================
