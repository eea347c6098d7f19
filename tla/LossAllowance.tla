---------------------------- MODULE LossAllowance ----------------------------
(***************************************************************************)
(* What capital/daily_loss_governor.py promises of a day of trading,       *)
(* whatever threads, files and kills bring it about: a process starts with *)
(* the allowance MAX_DAILY_LOSS_USD, every close is charged to it, and     *)
(* once it is used up there is no close until another process starts.      *)
(***************************************************************************)
EXTENDS Integers

CONSTANTS
  Outcomes,     \* realized P&L of one round trip
  MaxDailyLoss  \* MAX_DAILY_LOSS_USD

VARIABLES
  total,   \* P&L of the day
  starts,  \* processes started today
  left     \* what the process at work may still lose; 0 without one

allowanceVars == <<total, starts, left>>

AllowanceInit == total = 0 /\ starts = 0 /\ left = 0

Starts ==
  /\ starts' = starts + 1
  /\ left' = MaxDailyLoss
  /\ UNCHANGED total

Closes ==
  /\ left > 0
  /\ \E pnl \in Outcomes : total' = total + pnl /\ left' = left + pnl
  /\ UNCHANGED starts

Stops ==
  /\ left' = 0
  /\ UNCHANGED <<total, starts>>

AllowanceNext == Starts \/ Closes \/ Stops
AllowanceSpec == AllowanceInit /\ [][AllowanceNext]_allowanceVars
===============================================================================
