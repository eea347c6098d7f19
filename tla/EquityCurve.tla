----------------------------- MODULE EquityCurve -----------------------------
(***************************************************************************)
(* The scorecard of capital/trade_ledger.py, a function of the results of  *)
(* the trades it is given, in their order.                                 *)
(***************************************************************************)
EXTENDS Integers, Sequences, FiniteSetsExt

\* The equity curve: what the first i trades come to.
Equity(pnls) ==
  LET eq[i \in 0..Len(pnls)] == IF i = 0 THEN 0 ELSE eq[i - 1] + pnls[i]
  IN  eq
Total(pnls) == Equity(pnls)[Len(pnls)]

\* Mutant: the peak is the last equity, not the highest.
AfterTradeFromLast(acc, x) ==
  [eq |-> acc.eq + x, peak |-> Max({acc.eq, acc.eq + x}), mdd |-> Min({acc.mdd, x})]

\* scorecard: equity, its running peak, the deepest fall below it.
AfterTrade(acc, x) ==
  LET eq == acc.eq + x
      peak == Max({acc.peak, eq})
  IN  [eq |-> eq, peak |-> peak, mdd |-> Min({acc.mdd, eq - peak})]

Curve(pnls) ==
  LET acc[i \in 0..Len(pnls)] ==
        IF i = 0 THEN [eq |-> 0, peak |-> 0, mdd |-> 0] ELSE AfterTrade(acc[i - 1], pnls[i])
  IN  acc

Drawdown(pnls) == Curve(pnls)[Len(pnls)].mdd

Scorecard(pnls) ==
  [trades |-> Len(pnls),
   wins   |-> Len(SelectSeq(pnls, LAMBDA x : x > 0)),
   losses |-> Len(SelectSeq(pnls, LAMBDA x : x < 0)),
   gross  |-> Total(pnls),
   mdd    |-> Drawdown(pnls)]
===============================================================================
