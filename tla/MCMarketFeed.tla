----------------------------- MODULE MCMarketFeed -----------------------------
(* MarketFeed with the cutoff a .cfg cannot compute, and the histories and         *)
(* strategies the intraday backtest is evaluated on: two days of 55-minute bars,   *)
(* whose eighth is a hard exit, with one before the open and one after the close.  *)
(* One bar may be missing, or a day may end early.                                 *)
EXTENDS MarketFeed, Backtest

Cutoff == Utc(18, 30)

ASSUME CutoffIsEarly == CutoffBeforeLastBar

BarsADay == 8
BarTime(d, i) == At(d, Utc(13, 30) + 55 * (i - 1))
DayBars(d) == [i \in 0..(BarsADay + 1) |-> BarTime(d, i)]
AllBars == [i \in 1..(2 * (BarsADay + 2)) |->
              IF i <= BarsADay + 2 THEN DayBars(1)[i - 1] ELSE DayBars(2)[i - BarsADay - 3]]
Holes == {{}} \cup { {BarTime(d, i)} : d \in 1..2, i \in 1..BarsADay }
              \cup { {BarTime(d, i) : i \in 5..BarsADay} : d \in 1..2 }

TwoDays ==
  { [bars |-> SelectSeq(AllBars, LAMBDA t : t \notin hole), offset |-> 4, minutes |-> 55] :
    hole \in Holes }

FewSignals ==
  { [entry |-> {BarTime(1, i), BarTime(d, 6)}, exit |-> e] :
    i \in 2..5, d \in 1..2,
    e \in {{}} \cup { {BarTime(1, j)} : j \in 3..BarsADay } \cup { {BarTime(2, 1)} } }

ASSUME BacktestDays == BacktestKeepsRules(TwoDays, FewSignals)
===============================================================================
