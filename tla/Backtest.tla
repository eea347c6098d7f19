------------------------------- MODULE Backtest -------------------------------
(***************************************************************************)
(* The intraday backtest (research/intraday.py), which replays the live    *)
(* rules of a day: sessions, entry window, hard exit.  It is a function of *)
(* the bars and of the bars a strategy says to enter and to exit at.  Its  *)
(* clock is the number of bars it has seen since the session began, and a  *)
(* session is what no gap of two hours interrupts.  Times are minutes,     *)
(* UTC.  Indicators and prices are left out: a strategy is the set of bars *)
(* it would enter at and the set of those it would exit at.                *)
(***************************************************************************)
EXTENDS Integers, Sequences, FiniteSets

EntryStartMin == 30
EntryEndMin == 300
HardExitMin == 385
SessionGapMin == 120

\* The time in New York, offset hours behind.
MinuteEt(t, offset) == (t - 60 * offset) % 1440

\* keep_rth: 09:30 to 15:59 in New York; all days here are weekdays.
InRth(t, offset) ==
  9 * 60 + 30 <= MinuteEt(t, offset) /\ MinuteEt(t, offset) < 16 * 60
KeepRth(bars, offset) == SelectSeq(bars, LAMBDA t : InRth(t, offset))

\* The bars that begin a session.
SessionStarts(bars) ==
  { i \in DOMAIN bars : i = 1 \/ bars[i] - bars[i - 1] > SessionGapMin }

\* replay_intraday: minutes are bars since the session began times their size.
ReplayIntraday(bars, minutes) ==
  LET starts == SessionStarts(bars)
      begun(i) == { j \in starts : j <= i }
      first(i) == CHOOSE j \in begun(i) : \A k \in begun(i) : k <= j
      mins(i) == (i - first(i)) * minutes
  IN  [i \in DOMAIN bars |->
         [t |-> bars[i], session |-> Cardinality(begun(i)) - 1,
          inWindow |-> EntryStartMin <= mins(i) /\ mins(i) <= EntryEndMin,
          hardExit |-> mins(i) >= HardExitMin]]

Trade(from, to, open) == [from |-> from, to |-> to, open |-> open]

\* A new session closes a trade of the one before, at its own first bar.
Closes(pos, row, exit) ==
  row.session # pos.session \/ row.hardExit \/ row.t \in exit

\* One bar of simulate_intraday: an exit first, and then an entry, on the same bar too.
\* pos holds the row of the entry, if any.
Bar(run, row, strategy) ==
  LET closes == run.pos # <<>> /\ Closes(run.pos[1], row, strategy.exit)
      flat == closes \/ run.pos = <<>>
      enters == flat /\ row.inWindow /\ ~row.hardExit /\ row.t \in strategy.entry
  IN  [pos |-> IF enters THEN <<row>> ELSE IF flat THEN <<>> ELSE run.pos,
       trades |-> IF closes THEN Append(run.trades, Trade(run.pos[1], row, FALSE))
                  ELSE run.trades]

\* simulate_intraday: what is open at the end is closed at the last bar.
SimulateIntraday(rows, strategy) ==
  LET run[i \in 0..Len(rows)] ==
        IF i = 0 THEN [pos |-> <<>>, trades |-> <<>>]
        ELSE Bar(run[i - 1], rows[i], strategy)
      end == run[Len(rows)]
  IN  IF end.pos = <<>> THEN end.trades
      ELSE Append(end.trades, Trade(end.pos[1], rows[Len(rows)], TRUE))

\* walk_forward_intraday: the first 60 % of the sessions, and the others, each on its
\* own.
WalkForwardIntraday(rows, strategy) ==
  LET n == Cardinality({rows[i].session : i \in DOMAIN rows})
      cut == IF (6 * n) \div 10 < n - 1 THEN (6 * n) \div 10 ELSE n - 1
      before(r) == r.session < cut
      after(r) == r.session >= cut
  IN  IF n = 0 THEN [inSample |-> <<>>, outOfSample |-> <<>>]
      ELSE [inSample |-> SimulateIntraday(SelectSeq(rows, before), strategy),
            outOfSample |-> SimulateIntraday(SelectSeq(rows, after), strategy)]

Carried(trades) == { i \in DOMAIN trades : trades[i].to.session # trades[i].from.session }

\* Whatever the strategy and the holes in the data, a trade is carried into another
\* session only from a session so short of bars that none of them is a hard exit
\* (intraday.py:8: "hard exit by 15:55 ET; NO overnight holds").
OnlyShortSessionsCarry(rows, strategy) ==
  LET trades == SimulateIntraday(rows, strategy)
      full(s) == \E i \in DOMAIN rows : rows[i].session = s /\ rows[i].hardExit
  IN  \A i \in Carried(trades) : ~full(trades[i].from.session)

\* Where no trade is carried, the two halves of the walk-forward are the whole, trade
\* for trade.
HalvesAreWhole(rows, strategy) ==
  LET trades == SimulateIntraday(rows, strategy)
      halves == WalkForwardIntraday(rows, strategy)
  IN  Carried(trades) = {} => trades = halves.inSample \o halves.outOfSample

\* No trade is entered before 10:00 and no bar is a hard exit before 15:55 in New York:
\* the clock that counts bars runs late where bars are missing, but never early.
ClockNeverEarly(rows, strategy, offset) ==
  LET trades == SimulateIntraday(rows, strategy)
  IN  /\ \A i \in DOMAIN trades : MinuteEt(trades[i].from.t, offset) >= 10 * 60
      /\ \A i \in DOMAIN rows :
           rows[i].hardExit => MinuteEt(rows[i].t, offset) >= 15 * 60 + 55

\* All three, of every history and strategy given.
BacktestKeepsRules(histories, strategies) ==
  \A h \in histories, strategy \in strategies :
    LET rows == ReplayIntraday(KeepRth(h.bars, h.offset), h.minutes)
    IN  /\ OnlyShortSessionsCarry(rows, strategy)
        /\ HalvesAreWhole(rows, strategy)
        /\ ClockNeverEarly(rows, strategy, h.offset)
===============================================================================
