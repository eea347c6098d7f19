----------------------------- MODULE TrackRecord -----------------------------
(***************************************************************************)
(* What one UTC day leaves behind.  The position store and the daily-loss  *)
(* governor (capital/daily_loss_governor.py) are globals of the loop       *)
(* process and die with it; the closed trades go to a file, one line each  *)
(* (capital/trade_ledger.py), from which the scorecard is computed.        *)
(***************************************************************************)
EXTENDS KillSwitch, EquityCurve, SequencesExt

CONSTANTS
  Outcomes,     \* realized P&L of one round trip; a long option loses no more than it cost
  MaxDailyLoss, \* MAX_DAILY_LOSS_USD
  Limit,        \* rows the scorecard asks for
  MaxTrades,    \* bound: trades of the day
  MaxStarts,    \* bound: processes of the day
  AppendsFail   \* whether a line may reach the file in part or not at all

ASSUME RecordAssumption ==
  /\ Outcomes \subseteq Int /\ \E worst \in Outcomes : \A x \in Outcomes : worst <= x
  /\ {MaxDailyLoss, Limit, MaxTrades, MaxStarts} \subseteq Nat \ {0}
  /\ AppendsFail \in BOOLEAN

VARIABLES
  trade,     \* the open position, by its number in this process; 0 for none
  opened,    \* positions opened by this process
  closed,    \* those of them the governor has counted
  realized,  \* _REALIZED_PNL_USD
  lines,     \* the ledger file: a row [pnl |-> ...], or Garbled
  starts,    \* history: processes started today
  day,       \* history: P&L of every position closed today, in order
  lost       \* history: a close whose row was not written whole

books == <<trade, opened, closed, realized>>
recordVars == <<books, lines, starts, day, lost>>

Loop == "loop"
Garbled == [pnl |-> 0, whole |-> FALSE]
Row(pnl) == [pnl |-> pnl, whole |-> TRUE]

RecordTypeOK ==
  /\ trade \in 0..MaxTrades /\ opened \in 0..MaxTrades /\ closed \in 0..opened
  /\ realized \in Int
  /\ \A i \in DOMAIN lines : lines[i] \in {Row(x) : x \in Outcomes} \cup {Garbled}
  /\ starts \in 0..MaxStarts
  /\ \A i \in DOMAIN day : day[i] \in Outcomes
  /\ lost \in BOOLEAN

RecordInit ==
  /\ trade = 0 /\ opened = 0 /\ closed = 0 /\ realized = 0
  /\ lines = <<>> /\ starts = 0 /\ day = <<>> /\ lost = FALSE

-------------------------------------------------------------------------------
(* The trades. *)

\* A process begins with an empty store and a governor at zero.
FreshProcess ==
  /\ starts < MaxStarts
  /\ starts' = starts + 1
  /\ trade' = 0 /\ opened' = 0 /\ closed' = 0 /\ realized' = 0
  /\ UNCHANGED <<lines, day, lost>>

OpensPosition ==
  /\ trade = 0 /\ Len(day) < MaxTrades /\ opened < MaxTrades
  /\ opened' = opened + 1
  /\ trade' = opened'
  /\ UNCHANGED <<closed, realized, lines, starts, day, lost>>

\* Mutant: the position is still in the store while the governor counts it.
ClosesKeeping ==
  /\ trade # 0
  /\ UNCHANGED trade
  /\ \E pnl \in Outcomes : day' = Append(day, pnl)
  /\ UNCHANGED <<opened, closed, realized, lines, starts, lost>>

\* handle_exit: the position leaves the store before anyone counts it.
ClosesPosition ==
  /\ trade # 0
  /\ trade' = 0
  /\ \E pnl \in Outcomes : day' = Append(day, pnl)
  /\ UNCHANGED <<opened, closed, realized, lines, starts, lost>>

\* Mutants: a trade counted twice; the limit itself is no breach.
CountsTwice ==
  /\ closed' = closed + 2
  /\ realized' = realized + 2 * Last(day)
  /\ IF realized' <= -MaxDailyLoss THEN EngageKill(Loop) ELSE UNCHANGED killVars
  /\ UNCHANGED <<trade, opened, lines, starts, day, lost>>
CountsLossPastLimit ==
  /\ closed' = closed + 1
  /\ realized' = realized + Last(day)
  /\ IF realized' < -MaxDailyLoss THEN EngageKill(Loop) ELSE UNCHANGED killVars
  /\ UNCHANGED <<trade, opened, lines, starts, day, lost>>

\* record_realized_pnl of a governed process, one that trades neither SIM nor REPLAY,
\* within one UTC day (TradingLoop has both conditions).
CountsTrade ==
  /\ closed' = closed + 1
  /\ realized' = realized + Last(day)
  /\ IF realized' <= -MaxDailyLoss THEN EngageKill(Loop) ELSE UNCHANGED killVars
  /\ UNCHANGED <<trade, opened, lines, starts, day, lost>>

\* A line without its end swallows the next one.
Glued(file, row) ==
  IF file # <<>> /\ ~Last(file).whole THEN file ELSE Append(file, row)

\* Mutant: the newest row first.
RecordsOnTop ==
  /\ lines' = <<Row(Last(day))>> \o lines
  /\ UNCHANGED <<books, starts, day, lost>>

\* record_closed_trade, which the driver calls for the same modes: an append that
\* fails is swallowed.
RecordsTrade ==
  /\ \/ /\ lines' = Glued(lines, Row(Last(day)))
        /\ lost' = (lost \/ ~Last(lines').whole)
     \/ /\ AppendsFail /\ lost' = TRUE
        /\ \/ UNCHANGED lines
           \/ lines' = Glued(lines, Garbled)
  /\ UNCHANGED <<books, starts, day>>

\* The process is gone between a close and its row.
LosesRow == lost' = TRUE

-------------------------------------------------------------------------------
(* Reading it back. *)

Newest(file, n) == SubSeq(file, Max({1, Len(file) - n + 1}), Len(file))

\* read_ledger: one line that does not parse empties the answer.
ReadLedger ==
  LET rows == Newest(lines, Limit)
  IN  IF \A i \in DOMAIN rows : rows[i].whole
      THEN [i \in DOMAIN rows |-> rows[i].pnl]
      ELSE <<>>

-------------------------------------------------------------------------------
(* Properties. *)

\* The most one process can lose: all but the last of its limit, and then the worst
\* trade.
PerProcess == MaxDailyLoss - 1 + Max({0, -Min(Outcomes)})

\* What a day can lose.  The governor forgets with its process, so the limit of
\* the day is one per process: each stops at the close that reaches it, which
\* may overshoot by no more than the worst trade.
DayLossBound == Total(day) >= -(starts * PerProcess)

\* The track record the scorecard shows is that of the newest trades closed, in
\* their order, whatever process closed them, as long as no row was lost; the
\* last trade may be on its way from the governor to the file.
RecordIsTheDay ==
  ~lost => \E n \in {Len(day) - 1, Len(day)} \cap Nat :
             ReadLedger = Newest(SubSeq(day, 1, n), Limit)

\* "max drawdown is the largest peak-to-trough decline" of the cumulative P&L,
\* the start at zero counting as a peak, over every record a day can leave.
DrawdownIsWorst ==
  LET pnls == ReadLedger
      equity(k) == Total(SubSeq(pnls, 1, k))
      spans == {s \in (0..Len(pnls)) \X (0..Len(pnls)) : s[1] <= s[2]}
  IN  Scorecard(pnls).mdd = Min({equity(s[2]) - equity(s[1]) : s \in spans})
===============================================================================
