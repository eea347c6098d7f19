------------------------------ MODULE MarketFeed ------------------------------
(***************************************************************************)
(* The clock, the bar feed and the two rules that read a bar's time: the   *)
(* entry window (advisory/time_authority.py) and the 0DTE hard stop        *)
(* (execution/exit_engine.py).  Both rules are fixed in UTC while the      *)
(* exchange keeps New York time, so the model starts in summer or winter   *)
(* and runs the real hours.  What becomes of an order is TradingLoop's     *)
(* subject; here it fills or it does not.                                  *)
(***************************************************************************)
EXTENDS Integers

CONSTANTS
  Offsets,        \* hours New York may be behind UTC: 4 in summer, 5 in winter
  BarMinutes,     \* IBKR_BAR_SIZE
  LastEntryUtc,   \* LAST_ENTRY_UTC, minutes of the day
  Partial,        \* whether a response may end before its newest bars
  MaxDay          \* bound: trading days explored

Utc(hour, minute) == 60 * hour + minute

ASSUME FeedAssumption ==
  /\ Offsets \subseteq {4, 5}
  /\ BarMinutes \in 1..60 /\ LastEntryUtc \in Nat /\ MaxDay \in Nat \ {0}
  /\ Partial \in BOOLEAN

VARIABLES
  offset,    \* hours New York is behind UTC
  now,       \* minutes since day 0, UTC
  served,    \* start of the newest bar the venue serves
  lastBar,   \* _last_t_ms of the provider; 0 before its first emit
  fed,       \* start of the bar the indicator engine took last; 0 for none
  held,      \* PositionStore.has_open_position()
  expiry,    \* the day the position's contract expires
  shown,     \* history: a bar of the expiry day's last five minutes was emitted
  lapsed     \* history: an exit of the position was tried and did not fill

position == <<held, expiry, shown, lapsed>>
vars == <<offset, now, served, lastBar, fed, position>>

DayMinutes == 1440
Day(t) == t \div DayMinutes
Minute(t) == t % DayMinutes
At(d, m) == DayMinutes * d + m

\* Regular trading hours, 09:30 to 16:00 in New York.
Open(d) == At(d, Utc(9, 30) + 60 * offset)
Close(d) == At(d, Utc(16, 0) + 60 * offset)
Regular(t) == Open(Day(t)) <= t /\ t < Close(Day(t))

\* Bars of regular hours only (useRTH): the one after b opens the next day when b
\* is the last of its day.
NextBar(b) ==
  IF b + BarMinutes < Close(Day(b)) THEN b + BarMinutes ELSE Open(Day(b) + 1)

\* The clock of a day runs from before the open to an hour past the close.
FirstHour == Utc(13, 0)
LastHour == Utc(22, 0)

FeedTypeOK ==
  /\ offset \in Offsets
  /\ now \in Nat /\ Minute(now) \in FirstHour..LastHour
  /\ served \in Nat /\ Regular(served) /\ served <= now
  /\ {lastBar, fed} \subseteq Nat
  /\ lastBar # 0 => lastBar = fed
  /\ held \in BOOLEAN /\ expiry \in 0..MaxDay
  /\ {shown, lapsed} \subseteq BOOLEAN

\* The morning of day 1: the venue still serves the last bar of day 0.
Init ==
  /\ offset \in Offsets
  /\ now = At(1, FirstHour)
  /\ served = Close(0) - BarMinutes
  /\ lastBar = 0 /\ fed = 0
  /\ held = FALSE /\ expiry = 0 /\ shown = FALSE /\ lapsed = FALSE

-------------------------------------------------------------------------------
(* The venue. *)

\* A bar is served some time after it opened, still forming.
ServeBar ==
  /\ NextBar(served) <= now
  /\ served' = NextBar(served)
  /\ UNCHANGED <<offset, now, lastBar, fed, position>>

\* The hours the market is closed in and no rule tells apart are skipped.
Tick ==
  /\ NextBar(served) > now
  /\ now' = IF Minute(now) + BarMinutes <= LastHour
            THEN now + BarMinutes ELSE At(Day(now) + 1, FirstHour)
  /\ Day(now') <= MaxDay
  /\ UNCHANGED <<offset, served, lastBar, fed, position>>

-------------------------------------------------------------------------------
(* The provider. *)

\* The day's bars end with the newest one, unless the response was cut short: the
\* wait for historicalDataEnd ends on a timeout or on an error too, and what has
\* arrived by then is used.
Responses ==
  {served} \cup
    IF Partial THEN {b \in {served - BarMinutes} : Regular(b)} ELSE {}

\* Mutant: the warm-up takes the newest bar too.
StartWithNewest ==
  /\ lastBar' = 0 /\ fed' = served
  /\ held' = FALSE /\ shown' = FALSE /\ lapsed' = FALSE
  /\ UNCHANGED <<offset, now, served, expiry>>

\* Mutant: the warm-up skips the newest bar and marks it as emitted.
StartMarksNewest ==
  /\ lastBar' = served
  /\ fed' \in {0} \cup {b \in {served - BarMinutes} : Regular(b)}
  /\ held' = FALSE /\ shown' = FALSE /\ lapsed' = FALSE
  /\ UNCHANGED <<offset, now, served, expiry>>

\* The process starts, with an empty position store, and feeds the indicators all
\* bars of the day but the newest; a failed fetch feeds none.
Start ==
  /\ lastBar' = 0
  /\ fed' \in {0} \cup {b \in {served - BarMinutes} : Regular(b)}
  /\ held' = FALSE /\ shown' = FALSE /\ lapsed' = FALSE
  /\ UNCHANGED <<offset, now, served, expiry>>

-------------------------------------------------------------------------------
(* The two rules, which read the time the bar opened. *)

MarketOpenUtc == Utc(13, 30)
MarketCloseUtc == Utc(20, 0)
HardExitUtc == Utc(20, 55)

\* Mutant: no cutoff.
NoCutoff(t) == MarketOpenUtc <= t

EvaluateEntryTime(t) ==
  /\ MarketOpenUtc <= t
  /\ t <= LastEntryUtc
  /\ t < MarketCloseUtc

\* Mutant: the hard stop is left to the indicators.
NoHardStop(t) == FALSE

HardStop(t) == t >= HardExitUtc

\* ExitEngine.evaluate, and the exit it leads to.  An order fills in market hours
\* only.
Manage(b) ==
  /\ held
  /\ shown' = (shown \/ (Day(b) = expiry /\ b >= Close(expiry) - 5))
  /\ \E reversal \in BOOLEAN, filled \in {FALSE, Regular(now)} :
       LET due == HardStop(Minute(b)) \/ reversal IN
       /\ held' = ~(due /\ filled)
       /\ lapsed' = (lapsed \/ (due /\ ~filled))
  /\ UNCHANGED expiry

\* The cutoff is earlier than the last bar a response can end in.
CutoffBeforeLastBar ==
  \A o \in Offsets :
    LastEntryUtc < Utc(16, 0) + 60 * o - (IF Partial THEN 2 ELSE 1) * BarMinutes

\* A signal needs regular hours by the wall clock; the contract expires on the
\* bar's day.
Enter(b) ==
  /\ ~held
  /\ Regular(now)
  /\ EvaluateEntryTime(Minute(b))
  /\ held' = TRUE /\ expiry' = Day(b)
  /\ shown' = FALSE /\ lapsed' = FALSE

NoEntry == ~held /\ UNCHANGED position

\* IBKRSnapshotProvider.__call__ and the cycle it feeds: a response whose newest
\* bar is the one emitted last is no new bar.
Poll ==
  \E b \in Responses :
    /\ b # lastBar
    /\ lastBar' = b /\ fed' = b
    /\ Manage(b) \/ Enter(b) \/ NoEntry
    /\ UNCHANGED <<offset, now, served>>

Next == ServeBar \/ Tick \/ Start \/ Poll

Spec == Init /\ [][Next]_vars

-------------------------------------------------------------------------------
(* Properties. *)

Emits == lastBar' \notin {0, lastBar}

\* The indicators take no bar twice and none out of order, across the warm-up and
\* whatever the delay between polls (market_data_ibkr_live.py:97: "returns a
\* MarketSnapshot only when a NEW bar is available").
BarsInOrder == [][Emits => fed' > fed]_vars

\* An entry is decided on a bar of the session in progress, though a start before
\* the open finds the previous day's last bar new: the cutoff refuses it, not the
\* session check (time_authority.py:132; signal_engine.py:90).
EntryOnToday == [][~held /\ held' => Day(lastBar') = Day(now)]_vars

\* At the close of its expiry day the position is gone, unless its exit was tried
\* and did not fill or no bar of the last five minutes was emitted (DOCKER.md:12:
\* "flat by 15:55"; docker-compose.yml:79: "the 15:55 hard-exit still flattens").
FlatByClose == held /\ now >= Close(expiry) /\ shown => lapsed

\* The same, in winter: HARD_EXIT_TIME_UTC is 15:55 in New York only then
\* (exit_engine.py:75).
FlatByCloseInWinter == offset = 5 => FlatByClose
===============================================================================
