---------------------------- MODULE BacktestProofs ----------------------------
(***************************************************************************)
(* What TLAPS proves of the intraday backtest for every history, bar size  *)
(* and strategy: a trade is carried into another session only from one     *)
(* none of whose bars is a hard exit; and where bars are at least their    *)
(* size apart, no entry is made in the opening range and no hard exit      *)
(* comes early.                                                            *)
(***************************************************************************)
EXTENDS Backtest, EquityCurveProofs, FiniteSetTheorems

-------------------------------------------------------------------------------
(* The clock of a replay. *)

Begun(bars, i) == { j \in SessionStarts(bars) : j <= i }
BeginsAt(bars, i, f) == f \in Begun(bars, i) /\ \A j \in Begun(bars, i) : j <= f

\* A bar begins a session of its own or goes on with that of the bar before it.
LEMMA NextBegun ==
  ASSUME NEW bars \in Seq(Int), NEW i \in 1..(Len(bars) - 1)
  PROVE  /\ i + 1 \in SessionStarts(bars) => Begun(bars, i + 1) = Begun(bars, i) \cup {i + 1}
         /\ i + 1 \notin SessionStarts(bars) => Begun(bars, i + 1) = Begun(bars, i)
BY DEF Begun, SessionStarts

LEMMA BegunFinite ==
  ASSUME NEW bars \in Seq(Int), NEW i \in 1..Len(bars)
  PROVE  IsFiniteSet(Begun(bars, i)) /\ Cardinality(Begun(bars, i)) \in Nat
<1>1. Begun(bars, i) \subseteq 1..i /\ IsFiniteSet(1..i)
  <2>1. DOMAIN bars = 1..Len(bars)
    OBVIOUS
  <2>2. Begun(bars, i) \subseteq 1..i
    BY <2>1 DEF Begun, SessionStarts
  <2>3. IsFiniteSet(1..i)
    BY FS_Interval
  <2> QED
    BY <2>2, <2>3
<1> QED
  BY <1>1, FS_Subset, FS_CardinalityType

\* Every bar has a session, and it began at the latest start so far.
LEMMA HasBegun ==
  ASSUME NEW bars \in Seq(Int)
  PROVE  \A i \in 1..Len(bars) : \E f \in 1..i : BeginsAt(bars, i, f)
<1> DEFINE n == Len(bars)
<1> DEFINE T == {k \in Nat : k + 1 <= n => \E f \in 1..(k + 1) : BeginsAt(bars, k + 1, f)}
<1>1. 0 \in T
  <2> SUFFICES ASSUME 1 <= n PROVE BeginsAt(bars, 1, 1)
    OBVIOUS
  <2>1. 1 \in SessionStarts(bars)
    BY DEF SessionStarts
  <2> QED
    BY <2>1 DEF BeginsAt, Begun
<1>2. ASSUME NEW k \in Nat, k \in T PROVE k + 1 \in T
  <2> DEFINE i == k + 1
  <2> SUFFICES ASSUME i + 1 <= n PROVE \E f \in 1..(i + 1) : BeginsAt(bars, i + 1, f)
    OBVIOUS
  <2>1. PICK f \in 1..i : BeginsAt(bars, i, f)
    BY <1>2
  <2>2. i \in 1..(n - 1)
    OBVIOUS
  <2>3. CASE i + 1 \in SessionStarts(bars)
    <3>1. BeginsAt(bars, i + 1, i + 1)
      BY <2>3 DEF BeginsAt, Begun
    <3> QED
      BY <3>1
  <2>4. CASE i + 1 \notin SessionStarts(bars)
    <3>1. BeginsAt(bars, i + 1, f)
      BY <2>1, <2>2, <2>4, NextBegun DEF BeginsAt
    <3> QED
      BY <3>1
  <2> QED
    BY <2>3, <2>4
<1>3. Nat \subseteq T
  <2> HIDE DEF T
  <2> QED
    BY <1>1, <1>2, Induction
<1> QED
  <2> TAKE i \in 1..n
  <2>1. PICK k \in Nat : k + 1 = i
    <3>1. i - 1 \in Nat /\ (i - 1) + 1 = i
      OBVIOUS
    <3> QED
      BY <3>1
  <2>2. k \in T /\ k + 1 <= n
    BY <1>3, <2>1
  <2> QED
    BY <2>1, <2>2

\* What a replay says of bar i of a session that began at bar f.
RowAt(bars, minutes, i, f) ==
  [t |-> bars[i], session |-> Cardinality(Begun(bars, i)) - 1,
   inWindow |-> EntryStartMin <= (i - f) * minutes /\ (i - f) * minutes <= EntryEndMin,
   hardExit |-> (i - f) * minutes >= HardExitMin]

LEMMA RowIs ==
  ASSUME NEW bars \in Seq(Int), NEW minutes \in Nat, NEW i \in 1..Len(bars),
         NEW f \in 1..i, BeginsAt(bars, i, f)
  PROVE  ReplayIntraday(bars, minutes)[i] = RowAt(bars, minutes, i, f)
<1> DEFINE begun(j) == { k \in SessionStarts(bars) : k <= j }
<1> DEFINE first(j) == CHOOSE k \in begun(j) : \A l \in begun(j) : l <= k
<1> DEFINE mins(j) == (j - first(j)) * minutes
<1> DEFINE row(j) == [t |-> bars[j], session |-> Cardinality(begun(j)) - 1,
                      inWindow |-> EntryStartMin <= mins(j) /\ mins(j) <= EntryEndMin,
                      hardExit |-> mins(j) >= HardExitMin]
<1>1. i \in DOMAIN bars /\ i \in Nat
  OBVIOUS
<1>2. ReplayIntraday(bars, minutes)[i] = row(i)
  BY <1>1, Zenon DEF ReplayIntraday
<1>3. begun(i) = Begun(bars, i)
  BY DEF Begun
<1>4. first(i) = f
  <2> HIDE DEF begun
  <2>1. f \in begun(i) /\ \A l \in begun(i) : l <= f
    BY <1>3 DEF BeginsAt
  <2>2. first(i) \in begun(i) /\ \A l \in begun(i) : l <= first(i)
    BY <2>1
  <2>3. first(i) \in Nat
    <3>1. begun(i) \subseteq 1..Len(bars)
      BY DEF begun, SessionStarts
    <3> QED
      BY <2>2, <3>1
  <2> HIDE DEF first
  <2>4. first(i) <= f /\ f <= first(i)
    BY <2>1, <2>2
  <2> QED
    BY <2>3, <2>4
<1> HIDE DEF begun, first
<1> QED
  BY <1>2, <1>3, <1>4, Zenon DEF row, mins, RowAt

RowType == [t : Int, session : Int, inWindow : BOOLEAN, hardExit : BOOLEAN]

LEMMA ReplayTyped ==
  ASSUME NEW bars \in Seq(Int), NEW minutes \in Nat
  PROVE  /\ ReplayIntraday(bars, minutes) \in Seq(RowType)
         /\ Len(ReplayIntraday(bars, minutes)) = Len(bars)
<1> DEFINE rows == ReplayIntraday(bars, minutes)
<1>1. ASSUME NEW i \in 1..Len(bars) PROVE rows[i] \in RowType
  <2>1. PICK f \in 1..i : BeginsAt(bars, i, f)
    BY HasBegun
  <2>2. rows[i] = RowAt(bars, minutes, i, f)
    BY <2>1, RowIs
  <2>3. bars[i] \in Int /\ Cardinality(Begun(bars, i)) - 1 \in Int
    BY BegunFinite
  <2> QED
    BY <2>2, <2>3 DEF RowType, RowAt
<1>2. rows = [i \in 1..Len(bars) |-> rows[i]]
  <2>1. DOMAIN bars = 1..Len(bars)
    OBVIOUS
  <2> QED
    BY <2>1 DEF ReplayIntraday
<1> HIDE DEF rows
<1>3. rows \in Seq(RowType) /\ Len(rows) = Len(bars)
  BY <1>1, <1>2
<1> QED
  BY <1>3 DEF rows

\* Within a session the clock only goes on, and sessions only follow each other.
GoesOn(row, next) ==
  /\ row.session <= next.session
  /\ row.session = next.session /\ row.hardExit => next.hardExit

LEMMA NextRowGoesOn ==
  ASSUME NEW bars \in Seq(Int), NEW minutes \in Nat, NEW i \in 1..(Len(bars) - 1)
  PROVE  GoesOn(ReplayIntraday(bars, minutes)[i], ReplayIntraday(bars, minutes)[i + 1])
<1> DEFINE rows == ReplayIntraday(bars, minutes)
<1>1. PICK f \in 1..i : BeginsAt(bars, i, f)
  BY HasBegun
<1>2. i \in 1..Len(bars) /\ i + 1 \in 1..Len(bars) /\ f \in 1..(i + 1)
  OBVIOUS
<1>3. /\ rows[i].session = Cardinality(Begun(bars, i)) - 1
      /\ rows[i].hardExit = ((i - f) * minutes >= HardExitMin)
  <2>1. rows[i] = RowAt(bars, minutes, i, f)
    BY <1>1, <1>2, RowIs
  <2> QED
    BY <2>1 DEF RowAt
<1>4. Cardinality(Begun(bars, i)) \in Nat /\ IsFiniteSet(Begun(bars, i))
  BY <1>2, BegunFinite
<1>5. CASE i + 1 \in SessionStarts(bars)
  <2>1. Begun(bars, i + 1) = Begun(bars, i) \cup {i + 1} /\ i + 1 \notin Begun(bars, i)
    BY <1>5, NextBegun DEF Begun
  <2>2. Cardinality(Begun(bars, i + 1)) = Cardinality(Begun(bars, i)) + 1
    BY <1>4, <2>1, FS_AddElement
  <2>3. PICK g \in 1..(i + 1) : BeginsAt(bars, i + 1, g)
    BY <1>2, HasBegun
  <2>4. rows[i + 1].session = Cardinality(Begun(bars, i + 1)) - 1
    <3>1. rows[i + 1] = RowAt(bars, minutes, i + 1, g)
      BY <1>2, <2>3, RowIs
    <3> QED
      BY <3>1 DEF RowAt
  <2> HIDE DEF rows
  <2>5. rows[i].session < rows[i + 1].session
    BY <1>3, <1>4, <2>2, <2>4
  <2>6. rows[i].session \in Int /\ rows[i + 1].session \in Int
    BY <1>3, <1>4, <2>2, <2>4
  <2>7. rows[i].session <= rows[i + 1].session /\ rows[i].session # rows[i + 1].session
    BY <2>5, <2>6
  <2>8. GoesOn(rows[i], rows[i + 1])
    BY <2>7 DEF GoesOn
  <2> QED
    BY <2>8 DEF rows
<1>6. CASE i + 1 \notin SessionStarts(bars)
  <2>1. Begun(bars, i + 1) = Begun(bars, i)
    BY <1>6, NextBegun
  <2>2. BeginsAt(bars, i + 1, f)
    BY <1>1, <2>1 DEF BeginsAt
  <2>3. /\ rows[i + 1].session = Cardinality(Begun(bars, i)) - 1
        /\ rows[i + 1].hardExit = (((i + 1) - f) * minutes >= HardExitMin)
    <3>1. rows[i + 1] = RowAt(bars, minutes, i + 1, f)
      BY <1>2, <2>2, RowIs
    <3> QED
      BY <2>1, <3>1 DEF RowAt
  <2>4. ((i + 1) - f) * minutes = (i - f) * minutes + minutes /\ (i - f) * minutes \in Int
    OBVIOUS
  <2>5. (i - f) * minutes >= HardExitMin => ((i + 1) - f) * minutes >= HardExitMin
    BY <2>4 DEF HardExitMin
  <2> HIDE DEF rows
  <2>6. rows[i].session = rows[i + 1].session /\ rows[i].session \in Int
    BY <1>3, <1>4, <2>3
  <2>7. rows[i].hardExit => rows[i + 1].hardExit
    BY <1>3, <2>3, <2>5
  <2>8. GoesOn(rows[i], rows[i + 1])
    BY <2>6, <2>7 DEF GoesOn
  <2> QED
    BY <2>8 DEF rows
<1> QED
  BY <1>5, <1>6

Replayed(rows) ==
  rows \in Seq(RowType) /\ \A i \in 1..(Len(rows) - 1) : GoesOn(rows[i], rows[i + 1])

LEMMA GoesOnAndOn ==
  ASSUME NEW a \in RowType, NEW b \in RowType, NEW c \in RowType, GoesOn(a, b), GoesOn(b, c)
  PROVE  GoesOn(a, c)
<1>1. a.session \in Int /\ b.session \in Int /\ c.session \in Int
  BY DEF RowType
<1>2. a.session <= b.session /\ b.session <= c.session
  BY DEF GoesOn
<1>3. a.session <= c.session /\ (a.session = c.session => a.session = b.session)
  BY <1>1, <1>2
<1> QED
  BY <1>3 DEF GoesOn

LEMMA LaterRowGoesOn ==
  ASSUME NEW rows, Replayed(rows), NEW i \in 1..Len(rows), NEW j \in i..Len(rows)
  PROVE  GoesOn(rows[i], rows[j])
<1> DEFINE n == Len(rows)
<1> DEFINE T == {d \in Nat : i + d <= n => GoesOn(rows[i], rows[i + d])}
<1>1. n \in Nat /\ \A k \in 1..n : rows[k] \in RowType
  BY DEF Replayed
<1>2. 0 \in T
  <2>1. rows[i].session \in Int
    BY <1>1 DEF RowType
  <2>2. GoesOn(rows[i], rows[i])
    BY <2>1 DEF GoesOn
  <2> QED
    BY <2>2
<1>3. ASSUME NEW d \in Nat, d \in T PROVE d + 1 \in T
  <2> SUFFICES ASSUME i + (d + 1) <= n PROVE GoesOn(rows[i], rows[i + (d + 1)])
    OBVIOUS
  <2>1. GoesOn(rows[i], rows[i + d])
    BY <1>1, <1>3
  <2>2. i + d \in 1..(n - 1) /\ i + (d + 1) = (i + d) + 1 /\ i + d \in 1..n /\ i + (d + 1) \in 1..n
    BY <1>1
  <2>3. GoesOn(rows[i + d], rows[i + (d + 1)])
    BY <2>2 DEF Replayed
  <2> QED
    BY <1>1, <2>1, <2>2, <2>3, GoesOnAndOn
<1>4. Nat \subseteq T
  <2> HIDE DEF T
  <2> QED
    BY <1>2, <1>3, Induction
<1>5. PICK d \in Nat : i + d = j
  <2>1. j - i \in Nat /\ i + (j - i) = j
    OBVIOUS
  <2> QED
    BY <2>1
<1> QED
  BY <1>1, <1>4, <1>5

-------------------------------------------------------------------------------
(* The simulation. *)

\* A session none of whose bars is a hard exit.
Short(rows, s) == \A j \in 1..Len(rows) : rows[j].session = s => ~rows[j].hardExit

TradeType == [from : RowType, to : RowType, open : BOOLEAN]
RunType == [pos : {<<>>} \cup {<<r>> : r \in RowType}, trades : Seq(TradeType)]

\* The position was opened in the session of the last bar seen, which is no hard exit.
\* Of the trades so far, those carried come from short sessions.
Within(rows, run, last) ==
  /\ run.pos # <<>> => run.pos[1].session = last.session /\ ~last.hardExit
  /\ \A i \in 1..Len(run.trades) :
       run.trades[i].to.session # run.trades[i].from.session =>
         Short(rows, run.trades[i].from.session)

LEMMA BarTyped ==
  ASSUME NEW run \in RunType, NEW row \in RowType, NEW strategy
  PROVE  Bar(run, row, strategy) \in RunType
<1>1. /\ run.trades \in Seq(TradeType)
      /\ run.pos = <<>> \/ \E r \in RowType : run.pos = <<r>>
  BY DEF RunType
<1>2. ASSUME run.pos # <<>> PROVE run.pos[1] \in RowType /\ Trade(run.pos[1], row, FALSE) \in TradeType
  BY <1>1, <1>2 DEF Trade, TradeType
<1>3. run.pos # <<>> => Append(run.trades, Trade(run.pos[1], row, FALSE)) \in Seq(TradeType)
  <2> DEFINE t == Trade(run.pos[1], row, FALSE)
  <2>1. run.pos # <<>> => t \in TradeType
    BY <1>2
  <2> HIDE DEF t
  <2>2. run.pos # <<>> => Append(run.trades, t) \in Seq(TradeType)
    BY <1>1, <2>1
  <2> QED
    BY <2>2 DEF t
<1>4. Bar(run, row, strategy).trades \in Seq(TradeType)
  BY <1>1, <1>3 DEF Bar
<1>5. Bar(run, row, strategy).pos \in {<<>>} \cup {<<r>> : r \in RowType}
  BY <1>1 DEF Bar
<1> QED
  BY <1>4, <1>5 DEF Bar, RunType

\* A session that the next bar leaves with the last one no hard exit is short.
LEMMA LeftShort ==
  ASSUME NEW rows, Replayed(rows), NEW i \in 1..(Len(rows) - 1), ~rows[i].hardExit,
         rows[i + 1].session # rows[i].session
  PROVE  Short(rows, rows[i].session)
<1> SUFFICES ASSUME NEW j \in 1..Len(rows), rows[j].session = rows[i].session
             PROVE  ~rows[j].hardExit
  BY DEF Short
<1>1. \A k \in 1..Len(rows) : rows[k].session \in Int
  <2>1. \A k \in 1..Len(rows) : rows[k] \in RowType
    BY DEF Replayed
  <2> QED
    BY <2>1 DEF RowType
<1>2. Len(rows) \in Nat /\ i \in 1..Len(rows) /\ i + 1 \in 1..Len(rows)
  BY DEF Replayed
<1>3. CASE j <= i
  <2>1. GoesOn(rows[j], rows[i])
    BY <1>2, <1>3, LaterRowGoesOn
  <2> QED
    BY <2>1 DEF GoesOn
<1>4. CASE i + 1 <= j
  <2>1. GoesOn(rows[i + 1], rows[j]) /\ GoesOn(rows[i], rows[i + 1])
    BY <1>2, <1>4, LaterRowGoesOn
  <2>2. rows[i].session <= rows[i + 1].session /\ rows[i + 1].session <= rows[j].session
    BY <2>1 DEF GoesOn
  <2>3. rows[i + 1].session = rows[i].session
    BY <1>1, <1>2, <2>2
  <2> QED
    BY <2>3
<1> QED
  BY <1>2, <1>3, <1>4

LEMMA BarWithin ==
  ASSUME NEW rows, Replayed(rows), NEW i \in 0..(Len(rows) - 1), NEW strategy,
         NEW run \in RunType, Within(rows, run, rows[i]), i = 0 => run.pos = <<>>
  PROVE  Within(rows, Bar(run, rows[i + 1], strategy), rows[i + 1])
<1> DEFINE row == rows[i + 1]
<1> DEFINE next == Bar(run, row, strategy)
<1> DEFINE closes == run.pos # <<>> /\ Closes(run.pos[1], row, strategy.exit)
<1> DEFINE trade == Trade(run.pos[1], row, FALSE)
<1>1. /\ next.trades = IF closes THEN Append(run.trades, trade) ELSE run.trades
      /\ \/ next.pos = run.pos /\ ~closes
         \/ next.pos = <<>>
         \/ next.pos = <<row>> /\ ~row.hardExit
  <2> DEFINE flat == closes \/ run.pos = <<>>
  <2> DEFINE enters == flat /\ row.inWindow /\ ~row.hardExit /\ row.t \in strategy.entry
  <2>1. next = [pos |-> IF enters THEN <<row>> ELSE IF flat THEN <<>> ELSE run.pos,
                trades |-> IF closes THEN Append(run.trades, trade) ELSE run.trades]
    BY Zenon DEF Bar
  <2>2. /\ next.pos = IF enters THEN <<row>> ELSE IF flat THEN <<>> ELSE run.pos
        /\ next.trades = IF closes THEN Append(run.trades, trade) ELSE run.trades
    <3> HIDE DEF next, enters, flat, closes, trade
    <3> QED
      BY <2>1
  <2>3. (enters => ~row.hardExit) /\ (~flat => ~closes)
    OBVIOUS
  <2> HIDE DEF next, enters, flat, closes, trade, row
  <2>4. \/ next.pos = run.pos /\ ~closes
        \/ next.pos = <<>>
        \/ next.pos = <<row>> /\ ~row.hardExit
    BY <2>2, <2>3
  <2> QED
    BY <2>2, <2>4
<1>2. ASSUME next.pos # <<>> PROVE next.pos[1].session = row.session /\ ~row.hardExit
  <2>1. CASE next.pos = run.pos /\ ~closes
    BY <1>2, <2>1 DEF Closes
  <2>2. CASE next.pos = <<row>> /\ ~row.hardExit
    BY <2>2
  <2> QED
    BY <1>1, <1>2, <2>1, <2>2
<1>3. ASSUME closes, trade.to.session # trade.from.session PROVE Short(rows, trade.from.session)
  <2>1. trade.to = row /\ trade.from = run.pos[1]
    BY DEF Trade
  <2>2. run.pos # <<>> /\ i # 0
    BY <1>3
  <2>3. run.pos[1].session = rows[i].session /\ ~rows[i].hardExit
    BY <2>2 DEF Within
  <2>4. i \in 1..(Len(rows) - 1)
    BY <2>2 DEF Replayed
  <2> QED
    BY <1>3, <2>1, <2>3, <2>4, LeftShort
<1> HIDE DEF closes, trade, next, row
<1>4. ASSUME NEW k \in 1..Len(next.trades),
             next.trades[k].to.session # next.trades[k].from.session
      PROVE  Short(rows, next.trades[k].from.session)
  <2>1. \A m \in 1..Len(run.trades) :
          run.trades[m].to.session # run.trades[m].from.session =>
            Short(rows, run.trades[m].from.session)
    BY DEF Within
  <2>2. CASE ~closes
    BY <1>1, <1>4, <2>1, <2>2
  <2>3. CASE closes
    <3>1. run.trades \in Seq(TradeType) /\ Len(run.trades) \in Nat
      BY DEF RunType
    <3>2. next.trades = Append(run.trades, trade)
      BY <1>1, <2>3
    <3>3. \/ k \in 1..Len(run.trades) /\ next.trades[k] = run.trades[k]
          \/ next.trades[k] = trade
      BY <3>1, <3>2
    <3> QED
      BY <1>3, <1>4, <2>1, <2>3, <3>3
  <2> QED
    BY <2>2, <2>3
<1>5. Within(rows, next, row)
  BY <1>2, <1>4 DEF Within
<1> QED
  BY <1>5 DEF next, row

\* The state of a simulation before its first bar, and a run through all of them.
Started == [pos |-> <<>>, trades |-> <<>>]
Runs(f, rows, strategy) ==
  f = [i \in 0..Len(rows) |-> IF i = 0 THEN Started ELSE Bar(f[i - 1], rows[i], strategy)]

LEMMA StartedTyped == Started \in RunType
BY DEF Started, RunType

LEMMA RunExists ==
  ASSUME NEW rows \in Seq(RowType), NEW strategy
  PROVE  \E f : Runs(f, rows, strategy)
<1> DEFINE n == Len(rows)
<1> DEFINE step == [p \in RunType \X (1..n) |-> Bar(p[1], rows[p[2]], strategy)]
<1>1. n \in Nat /\ \A i \in 1..n : rows[i] \in RowType
  OBVIOUS
<1>2. step \in [RunType \X (1..n) -> RunType]
  <2>1. \A p \in RunType \X (1..n) : Bar(p[1], rows[p[2]], strategy) \in RunType
    BY <1>1, BarTyped
  <2> QED
    BY <2>1
<1>3. PICK f \in [0..n -> RunType] :
        f[0] = Started /\ \A i \in 1..n : f[i] = step[<<f[i - 1], i>>]
  <2> HIDE DEF step, n
  <2>1. Recursive(n, RunType, Started, step)
    BY <1>1, <1>2, StartedTyped, Recursion, Zenon
  <2> QED
    BY <2>1 DEF Recursive
<1>4. ASSUME NEW i \in 1..n PROVE f[i] = Bar(f[i - 1], rows[i], strategy)
  <2>1. f[i - 1] \in RunType
    BY <1>1
  <2>2. step[<<f[i - 1], i>>] = Bar(f[i - 1], rows[i], strategy)
    BY <2>1
  <2> QED
    BY <1>3, <2>2
<1>5. Runs(f, rows, strategy)
  BY <1>1, <1>3, <1>4 DEF Runs
<1> QED
  BY <1>5

\* After any number of bars the run is within bounds.
LEMMA RunWithin ==
  ASSUME NEW rows, Replayed(rows), NEW strategy, NEW run, Runs(run, rows, strategy),
         NEW k \in 0..Len(rows)
  PROVE  run[k] \in RunType /\ Within(rows, run[k], rows[k]) /\ (k = 0 => run[k].pos = <<>>)
<1> DEFINE n == Len(rows)
<1> DEFINE Fine(i) ==
      run[i] \in RunType /\ Within(rows, run[i], rows[i]) /\ (i = 0 => run[i].pos = <<>>)
<1> DEFINE T == {i \in Nat : i <= n => Fine(i)}
<1>1. n \in Nat /\ \A i \in 1..n : rows[i] \in RowType
  BY DEF Replayed
<1>2. run[0] = Started /\ \A i \in 1..n : run[i] = Bar(run[i - 1], rows[i], strategy)
  BY <1>1 DEF Runs
<1>3. 0 \in T
  <2>1. Fine(0)
    BY <1>2, StartedTyped DEF Within, Started
  <2> QED
    BY <2>1
<1>4. ASSUME NEW i \in Nat, i \in T PROVE i + 1 \in T
  <2> SUFFICES ASSUME i + 1 <= n PROVE Fine(i + 1)
    OBVIOUS
  <2>1. Fine(i) /\ i \in 0..(n - 1) /\ i + 1 \in 1..n /\ (i + 1) - 1 = i /\ i + 1 # 0
    BY <1>1, <1>4
  <2>2. run[i + 1] = Bar(run[i], rows[i + 1], strategy)
    BY <1>2, <2>1
  <2>3. run[i + 1] \in RunType
    BY <1>1, <2>1, <2>2, BarTyped
  <2>4. Within(rows, run[i + 1], rows[i + 1])
    BY <2>1, <2>2, BarWithin
  <2> QED
    BY <2>1, <2>3, <2>4
<1>5. Nat \subseteq T
  <2> HIDE DEF T
  <2> QED
    BY <1>3, <1>4, Induction
<1> QED
  BY <1>1, <1>5

\* No session with a hard exit carries a trade out of it, whatever rows a replay gives.
LEMMA ReplayedCarriesShort ==
  ASSUME NEW rows, Replayed(rows), NEW strategy
  PROVE  OnlyShortSessionsCarry(rows, strategy)
<1> DEFINE n == Len(rows)
<1> DEFINE run == CHOOSE f : Runs(f, rows, strategy)
<1> DEFINE end == run[n]
<1> DEFINE last == Trade(end.pos[1], rows[n], TRUE)
<1> DEFINE trades == IF end.pos = <<>> THEN end.trades ELSE Append(end.trades, last)
<1>1. SimulateIntraday(rows, strategy) = trades
  BY Zenon DEF SimulateIntraday, Runs, Started
<1>2. Runs(run, rows, strategy)
  BY RunExists DEF Replayed
<1>3. n \in Nat /\ rows \in Seq(RowType)
  BY DEF Replayed
<1> HIDE DEF run
<1>4. end \in RunType /\ Within(rows, end, rows[n])
  BY <1>2, <1>3, RunWithin
<1>5. end.pos # <<>> => last.to.session = last.from.session
  BY <1>4 DEF Within, Trade
<1>6. end.trades \in Seq(TradeType) /\ Len(end.trades) \in Nat
  BY <1>4 DEF RunType
<1> HIDE DEF end, last
<1>7. ASSUME NEW i \in DOMAIN trades, trades[i].to.session # trades[i].from.session
      PROVE  Short(rows, trades[i].from.session)
  <2>1. \A k \in 1..Len(end.trades) :
          end.trades[k].to.session # end.trades[k].from.session =>
            Short(rows, end.trades[k].from.session)
    BY <1>4 DEF Within
  <2>2. CASE end.pos = <<>>
    BY <1>6, <1>7, <2>1, <2>2
  <2>3. CASE end.pos # <<>>
    <3>1. trades = Append(end.trades, last)
      BY <2>3
    <3>2. \/ i \in 1..Len(end.trades) /\ trades[i] = end.trades[i]
          \/ trades[i] = last
      BY <1>6, <1>7, <3>1
    <3> QED
      BY <1>5, <1>7, <2>1, <2>3, <3>2
  <2> QED
    BY <2>2, <2>3
<1> HIDE DEF trades
<1>8. DOMAIN rows = 1..n
  BY <1>3
<1> QED
  BY <1>1, <1>7, <1>8 DEF OnlyShortSessionsCarry, Carried, Short

\* Whatever bars a history has or lacks, whatever their size and whatever the strategy
\* would do, a trade of the simulation is carried into another session only from one
\* none of whose bars is a hard exit (replay_intraday, simulate_intraday).  KeepRth only
\* chooses among the bars.
THEOREM NoOvernightFromFullSession ==
  ASSUME NEW bars \in Seq(Int), NEW minutes \in Nat, NEW strategy
  PROVE  OnlyShortSessionsCarry(ReplayIntraday(bars, minutes), strategy)
<1>1. Replayed(ReplayIntraday(bars, minutes))
  BY ReplayTyped, NextRowGoesOn DEF Replayed
<1> QED
  BY <1>1, ReplayedCarriesShort

-------------------------------------------------------------------------------
(* The clock that counts bars against the one on the wall. *)

\* Bars are at least their size apart, as a vendor's bars of one size are.
Spaced(bars, minutes) == \A i \in 1..(Len(bars) - 1) : bars[i + 1] - bars[i] >= minutes

\* A row a position may be opened at.
Open(rows, r) == r.inWindow /\ \E j \in 1..Len(rows) : r = rows[j]
Entered(rows, run) ==
  /\ run.pos # <<>> => Open(rows, run.pos[1])
  /\ \A i \in 1..Len(run.trades) : Open(rows, run.trades[i].from)

LEMMA BarEntered ==
  ASSUME NEW rows, NEW j \in 1..Len(rows), NEW strategy, NEW run \in RunType,
         Entered(rows, run)
  PROVE  Entered(rows, Bar(run, rows[j], strategy))
<1> DEFINE row == rows[j]
<1> DEFINE next == Bar(run, row, strategy)
<1> DEFINE closes == run.pos # <<>> /\ Closes(run.pos[1], row, strategy.exit)
<1> DEFINE flat == closes \/ run.pos = <<>>
<1> DEFINE enters == flat /\ row.inWindow /\ ~row.hardExit /\ row.t \in strategy.entry
<1> DEFINE trade == Trade(run.pos[1], row, FALSE)
<1>1. /\ next.pos = IF enters THEN <<row>> ELSE IF flat THEN <<>> ELSE run.pos
      /\ next.trades = IF closes THEN Append(run.trades, trade) ELSE run.trades
  <2>1. next = [pos |-> IF enters THEN <<row>> ELSE IF flat THEN <<>> ELSE run.pos,
                trades |-> IF closes THEN Append(run.trades, trade) ELSE run.trades]
    BY Zenon DEF Bar
  <2> HIDE DEF next, enters, flat, closes, trade
  <2> QED
    BY <2>1
<1>2. /\ enters => Open(rows, row)
      /\ closes => trade.from = run.pos[1] /\ Open(rows, run.pos[1])
  BY DEF Open, Trade, Entered
<1>3. run.trades \in Seq(TradeType) /\ Len(run.trades) \in Nat
  BY DEF RunType
<1> HIDE DEF next, enters, flat, closes, trade, row
<1>4. next.pos # <<>> => Open(rows, next.pos[1])
  BY <1>1, <1>2 DEF Entered
<1>5. ASSUME NEW i \in 1..Len(next.trades) PROVE Open(rows, next.trades[i].from)
  <2>1. CASE closes
    <3>1. next.trades = Append(run.trades, trade)
      BY <1>1, <2>1
    <3>2. \/ i \in 1..Len(run.trades) /\ next.trades[i] = run.trades[i]
          \/ next.trades[i] = trade
      BY <1>3, <3>1
    <3> QED
      BY <1>2, <2>1, <3>2 DEF Entered
  <2>2. CASE ~closes
    BY <1>1, <2>2 DEF Entered
  <2> QED
    BY <2>1, <2>2
<1>6. Entered(rows, next)
  BY <1>4, <1>5 DEF Entered
<1> QED
  BY <1>6 DEF next, row

\* Every trade of a simulation is entered at a row of the window.
LEMMA TradesAreEntered ==
  ASSUME NEW rows \in Seq(RowType), NEW strategy,
         NEW i \in DOMAIN SimulateIntraday(rows, strategy)
  PROVE  Open(rows, SimulateIntraday(rows, strategy)[i].from)
<1> DEFINE n == Len(rows)
<1> DEFINE run == CHOOSE f : Runs(f, rows, strategy)
<1> DEFINE end == run[n]
<1> DEFINE last == Trade(end.pos[1], rows[n], TRUE)
<1> DEFINE trades == IF end.pos = <<>> THEN end.trades ELSE Append(end.trades, last)
<1>1. SimulateIntraday(rows, strategy) = trades
  BY Zenon DEF SimulateIntraday, Runs, Started
<1>2. Runs(run, rows, strategy)
  BY RunExists
<1>3. n \in Nat /\ \A k \in 1..n : rows[k] \in RowType
  OBVIOUS
<1> HIDE DEF run
<1>4. run[n] \in RunType /\ Entered(rows, run[n])
  <2> DEFINE Fine(k) == run[k] \in RunType /\ Entered(rows, run[k])
  <2> DEFINE T == {k \in Nat : k <= n => Fine(k)}
  <2>1. run[0] = Started /\ \A k \in 1..n : run[k] = Bar(run[k - 1], rows[k], strategy)
    BY <1>2, <1>3 DEF Runs
  <2>2. 0 \in T
    <3>1. Fine(0)
      BY <2>1, StartedTyped DEF Entered, Started
    <3> QED
      BY <3>1
  <2>3. ASSUME NEW k \in Nat, k \in T PROVE k + 1 \in T
    <3> SUFFICES ASSUME k + 1 <= n PROVE Fine(k + 1)
      OBVIOUS
    <3>1. Fine(k) /\ k + 1 \in 1..n /\ (k + 1) - 1 = k
      BY <1>3, <2>3
    <3>2. run[k + 1] = Bar(run[k], rows[k + 1], strategy)
      BY <2>1, <3>1
    <3>3. run[k + 1] \in RunType
      BY <1>3, <3>1, <3>2, BarTyped
    <3>4. Entered(rows, run[k + 1])
      BY <3>1, <3>2, BarEntered
    <3> QED
      BY <3>3, <3>4
  <2>4. Nat \subseteq T
    <3> HIDE DEF T
    <3> QED
      BY <2>2, <2>3, Induction
  <2> QED
    BY <1>3, <2>4
<1>5. end.trades \in Seq(TradeType) /\ Len(end.trades) \in Nat
  BY <1>4 DEF RunType
<1>6. end.pos # <<>> => last.from = end.pos[1] /\ Open(rows, end.pos[1])
  BY <1>4 DEF Entered, Trade
<1>7. \A k \in 1..Len(end.trades) : Open(rows, end.trades[k].from)
  BY <1>4 DEF Entered
<1> HIDE DEF end, last
<1>8. ASSUME NEW k \in DOMAIN trades PROVE Open(rows, trades[k].from)
  <2>1. CASE end.pos = <<>>
    BY <1>5, <1>7, <2>1
  <2>2. CASE end.pos # <<>>
    <3>1. trades = Append(end.trades, last)
      BY <2>2
    <3>2. \/ k \in 1..Len(end.trades) /\ trades[k] = end.trades[k]
          \/ trades[k] = last
      BY <1>5, <3>1
    <3> QED
      BY <1>6, <1>7, <2>2, <3>2
  <2> QED
    BY <2>1, <2>2
<1> HIDE DEF trades
<1> QED
  BY <1>1, <1>8

\* From one bar of the regular session to another of the same day the wall clock goes on
\* by what lies between them.
LEMMA SameDay ==
  ASSUME NEW t \in Int, NEW u \in Int, NEW offset \in Int,
         InRth(t, offset), 0 <= u - t, u - t <= SessionGapMin
  PROVE  MinuteEt(u, offset) = MinuteEt(t, offset) + (u - t)
<1> DEFINE a == t - 60 * offset
<1> DEFINE d == u - t
<1>1. a \in Int /\ d \in Int /\ u - 60 * offset = a + d
  OBVIOUS
<1>2. a % 1440 < 960 /\ 0 <= d /\ d <= 120
  BY DEF InRth, MinuteEt, SessionGapMin
<1> HIDE DEF a, d
<1>3. (a + d) % 1440 = (a % 1440) + d
  BY <1>1, <1>2
<1> QED
  BY <1>1, <1>3 DEF MinuteEt, a, d

\* A session that begins no earlier than the open, with bars at least their size apart,
\* is never ahead of the wall clock.
LEMMA ClockBehind ==
  ASSUME NEW bars \in Seq(Int), NEW minutes \in Nat, NEW offset \in Int,
         Spaced(bars, minutes), \A i \in 1..Len(bars) : InRth(bars[i], offset),
         NEW i \in 1..Len(bars), NEW f \in 1..i, BeginsAt(bars, i, f)
  PROVE  MinuteEt(bars[i], offset) >= 570 + (i - f) * minutes
<1> DEFINE n == Len(bars)
<1> DEFINE Behind(k, g) == MinuteEt(bars[k], offset) >= 570 + (k - g) * minutes
<1> DEFINE T == {k \in Nat : k + 1 <= n =>
                   \A g \in 1..(k + 1) : BeginsAt(bars, k + 1, g) => Behind(k + 1, g)}
<1>1. ASSUME NEW k \in 1..n PROVE Behind(k, k)
  <2>1. (k - k) * minutes = 0
    OBVIOUS
  <2>2. MinuteEt(bars[k], offset) >= 570
    BY DEF InRth
  <2> QED
    BY <2>1, <2>2
<1>2. 0 \in T
  <2> SUFFICES ASSUME 0 + 1 <= n, NEW g \in 1..(0 + 1) PROVE Behind(0 + 1, g)
    OBVIOUS
  <2>1. g = 1 /\ 1 \in 1..n
    OBVIOUS
  <2> QED
    BY <1>1, <2>1
<1>3. ASSUME NEW k \in Nat, k \in T PROVE k + 1 \in T
  <2> DEFINE j == k + 1
  <2> SUFFICES ASSUME j + 1 <= n, NEW g \in 1..(j + 1), BeginsAt(bars, j + 1, g)
               PROVE  Behind(j + 1, g)
    OBVIOUS
  <2>1. j \in 1..(n - 1) /\ j \in 1..n /\ j + 1 \in 1..n
    OBVIOUS
  <2>2. CASE j + 1 \in SessionStarts(bars)
    <3>1. j + 1 \in Begun(bars, j + 1)
      BY <2>1, <2>2 DEF Begun
    <3>2. g = j + 1
      BY <2>1, <3>1 DEF BeginsAt
    <3> QED
      BY <1>1, <2>1, <3>2
  <2>3. CASE j + 1 \notin SessionStarts(bars)
    <3>1. Begun(bars, j + 1) = Begun(bars, j)
      BY <2>1, <2>3, NextBegun
    <3>2. BeginsAt(bars, j, g) /\ g \in 1..j
      BY <2>1, <3>1 DEF BeginsAt, Begun
    <3>3. Behind(j, g)
      BY <1>3, <2>1, <3>2
    <3>4. minutes <= bars[j + 1] - bars[j] /\ bars[j + 1] - bars[j] <= SessionGapMin
      <4>1. bars[j] \in Int /\ bars[j + 1] \in Int
        BY <2>1
      <4>2. (j + 1) - 1 = j /\ j + 1 # 1 /\ j + 1 \in DOMAIN bars
        BY <2>1
      <4>3. ~(bars[j + 1] - bars[j] > SessionGapMin)
        BY <2>3, <4>2 DEF SessionStarts
      <4> QED
        BY <2>1, <4>1, <4>3 DEF Spaced, SessionGapMin
    <3>5. MinuteEt(bars[j + 1], offset) = MinuteEt(bars[j], offset) + (bars[j + 1] - bars[j])
      <4>1. bars[j] \in Int /\ bars[j + 1] \in Int /\ InRth(bars[j], offset)
        BY <2>1
      <4>2. 0 <= bars[j + 1] - bars[j]
        BY <3>4, <4>1
      <4> QED
        BY <3>4, <4>1, <4>2, SameDay
    <3>6. ((j + 1) - g) * minutes = (j - g) * minutes + minutes /\ (j - g) * minutes \in Int
      BY <2>1
    <3>7. MinuteEt(bars[j], offset) \in Int /\ bars[j + 1] - bars[j] \in Int
      <4>1. bars[j] \in Int /\ bars[j + 1] \in Int
        BY <2>1
      <4> HIDE DEF j
      <4>2. bars[j] - 60 * offset \in Int /\ bars[j + 1] - bars[j] \in Int
        BY <4>1
      <4> QED
        BY <4>2 DEF MinuteEt
    <3> HIDE DEF j
    <3> QED
      BY <3>3, <3>4, <3>5, <3>6, <3>7
  <2> QED
    BY <2>2, <2>3
<1>4. Nat \subseteq T
  <2> HIDE DEF T
  <2> QED
    BY <1>2, <1>3, Induction
<1>5. PICK k \in Nat : k + 1 = i
  <2>1. i - 1 \in Nat /\ (i - 1) + 1 = i
    OBVIOUS
  <2> QED
    BY <2>1
<1>6. k \in T /\ k + 1 <= n /\ f \in 1..(k + 1) /\ BeginsAt(bars, k + 1, f)
  BY <1>4, <1>5
<1>7. Behind(k + 1, f)
  <2> HIDE DEF Behind
  <2> QED
    BY <1>6
<1> QED
  BY <1>5, <1>7

LEMMA RowNeverEarly ==
  ASSUME NEW bars \in Seq(Int), NEW minutes \in Nat, NEW offset \in Int,
         Spaced(bars, minutes), \A i \in 1..Len(bars) : InRth(bars[i], offset),
         NEW j \in 1..Len(bars)
  PROVE  LET row == ReplayIntraday(bars, minutes)[j]
         IN  /\ row.inWindow => MinuteEt(row.t, offset) >= 10 * 60
             /\ row.hardExit => MinuteEt(row.t, offset) >= 15 * 60 + 55
<1> DEFINE row == ReplayIntraday(bars, minutes)[j]
<1>1. PICK f \in 1..j : BeginsAt(bars, j, f)
  BY HasBegun
<1> DEFINE mins == (j - f) * minutes
<1>2. row = RowAt(bars, minutes, j, f)
  BY <1>1, RowIs
<1> HIDE DEF row
<1>3. /\ row.t = bars[j]
      /\ row.inWindow => EntryStartMin <= mins
      /\ row.hardExit => mins >= HardExitMin
  BY <1>2 DEF RowAt
<1>4. MinuteEt(bars[j], offset) >= 570 + mins
  BY <1>1, ClockBehind
<1>5. mins \in Int /\ MinuteEt(bars[j], offset) \in Int
  <2>1. j \in Int /\ f \in Int /\ bars[j] \in Int
    OBVIOUS
  <2>2. bars[j] - 60 * offset \in Int /\ j - f \in Int
    BY <2>1
  <2> QED
    BY <2>2 DEF MinuteEt
<1> HIDE DEF mins
<1>6. row.inWindow => MinuteEt(row.t, offset) >= 600
  BY <1>3, <1>4, <1>5 DEF EntryStartMin
<1>7. row.hardExit => MinuteEt(row.t, offset) >= 955
  BY <1>3, <1>4, <1>5 DEF HardExitMin
<1> QED
  BY <1>6, <1>7 DEF row

\* Whatever is missing from the bars of the regular session, no trade is entered before
\* 10:00 in New York and no bar is a hard exit before 15:55 (replay_intraday,
\* simulate_intraday): keep_rth drops what comes before the open, and bars at least their
\* size apart cannot get ahead of the clock.
THEOREM ClockIsNeverEarly ==
  ASSUME NEW bars \in Seq(Int), NEW minutes \in Nat, NEW offset \in Int, NEW strategy,
         Spaced(bars, minutes), \A i \in 1..Len(bars) : InRth(bars[i], offset)
  PROVE  ClockNeverEarly(ReplayIntraday(bars, minutes), strategy, offset)
<1> DEFINE rows == ReplayIntraday(bars, minutes)
<1>1. rows \in Seq(RowType) /\ Len(rows) = Len(bars)
  BY ReplayTyped
<1>2. \A j \in 1..Len(bars) :
        /\ rows[j].inWindow => MinuteEt(rows[j].t, offset) >= 10 * 60
        /\ rows[j].hardExit => MinuteEt(rows[j].t, offset) >= 15 * 60 + 55
  BY RowNeverEarly
<1> HIDE DEF rows
<1> DEFINE trades == SimulateIntraday(rows, strategy)
<1>3. \A i \in DOMAIN trades : Open(rows, trades[i].from)
  BY <1>1, TradesAreEntered
<1> HIDE DEF trades
<1>4. \A i \in DOMAIN trades : MinuteEt(trades[i].from.t, offset) >= 10 * 60
  BY <1>1, <1>2, <1>3 DEF Open
<1>5. DOMAIN rows = 1..Len(bars)
  BY <1>1
<1>6. ClockNeverEarly(rows, strategy, offset)
  BY <1>2, <1>4, <1>5 DEF ClockNeverEarly, trades
<1> QED
  BY <1>6 DEF rows
===============================================================================
