--------------------------- MODULE MarketFeedProofs ---------------------------
(***************************************************************************)
(* What TLAPS proves of MarketFeed, for any bar size and calendar: its     *)
(* types; with whole responses the indicators take the bars in order;      *)
(* with a cutoff before the last bar of a day every entry is on a bar of   *)
(* its own day; and in winter no expiring position outlives the close.     *)
(***************************************************************************)
EXTENDS MarketFeed, TLAPS

USE DEF DayMinutes, At, Utc

-------------------------------------------------------------------------------
(* Days and minutes. *)

\* Time t is minute m of day d.
IsAt(t, d, m) == m < DayMinutes /\ t = At(d, m) /\ Day(t) = d /\ Minute(t) = m

\* A time is its day and its minute of the day.
LEMMA DayAndMinute ==
  ASSUME NEW t \in Nat
  PROVE  \E d, m \in Nat : IsAt(t, d, m)
<1>1. Day(t) \in Nat /\ Minute(t) \in Nat /\ Minute(t) < DayMinutes /\ t = At(Day(t), Minute(t))
  BY DEF Day, Minute
<1> QED
  BY <1>1 DEF IsAt

LEMMA DayOfTime ==
  ASSUME NEW d \in Nat, NEW t \in At(d, 0)..(At(d + 1, 0) - 1)
  PROVE  t \in Nat /\ Day(t) = d /\ Minute(t) = t - At(d, 0)
  BY DEF Day, Minute

\* Regular hours of a day are a range of its minutes.
LEMMA RegularMinutes ==
  ASSUME NEW d \in Nat, NEW t \in At(d, 0)..(At(d + 1, 0) - 1), offset \in {4, 5}
  PROVE  Regular(t) <=> At(d, Utc(9, 30) + 60 * offset) <= t /\ t < At(d, Utc(16, 0) + 60 * offset)
<1>1. Day(t) = d
  BY DayOfTime
<1> QED
  BY <1>1 DEF Regular, Open, Close

\* The day of a time of regular hours, and its place in that day.
LEMMA RegularDay ==
  ASSUME NEW t \in Nat, offset \in {4, 5}, Regular(t)
  PROVE  \E d \in Nat : /\ Day(t) = d
                        /\ At(d, Utc(9, 30) + 60 * offset) <= t
                        /\ t < At(d, Utc(16, 0) + 60 * offset)
<1>1. PICK d, m \in Nat : IsAt(t, d, m)
  BY DayAndMinute
<1> QED
  BY <1>1 DEF IsAt, Regular, Open, Close

\* A time of regular hours a bar earlier is of the same day.
LEMMA EarlierBar ==
  ASSUME NEW b \in Nat, offset \in {4, 5}, Regular(b), Regular(b - BarMinutes)
  PROVE  b - BarMinutes \in Nat /\ Day(b - BarMinutes) = Day(b)
<1>1. PICK d \in Nat : Day(b) = d /\ At(d, 810) <= b /\ b < At(d + 1, 0)
  BY RegularDay
<1>2. b - BarMinutes \in At(d, 0)..(At(d + 1, 0) - 1)
  BY <1>1, FeedAssumption
<1> QED
  BY <1>1, <1>2, DayOfTime

\* Every bar opens before the one that follows it.
LEMMA NextBarIsLater ==
  ASSUME NEW b \in Nat, offset \in {4, 5}
  PROVE  NextBar(b) \in Nat /\ NextBar(b) > b
<1>1. PICK d, m \in Nat : IsAt(b, d, m)
  BY DayAndMinute
<1>2. Open(Day(b) + 1) \in Nat /\ Open(Day(b) + 1) > b
  BY <1>1 DEF IsAt, Open
<1> QED
  BY <1>1, <1>2, FeedAssumption DEF IsAt, NextBar

\* The bar after a bar is one of regular hours, of the same day or the next.
LEMMA NextBarIsRegular ==
  ASSUME NEW b \in Nat, offset \in {4, 5}, Regular(b)
  PROVE  /\ NextBar(b) \in Nat /\ Regular(NextBar(b))
         /\ IF b + BarMinutes < Close(Day(b))
            THEN NextBar(b) = b + BarMinutes /\ Day(NextBar(b)) = Day(b)
            ELSE NextBar(b) = Open(Day(b) + 1) /\ Day(NextBar(b)) = Day(b) + 1
<1>1. PICK d \in Nat : /\ Day(b) = d
                       /\ At(d, 570 + 60 * offset) <= b
                       /\ b < At(d, 960 + 60 * offset)
  BY RegularDay
<1>2. CASE b + BarMinutes < Close(d)
  <2>1. NextBar(b) = b + BarMinutes
    BY <1>1, <1>2 DEF NextBar
  <2>2. b + BarMinutes \in At(d, 0)..(At(d + 1, 0) - 1)
    BY <1>1, <1>2, FeedAssumption DEF Close
  <2>3. Regular(b + BarMinutes)
    BY <1>1, <1>2, <2>2, RegularMinutes, FeedAssumption DEF Close
  <2> QED
    BY <1>1, <1>2, <2>1, <2>2, <2>3, DayOfTime
<1>3. CASE ~(b + BarMinutes < Close(d))
  <2>1. NextBar(b) = Open(d + 1)
    BY <1>1, <1>3 DEF NextBar
  <2>2. d + 1 \in Nat /\ Open(d + 1) \in At(d + 1, 0)..(At(d + 2, 0) - 1)
    BY DEF Open
  <2>3. Regular(Open(d + 1))
    <3>1. At(d + 1, 570 + 60 * offset) <= Open(d + 1) /\ Open(d + 1) < At(d + 1, 960 + 60 * offset)
      BY DEF Open
    <3> QED
      BY <2>2, <3>1, RegularMinutes
  <2>4. Open(d + 1) \in Nat /\ Day(Open(d + 1)) = d + 1
    BY <2>2, DayOfTime
  <2> QED
    BY <1>1, <1>3, <2>1, <2>3, <2>4
<1> QED
  BY <1>2, <1>3

-------------------------------------------------------------------------------
(* The venue's clock. *)

\* What is served is of today, or it is the last bar of yesterday.
ClockInv ==
  /\ offset \in {4, 5} /\ offset \in Offsets
  /\ now \in Nat /\ Minute(now) \in FirstHour..LastHour /\ Day(now) \in 1..MaxDay
  /\ served \in Nat /\ Regular(served) /\ served <= now
  /\ \/ Day(served) = Day(now)
     \/ /\ Day(served) + 1 = Day(now)
        /\ served + BarMinutes >= Close(Day(served))

\* The same, with the days and the minute named.
ClockAt(d, m, s) ==
  /\ now = At(d, m) /\ Day(now) = d /\ d \in 1..MaxDay
  /\ Minute(now) = m /\ m \in FirstHour..LastHour
  /\ Day(served) = s /\ s \in Nat
  /\ At(s, 570 + 60 * offset) <= served /\ served < At(s, 960 + 60 * offset)
  /\ s = d \/ (s + 1 = d /\ served + BarMinutes >= Close(s))

LEMMA ClockNamed ==
  ASSUME ClockInv
  PROVE  \E d, m, s \in Nat : ClockAt(d, m, s)
<1>1. PICK d, m \in Nat : IsAt(now, d, m)
  BY DayAndMinute DEF ClockInv
<1>2. PICK s \in Nat : /\ Day(served) = s
                       /\ At(s, 570 + 60 * offset) <= served
                       /\ served < At(s, 960 + 60 * offset)
  BY RegularDay DEF ClockInv
<1>3. ClockAt(d, m, s)
  BY <1>1, <1>2 DEF IsAt, ClockInv, ClockAt
<1> QED
  BY <1>3

LEMMA ClockInit == Init => ClockInv
<1> SUFFICES ASSUME Init PROVE ClockInv
  OBVIOUS
<1>1. offset \in {4, 5} /\ offset \in Offsets /\ BarMinutes \in 1..60 /\ MaxDay \in Nat \ {0}
  BY FeedAssumption DEF Init
<1>2. now = At(1, 780) /\ served = At(0, 960 + 60 * offset) - BarMinutes
  BY <1>1 DEF Init, Close, FirstHour
<1>3. now \in Nat /\ Day(now) = 1 /\ Minute(now) = 780
  BY <1>2, DayOfTime
<1>4. served \in At(0, 0)..(At(1, 0) - 1)
  BY <1>1, <1>2
<1>5. served \in Nat /\ Day(served) = 0
  BY <1>4, DayOfTime
<1>6. served + BarMinutes >= Close(0)
  BY <1>1, <1>2 DEF Close
<1>7. Regular(served)
  BY <1>1, <1>2, <1>5 DEF Regular, Open, Close
<1> QED
  BY <1>1, <1>2, <1>3, <1>5, <1>6, <1>7 DEF ClockInv, FirstHour, LastHour

\* Serving a bar catches up with the day.
LEMMA ServeKeepsClock == ClockInv /\ ServeBar => ClockInv'
<1> SUFFICES ASSUME ClockInv, ServeBar PROVE ClockInv'
  OBVIOUS
<1>1. /\ served' = NextBar(served) /\ NextBar(served) <= now
      /\ now' = now /\ offset' = offset /\ offset \in {4, 5}
  BY DEF ServeBar, ClockInv
<1>2. NextBar(served) \in Nat /\ Regular(NextBar(served))
  BY <1>1, NextBarIsRegular DEF ClockInv
<1>3. PICK d, m, s \in Nat : ClockAt(d, m, s)
  BY ClockNamed
<1>4. Day(NextBar(served)) = d
  <2>1. CASE served + BarMinutes < Close(s)
    <3>1. Day(NextBar(served)) = s
      BY <1>3, <2>1, NextBarIsRegular DEF ClockAt, ClockInv
    <3> QED
      BY <1>1, <1>3, <2>1, <3>1, FeedAssumption DEF ClockAt, ClockInv, Close
  <2>2. CASE ~(served + BarMinutes < Close(s))
    <3>1. NextBar(served) = Open(s + 1) /\ Day(NextBar(served)) = s + 1
      BY <1>3, <2>2, NextBarIsRegular DEF ClockAt, ClockInv
    <3>2. s # d
      BY <1>1, <1>3, <3>1 DEF ClockAt, Open, LastHour
    <3> QED
      BY <1>3, <3>1, <3>2 DEF ClockAt
  <2> QED
    BY <2>1, <2>2
<1>5. Regular(served)'
  BY <1>1, <1>2 DEF Regular, Open, Close
<1>6. Day(now)' = d /\ Minute(now)' = Minute(now) /\ Day(now) = d
  BY <1>1, <1>3 DEF ClockAt, Minute, Day
<1>7. Day(served)' = d
  BY <1>1, <1>4 DEF Day
<1> QED
  BY <1>1, <1>2, <1>5, <1>6, <1>7 DEF ClockInv

\* The venue serves whatever is due before the clock goes on, and the clock passes
\* the close before a day ends; so it is never more than a night behind.
LEMMA TickKeepsClock == ClockInv /\ Tick => ClockInv'
<1> SUFFICES ASSUME ClockInv, Tick PROVE ClockInv'
  OBVIOUS
<1>1. /\ served' = served /\ NextBar(served) > now /\ offset' = offset
      /\ offset \in {4, 5} /\ BarMinutes \in 1..60 /\ served \in Nat /\ served <= now
  BY FeedAssumption DEF Tick, ClockInv
<1>2. PICK d, m, s \in Nat : ClockAt(d, m, s)
  BY ClockNamed
<1>3. Day(served)' = s /\ Regular(served)' /\ Day(now)' <= MaxDay /\ offset' \in Offsets
  BY <1>1, <1>2 DEF ClockInv, ClockAt, Tick, Day, Regular, Open, Close
<1>4. CASE m + BarMinutes <= LastHour
  <2>1. now' = At(d, m + BarMinutes)
    BY <1>1, <1>2, <1>4 DEF Tick, ClockAt
  <2>2. now' \in At(d, 0)..(At(d + 1, 0) - 1)
    BY <1>1, <1>2, <1>4, <2>1 DEF LastHour
  <2>3. now' \in Nat /\ Day(now)' = d /\ Minute(now)' = m + BarMinutes
    BY <1>1, <1>2, <2>1, <2>2, DayOfTime
  <2>4. served <= now'
    BY <1>1, <1>2, <2>1 DEF ClockAt
  <2>5. s = d \/ (s + 1 = d /\ served + BarMinutes >= Close(s))
    BY <1>2 DEF ClockAt
  <2> QED
    BY <1>1, <1>2, <1>3, <1>4, <2>3, <2>4, <2>5 DEF ClockInv, ClockAt, FirstHour, LastHour, Close
<1>5. CASE ~(m + BarMinutes <= LastHour)
  <2>1. now' = At(d + 1, 780)
    BY <1>1, <1>2, <1>5 DEF Tick, ClockAt, FirstHour
  <2>2. now' \in Nat /\ Day(now)' = d + 1 /\ Minute(now)' = 780
    BY <1>2, <2>1, DayOfTime
  <2>3. served <= now'
    BY <1>1, <1>2, <2>1 DEF ClockAt, LastHour
  <2>4. now >= Close(d)
    BY <1>1, <1>2, <1>5 DEF ClockAt, LastHour, Close
  <2>5. s = d /\ served + BarMinutes >= Close(s)
    <3>1. CASE s = d
      <4>1. CASE served + BarMinutes < Close(s)
        BY <1>1, <1>2, <2>4, <3>1, <4>1 DEF ClockAt, NextBar, Close
      <4> QED
        BY <1>1, <3>1, <4>1 DEF Close
    <3>2. CASE s + 1 = d /\ served + BarMinutes >= Close(s)
      <4>1. NextBar(served) = Open(d)
        BY <1>1, <1>2, <3>2 DEF ClockAt, NextBar, Close
      <4> QED
        BY <1>1, <1>2, <2>4, <4>1 DEF Open, Close, ClockAt
    <3> QED
      BY <1>2, <3>1, <3>2 DEF ClockAt
  <2> QED
    BY <1>1, <1>2, <1>3, <2>2, <2>3, <2>5 DEF ClockInv, ClockAt, FirstHour, LastHour, Close
<1> QED
  BY <1>1, <1>2, <1>4, <1>5 DEF LastHour

LEMMA ClockNext == ClockInv /\ [Next]_vars => ClockInv'
<1> SUFFICES ASSUME ClockInv, [Next]_vars PROVE ClockInv'
  OBVIOUS
<1>1. CASE UNCHANGED <<offset, now, served>>
  BY <1>1 DEF ClockInv, Regular, Open, Close, Minute, Day
<1> QED
  BY <1>1, ServeKeepsClock, TickKeepsClock DEF Next, vars, Start, Poll

\* What a response can end in.
LEMMA ResponseIsServed ==
  ASSUME ClockInv, NEW b \in Responses
  PROVE  /\ b \in Nat /\ b <= served /\ Regular(b) /\ Day(b) = Day(served)
         /\ b >= served - (IF Partial THEN BarMinutes ELSE 0)
  BY EarlierBar, FeedAssumption DEF ClockInv, Responses

-------------------------------------------------------------------------------
(* The order of the bars. *)

\* What the provider and the indicators have seen is no newer than what the venue
\* serves, and before the first emit it is older.
SeenIsServed ==
  /\ offset \in {4, 5}
  /\ served \in Nat /\ served >= 60 /\ fed \in Nat
  /\ fed <= served
  /\ lastBar # 0 => lastBar = fed
  /\ lastBar = 0 => fed < served

\* Before the first poll nothing newer than the served bar was seen.
LEMMA SeenInit == Init => SeenIsServed
<1> SUFFICES ASSUME Init PROVE SeenIsServed
  OBVIOUS
<1> QED
  BY FeedAssumption DEF Init, SeenIsServed, Close

\* What was seen stays no newer than what is served.
LEMMA SeenNext ==
  ASSUME ~Partial
  PROVE  SeenIsServed /\ [Next]_vars => SeenIsServed'
<1> SUFFICES ASSUME SeenIsServed, [Next]_vars PROVE SeenIsServed'
  OBVIOUS
<1> USE DEF SeenIsServed
<1>1. CASE ServeBar
  BY <1>1, NextBarIsLater DEF ServeBar
<1>2. CASE Tick
  BY <1>2 DEF Tick
<1>3. CASE Start
  BY <1>3, FeedAssumption DEF Start
<1>4. CASE Poll
  BY <1>4 DEF Poll, Responses
<1>5. CASE UNCHANGED vars
  BY <1>5 DEF vars
<1> QED
  BY <1>1, <1>2, <1>3, <1>4, <1>5 DEF Next

\* An emitted bar is newer than the last one the indicators took.
LEMMA SeenOrders ==
  ASSUME ~Partial
  PROVE  SeenIsServed /\ [Next]_vars => [Emits => fed' > fed]_vars
<1> SUFFICES ASSUME SeenIsServed, [Next]_vars, Emits PROVE fed' > fed
  OBVIOUS
<1>1. Poll
  BY DEF Emits, Next, vars, ServeBar, Tick, Start
<1> QED
  BY <1>1 DEF Poll, Responses, SeenIsServed

\* With whole responses no bar reaches the indicators twice or late.
THEOREM BarsArriveInOrder ==
  ASSUME ~Partial
  PROVE  Spec => BarsInOrder
<1>1. SeenIsServed /\ [Next]_vars => SeenIsServed'
  BY SeenNext
<1>2. SeenIsServed /\ [Next]_vars => [Emits => fed' > fed]_vars
  BY SeenOrders
<1> QED
  BY <1>1, <1>2, SeenInit, PTL DEF Spec, BarsInOrder
-------------------------------------------------------------------------------
(* Types. *)

\* The rest of the type invariant.
SeenTyped ==
  /\ {lastBar, fed} \subseteq Nat
  /\ lastBar # 0 => lastBar = fed
  /\ held \in BOOLEAN /\ expiry \in 0..MaxDay
  /\ {shown, lapsed} \subseteq BOOLEAN

LEMMA SeenTypedNext == ClockInv /\ SeenTyped /\ [Next]_vars => SeenTyped'
<1> SUFFICES ASSUME ClockInv, SeenTyped, [Next]_vars PROVE SeenTyped'
  OBVIOUS
<1>1. CASE UNCHANGED <<lastBar, fed, position>>
  BY <1>1 DEF SeenTyped, position
<1>2. CASE Start
  <2>1. fed' \in Nat /\ lastBar' = 0 /\ expiry' = expiry
    BY <1>2, EarlierBar DEF Start, ClockInv
  <2>2. held' = FALSE /\ shown' = FALSE /\ lapsed' = FALSE
    BY <1>2 DEF Start
  <2>3. {lastBar', fed'} \subseteq Nat /\ expiry' \in 0..MaxDay
    BY <2>1 DEF SeenTyped
  <2>4. held' \in BOOLEAN /\ {shown', lapsed'} \subseteq BOOLEAN
    BY <2>2
  <2> QED
    BY <2>1, <2>3, <2>4 DEF SeenTyped
<1>3. CASE Poll
  <2>1. PICK b \in Responses : lastBar' = b /\ fed' = b /\ (Manage(b) \/ Enter(b) \/ NoEntry)
    BY <1>3 DEF Poll
  <2>2. b \in Nat /\ Day(b) = Day(served)
    BY ResponseIsServed
  <2>3. Day(b) \in 0..MaxDay
    <3>1. PICK d, m, s \in Nat : ClockAt(d, m, s)
      BY ClockNamed
    <3> QED
      BY <2>2, <3>1, FeedAssumption DEF ClockAt
  <2>4. CASE Manage(b)
    BY <2>1, <2>2, <2>4 DEF Manage, SeenTyped
  <2>5. CASE Enter(b)
    BY <2>1, <2>2, <2>3, <2>5 DEF Enter, SeenTyped
  <2>6. CASE NoEntry
    BY <2>1, <2>2, <2>6 DEF NoEntry, SeenTyped, position
  <2> QED
    BY <2>1, <2>4, <2>5, <2>6
<1> QED
  BY <1>1, <1>2, <1>3 DEF Next, vars, ServeBar, Tick

LEMMA FeedInductive == Spec => [](ClockInv /\ SeenTyped)
<1>1. Init => ClockInv /\ SeenTyped
  <2> SUFFICES ASSUME Init PROVE ClockInv /\ SeenTyped
    OBVIOUS
  <2>1. lastBar = 0 /\ fed = 0 /\ expiry \in 0..MaxDay
    BY FeedAssumption DEF Init
  <2>2. held \in BOOLEAN /\ {shown, lapsed} \subseteq BOOLEAN
    BY DEF Init
  <2> QED
    BY <2>1, <2>2, ClockInit DEF SeenTyped
<1>2. ClockInv /\ SeenTyped /\ [Next]_vars => (ClockInv /\ SeenTyped)'
  BY ClockNext, SeenTypedNext
<1> QED
  BY <1>1, <1>2, PTL DEF Spec

\* Every variable of the feed keeps its type; with it, that a bar served is one of
\* regular hours and not of the future, and that the provider's last bar is the
\* indicators' (IBKRSnapshotProvider.__call__).
THEOREM FeedTyped == Spec => []FeedTypeOK
<1>1. ClockInv /\ SeenTyped => FeedTypeOK
  BY DEF ClockInv, SeenTyped, FeedTypeOK
<1> QED
  BY <1>1, FeedInductive, PTL

-------------------------------------------------------------------------------
(* Entries. *)

\* When the venue is still at yesterday's last bar, the bar a response ends in
\* opened after the cutoff.
LEMMA StaleBarIsLate ==
  ASSUME ClockInv, CutoffBeforeLastBar, NEW b \in Responses, Day(served) # Day(now)
  PROVE  ~EvaluateEntryTime(Minute(b))
<1>1. PICK d, m, s \in Nat : ClockAt(d, m, s)
  BY ClockNamed
<1>2. /\ b \in Nat /\ b <= served /\ Regular(b) /\ Day(b) = s
      /\ b >= served - (IF Partial THEN BarMinutes ELSE 0)
  BY <1>1, ResponseIsServed DEF ClockAt
<1>3. served + BarMinutes >= At(s, 960 + 60 * offset)
  BY <1>1 DEF ClockAt, Close
<1>4. PICK d2, m2 \in Nat : IsAt(b, d2, m2)
  BY <1>2, DayAndMinute
<1>5. LastEntryUtc < 960 + 60 * offset - (IF Partial THEN 2 ELSE 1) * BarMinutes
  BY DEF CutoffBeforeLastBar, ClockInv
<1>6. m2 >= 960 + 60 * offset - (IF Partial THEN 2 ELSE 1) * BarMinutes
  BY <1>2, <1>3, <1>4, FeedAssumption DEF IsAt, ClockInv
<1>7. m2 > LastEntryUtc
  BY <1>5, <1>6, FeedAssumption DEF ClockInv
<1> QED
  BY <1>4, <1>7, FeedAssumption DEF IsAt, EvaluateEntryTime

LEMMA EntryStep ==
  ASSUME CutoffBeforeLastBar
  PROVE  ClockInv /\ [Next]_vars => [~held /\ held' => Day(lastBar') = Day(now)]_vars
<1> SUFFICES ASSUME ClockInv, [Next]_vars, ~held, held' PROVE Day(lastBar') = Day(now)
  OBVIOUS
<1>1. PICK b \in Responses : lastBar' = b /\ Enter(b)
  BY DEF Next, vars, position, ServeBar, Tick, Start, Poll, Manage, NoEntry
<1>2. EvaluateEntryTime(Minute(b))
  BY <1>1 DEF Enter
<1>3. Day(served) = Day(now)
  BY <1>2, StaleBarIsLate
<1> QED
  BY <1>1, <1>3, ResponseIsServed

\* With a cutoff that lies before the last bar a response can end in, every entry is
\* decided on a bar of today's session: a start before the open finds yesterday's
\* last bar new, and evaluate_entry_time refuses it.
THEOREM EntriesAreOfToday ==
  ASSUME CutoffBeforeLastBar
  PROVE  Spec => EntryOnToday
<1>1. ClockInv /\ [Next]_vars => [~held /\ held' => Day(lastBar') = Day(now)]_vars
  BY EntryStep
<1> QED
  BY <1>1, FeedInductive, PTL DEF Spec, EntryOnToday

-------------------------------------------------------------------------------
(* The hard stop. *)

\* In winter a bar of the last five minutes is one the hard stop acts on, so a
\* position shown one has had an exit tried, and is still held only if it lapsed.
ShownHasLapsed == offset = 5 /\ held /\ shown => lapsed
WinterInv == SeenTyped /\ ShownHasLapsed

LEMMA LastBarsAreDue ==
  ASSUME offset = 5, NEW b \in Nat, NEW e \in Nat, Day(b) = e, b >= Close(e) - 5
  PROVE  HardStop(Minute(b))
<1>1. PICK d, m \in Nat : IsAt(b, d, m)
  BY DayAndMinute
<1> QED
  BY <1>1 DEF IsAt, Close, HardStop, HardExitUtc

LEMMA ShownNext == ClockInv /\ WinterInv /\ [Next]_vars => ShownHasLapsed'
<1> SUFFICES ASSUME ClockInv, WinterInv, [Next]_vars PROVE ShownHasLapsed'
  OBVIOUS
<1> USE DEF ShownHasLapsed
<1>1. offset' = offset
  BY DEF Next, vars, ServeBar, Tick, Start, Poll
<1>2. CASE UNCHANGED position
  BY <1>1, <1>2 DEF position, WinterInv
<1>3. CASE Start
  BY <1>3 DEF Start
<1>4. ASSUME NEW b \in Responses, Manage(b) PROVE ShownHasLapsed'
  <2>1. CASE offset = 5 /\ Day(b) = expiry /\ b >= Close(expiry) - 5
    <3>1. HardStop(Minute(b))
      BY <2>1, ResponseIsServed, LastBarsAreDue DEF WinterInv, SeenTyped
    <3> QED
      BY <1>4, <3>1 DEF Manage
  <2>2. CASE offset = 5 /\ ~(Day(b) = expiry /\ b >= Close(expiry) - 5)
    BY <1>4, <2>2 DEF Manage, WinterInv
  <2> QED
    BY <1>1, <2>1, <2>2
<1>5. ASSUME NEW b \in Responses, Enter(b) PROVE ShownHasLapsed'
  BY <1>5 DEF Enter
<1> QED
  BY <1>2, <1>3, <1>4, <1>5 DEF Next, vars, ServeBar, Tick, Poll, NoEntry

\* In winter a position is gone at the close of its expiry day, unless its exit was
\* tried and did not fill or no late bar was emitted, whatever the size of the bars,
\* the cutoff, the calendar and the responses (ExitEngine.evaluate).
THEOREM FlatInWinter == Spec => []FlatByCloseInWinter
<1>1. Init => ShownHasLapsed
  BY DEF Init, ShownHasLapsed
<1>2. ClockInv /\ SeenTyped /\ ShownHasLapsed /\ [Next]_vars => ShownHasLapsed'
  BY ShownNext DEF WinterInv
<1>3. ShownHasLapsed => FlatByCloseInWinter
  BY DEF ShownHasLapsed, FlatByCloseInWinter, FlatByClose
<1> QED
  BY <1>1, <1>2, <1>3, FeedInductive, PTL DEF Spec
===============================================================================
