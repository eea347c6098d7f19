-------------------------- MODULE ConsoleBridgeProofs --------------------------
(***************************************************************************)
(* What TLAPS proves of ConsoleBridge for any number of worker threads,    *)
(* trades and processes: its types; the advisor never has two reads in the *)
(* air; no state file, and no page of the console, shows a position as     *)
(* open and counted at once; every process of a day keeps to its loss      *)
(* allowance, which bounds the loss of the day; and the record is that of  *)
(* the trades closed, with the drawdown of their equity curve.             *)
(***************************************************************************)
EXTENDS ConsoleBridge, EquityCurveProofs, SequenceTheorems, TLAPS

Phase == {"none", "read", "risk", "position", "open", "write"}
WorkersTyped == worker \in [Workers -> [pc : Phase, state : [closed : Int, trade : Int]]]
CountsTyped == trade \in Int /\ closed \in Int /\ opened \in Int

-------------------------------------------------------------------------------
(* Single flight. *)

\* A thread alive holds the flag, and only one is.
FlightInv ==
  /\ \A w \in Workers : worker[w].pc # "none" => busy
  /\ SingleFlight

\* The threads of a process that ends, and of one that starts, hold nothing.
LEMMA NoneAlive ==
  worker' = [w \in Workers |-> Idle] => FlightInv'
  BY DEF Idle, FlightInv, SingleFlight

LEMMA FlightKept ==
  WorkersTyped /\ FlightInv /\ [BridgeNext]_allVars => FlightInv'
<1> SUFFICES ASSUME WorkersTyped, FlightInv, [BridgeNext]_allVars PROVE FlightInv'
  OBVIOUS
<1>1. ASSUME UNCHANGED <<worker, busy>> PROVE FlightInv'
  BY <1>1 DEF FlightInv, SingleFlight
<1>2. CASE LoopStarts
  BY <1>1, <1>2 DEF LoopStarts
<1>3. CASE Crash \/ LoopHalts
  BY <1>3, NoneAlive DEF Crash, LoopHalts, ProcessEnds
<1>4. CASE LoopCycles \/ LoopCounts \/ LoopRecords \/ LoopOpens \/ LoopWrites
  BY <1>1, <1>4 DEF LoopCycles, LoopCounts, LoopRecords, LoopOpens, LoopWrites
<1>5. CASE LoopFires
  <2>1. CASE UNCHANGED <<worker, busy>>
    BY <1>1, <2>1
  <2>2. ASSUME NEW v \in Workers, ~busy, busy' = TRUE,
               worker' = [worker EXCEPT ![v].pc = "read"]
        PROVE  FlightInv'
    <3>1. \A w \in Workers \ {v} : worker'[w].pc = "none"
      BY <2>2 DEF FlightInv, WorkersTyped
    <3> QED
      BY <2>2, <3>1 DEF FlightInv, SingleFlight
  <2> QED
    BY <1>5, <2>1, <2>2 DEF LoopFires, MayFire
<1>6. ASSUME NEW w \in Workers, WorkerSteps(w) PROVE FlightInv'
  <2>1. \A v \in Workers \ {w} : worker'[v] = worker[v]
    BY <1>6 DEF WorkerSteps, WorkerReads, WorkerFails, WorkerReadsRisk, WorkerReadsPosition,
      WorkerOpens, WorkerWrites, WorkerGoes, WorkersTyped
  <2>2. worker[w].pc # "none"
    BY <1>6 DEF WorkerSteps, WorkerReads, WorkerFails, WorkerReadsRisk, WorkerReadsPosition,
      WorkerOpens, WorkerWrites, WorkerGoes
  <2>3. worker'[w].pc = "none" \/ busy' = busy
    BY <1>6 DEF WorkerSteps, WorkerReads, WorkerFails, WorkerReadsRisk, WorkerReadsPosition,
      WorkerOpens, WorkerWrites, WorkerGoes, WorkersTyped
  <2>4. \A v \in Workers \ {w} : worker[v].pc = "none"
    BY <2>2 DEF FlightInv, SingleFlight
  <2> QED
    BY <2>1, <2>2, <2>3, <2>4 DEF FlightInv, SingleFlight
<1>7. CASE Rests \/ FileAges \/ ConsoleShows \/ ConsoleKills \/ ConsoleClears
  BY <1>1, <1>7 DEF Rests, FileAges, ConsoleShows, ConsoleKills, ConsoleClears, viewVars
<1>8. CASE UNCHANGED allVars
  BY <1>1, <1>8 DEF allVars, viewVars
<1> QED
  BY <1>2, <1>3, <1>4, <1>5, <1>6, <1>7, <1>8 DEF BridgeNext, LoopThread

LEMMA WorkersKept ==
  WorkersTyped /\ CountsTyped /\ [BridgeNext]_allVars => WorkersTyped'
<1> SUFFICES ASSUME WorkersTyped, CountsTyped, [BridgeNext]_allVars PROVE WorkersTyped'
  OBVIOUS
<1> USE DEF WorkersTyped, Phase
<1>1. ASSUME UNCHANGED worker PROVE WorkersTyped'
  BY <1>1
<1>2. CASE LoopStarts
  BY <1>1, <1>2 DEF LoopStarts
<1>3. CASE Crash \/ LoopHalts
  BY <1>3 DEF Crash, LoopHalts, ProcessEnds, Idle, Nothing
<1>4. CASE LoopCycles \/ LoopCounts \/ LoopRecords \/ LoopOpens \/ LoopWrites
  BY <1>1, <1>4 DEF LoopCycles, LoopCounts, LoopRecords, LoopOpens, LoopWrites
<1>5. CASE LoopFires
  BY <1>5 DEF LoopFires
<1>6. ASSUME NEW w \in Workers, WorkerSteps(w) PROVE WorkersTyped'
  BY <1>6 DEF CountsTyped, WorkerSteps, WorkerReads, WorkerFails, WorkerReadsRisk,
    WorkerReadsPosition, WorkerOpens, WorkerWrites, WorkerGoes, Nothing
<1>7. CASE Rests \/ FileAges \/ ConsoleShows \/ ConsoleKills \/ ConsoleClears
  BY <1>1, <1>7 DEF Rests, FileAges, ConsoleShows, ConsoleKills, ConsoleClears, viewVars
<1>8. CASE UNCHANGED allVars
  BY <1>1, <1>8 DEF allVars, viewVars
<1> QED
  BY <1>2, <1>3, <1>4, <1>5, <1>6, <1>7, <1>8 DEF BridgeNext, LoopThread

-------------------------------------------------------------------------------
(* Open and counted. *)

\* The store is emptied before the governor counts, so an open position is one the
\* governor has not reached.
BooksInv ==
  /\ CountsTyped
  /\ pc \in {"count", "record"} => trade = 0
  /\ pc = "count" => closed < opened
  /\ closed <= opened
  /\ trade # 0 => trade = opened /\ closed < opened

LEMMA BooksKept == BooksInv /\ [BridgeNext]_allVars => BooksInv'
<1> SUFFICES ASSUME BooksInv, [BridgeNext]_allVars PROVE BooksInv'
  OBVIOUS
<1> USE DEF BooksInv, CountsTyped
<1>1. ASSUME UNCHANGED books, pc' = pc \/ pc' \notin {"count", "record"} PROVE BooksInv'
  BY <1>1 DEF books
<1>2. CASE LoopStarts
  BY <1>2 DEF LoopStarts, FreshProcess
<1>3. CASE Crash \/ LoopHalts
  BY <1>1, <1>3 DEF Crash, LoopHalts, ProcessEnds, recordVars
<1>4. CASE LoopCycles
  <2>1. CASE UNCHANGED recordVars /\ pc' = "publish"
    BY <1>1, <2>1 DEF recordVars
  <2>2. CASE OpensPosition /\ pc' = "publish"
    BY <2>2 DEF OpensPosition
  <2>3. CASE ClosesPosition /\ pc = "check" /\ pc' = "count"
    BY <2>3 DEF ClosesPosition
  <2> QED
    BY <1>4, <2>1, <2>2, <2>3 DEF LoopCycles
<1>5. CASE LoopCounts
  BY <1>5 DEF LoopCounts, CountsTrade
<1>6. CASE LoopRecords
  BY <1>1, <1>6 DEF LoopRecords, RecordsTrade
<1>7. CASE LoopOpens \/ LoopWrites \/ LoopFires
  BY <1>1, <1>7 DEF LoopOpens, LoopWrites, LoopFires, recordVars
<1>8. ASSUME NEW w \in Workers, WorkerSteps(w) PROVE BooksInv'
  BY <1>1, <1>8 DEF WorkerSteps, WorkerReads, WorkerFails, WorkerReadsRisk,
    WorkerReadsPosition, WorkerOpens, WorkerWrites, WorkerGoes, recordVars
<1>9. CASE Rests \/ FileAges \/ ConsoleShows \/ ConsoleKills \/ ConsoleClears
  BY <1>1, <1>9 DEF Rests, FileAges, ConsoleShows, ConsoleKills, ConsoleClears, viewVars, recordVars
<1>10. CASE UNCHANGED allVars
  BY <1>1, <1>10 DEF allVars, viewVars, recordVars
<1> QED
  BY <1>2, <1>3, <1>4, <1>5, <1>6, <1>7, <1>8, <1>9, <1>10 DEF BridgeNext, LoopThread

\* What a worker has read stays true of the governor while it lives, and every state
\* on its way to the file, in it, or on the page, is consistent.
Consistent(s) == s.trade # 0 => s.closed < s.trade
ViewInv ==
  /\ \A w \in Workers :
       /\ worker[w].pc # "none" => pc # "down"
       /\ worker[w].pc = "position" => worker[w].state.closed <= closed
       /\ worker[w].pc \in {"open", "write"} => Consistent(worker[w].state)
  /\ Consistent(file.state)
  /\ Consistent(shown.state)

ViewHyp == WorkersTyped /\ BooksInv /\ ViewInv

LEMMA NothingConsistent == Consistent(Nothing)
  BY DEF Consistent, Nothing

LEMMA ViewKept == ViewHyp /\ [BridgeNext]_allVars => ViewInv'
<1> SUFFICES ASSUME ViewHyp, [BridgeNext]_allVars PROVE ViewInv'
  OBVIOUS
<1> USE DEF ViewHyp
<1>1. ASSUME UNCHANGED <<worker, file, shown>>, pc' # "down", closed \in Int,
             closed' = closed \/ closed' = closed + 1
      PROVE  ViewInv'
  BY <1>1 DEF ViewInv, WorkersTyped, Consistent
<1>2. closed \in Int /\ trade \in Int
  BY DEF BooksInv, CountsTyped
<1>3. CASE LoopStarts
  <2>1. \A w \in Workers : worker[w].pc = "none"
    BY <1>3 DEF LoopStarts, ViewInv
  <2> QED
    BY <1>3, <2>1 DEF LoopStarts, ViewInv
<1>4. CASE Crash \/ LoopHalts
  BY <1>4 DEF Crash, LoopHalts, ProcessEnds, Idle, ViewInv
<1>5. CASE LoopCycles
  BY <1>1, <1>2, <1>5 DEF LoopCycles, recordVars, books, OpensPosition, ClosesPosition
<1>6. CASE LoopCounts
  BY <1>1, <1>2, <1>6 DEF LoopCounts, CountsTrade
<1>7. CASE LoopRecords
  BY <1>1, <1>2, <1>7 DEF LoopRecords, RecordsTrade, books
<1>8. CASE LoopOpens \/ LoopWrites
  <2>1. Consistent(Now)
    BY DEF Now, Consistent, BooksInv, CountsTyped
  <2>2. Consistent(file'.state)
    BY <1>8, <2>1, NothingConsistent DEF LoopOpens, LoopWrites, Written, Whole, Empty, Mangled
  <2>3. UNCHANGED <<worker, shown, closed>> /\ pc' # "down"
    BY <1>8 DEF LoopOpens, LoopWrites, recordVars, books
  <2> QED
    BY <2>2, <2>3 DEF ViewInv
<1>9. CASE LoopFires
  <2>1. UNCHANGED <<file, shown, closed>> /\ pc' = "check"
    BY <1>9 DEF LoopFires, recordVars, books
  <2>2. ASSUME NEW w \in Workers
        PROVE  worker'[w] = worker[w] \/ worker'[w].pc = "read"
    BY <1>9, <2>2 DEF LoopFires, WorkersTyped
  <2> QED
    BY <2>1, <2>2 DEF ViewInv
<1>10. ASSUME NEW w \in Workers, WorkerSteps(w) PROVE ViewInv'
  <2> USE DEF WorkerGoes
  <2>1. /\ UNCHANGED <<pc, shown, closed, trade>>
        /\ \A v \in Workers \ {w} : worker'[v] = worker[v]
    BY <1>10 DEF WorkerSteps, WorkerReads, WorkerFails, WorkerReadsRisk, WorkerReadsPosition,
      WorkerOpens, WorkerWrites, WorkersTyped, recordVars, books
  <2>2. worker[w].pc # "none"
    BY <1>10 DEF WorkerSteps, WorkerReads, WorkerFails, WorkerReadsRisk, WorkerReadsPosition,
      WorkerOpens, WorkerWrites
  <2>3. pc # "down"
    BY <2>2 DEF ViewInv
  <2>4. /\ worker'[w].pc = "position" => worker'[w].state.closed <= closed
        /\ worker'[w].pc \in {"open", "write"} => Consistent(worker'[w].state)
        /\ Consistent(file'.state)
    <3>1. CASE WorkerReads(w) \/ WorkerFails(w)
      BY <3>1 DEF WorkerReads, WorkerFails, WorkersTyped, ViewInv
    <3>2. CASE WorkerReadsRisk(w)
      BY <1>2, <3>2 DEF WorkerReadsRisk, WorkersTyped, ViewInv, Nothing
    <3>3. CASE WorkerReadsPosition(w)
      <4>1. /\ worker'[w].pc = "open" /\ file' = file
            /\ worker'[w].state = [worker[w].state EXCEPT !.trade = trade]
        BY <3>3 DEF WorkerReadsPosition, WorkersTyped
      <4>2. worker[w].state.closed <= closed /\ worker[w].state \in [closed : Int, trade : Int]
        BY <3>3 DEF WorkerReadsPosition, WorkersTyped, ViewInv
      <4>3. trade # 0 => closed < trade
        BY <1>2 DEF BooksInv, CountsTyped
      <4>4. Consistent(worker'[w].state)
        BY <1>2, <4>1, <4>2, <4>3 DEF Consistent
      <4> QED
        BY <4>1, <4>4 DEF ViewInv
    <3>4. CASE WorkerOpens(w)
      BY <3>4, NothingConsistent DEF WorkerOpens, WorkersTyped, ViewInv, Empty
    <3>5. CASE WorkerWrites(w)
      <4>1. Consistent(worker[w].state)
        BY <3>5 DEF WorkerWrites, ViewInv
      <4> QED
        BY <3>5, <4>1, NothingConsistent DEF WorkerWrites, WorkersTyped, Written, Whole, Mangled
    <3> QED
      BY <1>10, <3>1, <3>2, <3>3, <3>4, <3>5 DEF WorkerSteps
  <2> QED
    BY <2>1, <2>3, <2>4 DEF ViewInv
<1>11. CASE FileAges
  <2>1. Consistent(file'.state)
    BY <1>11 DEF FileAges, ViewInv
  <2> QED
    BY <1>11, <2>1 DEF FileAges, ViewInv, recordVars, books
<1>12. CASE ConsoleShows
  <2>1. Consistent(shown'.state)
    BY <1>12, NothingConsistent DEF ConsoleShows, Local, ViewInv
  <2> QED
    BY <1>12, <2>1 DEF ConsoleShows, ViewInv, recordVars, books
<1>13. CASE Rests \/ ConsoleKills \/ ConsoleClears \/ UNCHANGED allVars
  BY <1>13 DEF Rests, ConsoleKills, ConsoleClears, allVars, viewVars, recordVars, books, ViewInv
<1> QED
  BY <1>3, <1>4, <1>5, <1>6, <1>7, <1>8, <1>9, <1>10, <1>11, <1>12, <1>13
     DEF BridgeNext, LoopThread

-------------------------------------------------------------------------------
(* The theorems. *)

BridgeInv == WorkersTyped /\ FlightInv /\ BooksInv /\ ViewInv

LEMMA BridgeInductive == BridgeSpec => []BridgeInv
<1>1. BridgeInit => BridgeInv
  <2> SUFFICES ASSUME BridgeInit PROVE BridgeInv
    OBVIOUS
  <2>1. /\ worker = [w \in Workers |-> Idle] /\ pc = "down"
        /\ file.state = Nothing /\ shown.state = Nothing
    BY DEF BridgeInit, NoFile, Local
  <2>2. trade = 0 /\ opened = 0 /\ closed = 0
    BY DEF BridgeInit, RecordInit
  <2>3. WorkersTyped /\ FlightInv
    BY <2>1 DEF WorkersTyped, Phase, FlightInv, SingleFlight, Idle, Nothing
  <2>4. BooksInv
    BY <2>1, <2>2 DEF BooksInv, CountsTyped
  <2>5. ViewInv
    BY <2>1, NothingConsistent DEF ViewInv, Idle
  <2> QED
    BY <2>3, <2>4, <2>5 DEF BridgeInv
<1>2. BridgeInv /\ [BridgeNext]_allVars => BridgeInv'
  BY WorkersKept, FlightKept, BooksKept, ViewKept DEF BridgeInv, ViewHyp, BooksInv
<1> QED
  BY <1>1, <1>2, PTL DEF BridgeSpec

\* However slow the model and however short the throttle, at most one read of the
\* advisor is in the air (maybe_shadow).
THEOREM OneReadInTheAir == BridgeSpec => []SingleFlight
<1>1. BridgeInv => SingleFlight
  BY DEF BridgeInv, FlightInv
<1> QED
  BY <1>1, BridgeInductive, PTL

\* Whatever the loop does while a worker reads it, no state is published, and none is
\* shown, that has a position both open and counted (build_state, handle_exit).
THEOREM NeverBoth == BridgeSpec => []NeverOpenAndCounted
<1>1. BridgeInv => NeverOpenAndCounted
  BY DEF BridgeInv, ViewInv, Consistent, NeverOpenAndCounted
<1> QED
  BY <1>1, BridgeInductive, PTL

-------------------------------------------------------------------------------
(* Types. *)

Rows == {Row(x) : x \in Outcomes} \cup {Garbled}

\* The record of the day is made of results and lines; the governor and the ledger
\* only look at its last result when there is one.
RecordTyped ==
  /\ trade \in 0..MaxTrades /\ opened \in 0..MaxTrades /\ closed \in Nat
  /\ realized \in Int
  /\ lines \in Seq(Rows) /\ day \in Seq(Outcomes)
  /\ starts \in 0..MaxStarts /\ lost \in BOOLEAN
  /\ pc \in {"count", "record"} => day # <<>>

LEMMA ConstantsTyped ==
  /\ Outcomes \subseteq Int /\ MaxDailyLoss \in Nat \ {0} /\ Limit \in Nat \ {0}
  /\ MaxTrades \in Nat \ {0} /\ MaxStarts \in Nat \ {0}
  /\ "loop" \in Procs /\ "console" \in Procs
BY RecordAssumption, BridgeAssumption

LEMMA LastOf ==
  ASSUME NEW S, NEW s \in Seq(S), s # <<>>
  PROVE  Last(s) \in S /\ Len(s) \in Nat \ {0} /\ Last(s) = s[Len(s)]
BY DEF Last

LEMMA GluedTyped ==
  ASSUME NEW text \in Seq(Rows), NEW row \in Rows
  PROVE  Glued(text, row) \in Seq(Rows) /\ Glued(text, row) # <<>>
BY DEF Glued

LEMMA RecordKept == RecordTyped /\ [BridgeNext]_allVars => RecordTyped'
<1> SUFFICES ASSUME RecordTyped, [BridgeNext]_allVars PROVE RecordTyped'
  OBVIOUS
<1>1. ASSUME UNCHANGED <<books, lines, starts, day>>, lost' \in BOOLEAN,
             pc' = pc \/ pc' \notin {"count", "record"}
      PROVE  RecordTyped'
  BY <1>1 DEF RecordTyped, books
<1>2. CASE LoopStarts
  BY <1>2, ConstantsTyped DEF LoopStarts, FreshProcess, RecordTyped
<1>3. CASE Crash \/ LoopHalts
  BY <1>1, <1>3 DEF Crash, LoopHalts, ProcessEnds, LosesRow, recordVars, RecordTyped
<1>4. CASE LoopCycles
  <2>1. CASE UNCHANGED recordVars /\ pc' = "publish"
    BY <1>1, <2>1 DEF recordVars, RecordTyped
  <2>2. CASE OpensPosition /\ pc' = "publish"
    BY <2>2, ConstantsTyped DEF OpensPosition, RecordTyped
  <2>3. CASE ClosesPosition /\ pc' = "count"
    <3>1. PICK pnl \in Outcomes : day' = Append(day, pnl)
      BY <2>3 DEF ClosesPosition
    <3>2. day' \in Seq(Outcomes) /\ day' # <<>>
      BY <3>1 DEF RecordTyped
    <3> QED
      BY <2>3, <3>2, ConstantsTyped DEF ClosesPosition, RecordTyped
  <2> QED
    BY <1>4, <2>1, <2>2, <2>3 DEF LoopCycles
<1>5. CASE LoopCounts
  <2>1. Last(day) \in Int
    BY <1>5, ConstantsTyped, LastOf DEF LoopCounts, RecordTyped
  <2> QED
    BY <1>5, <2>1 DEF LoopCounts, CountsTrade, RecordTyped
<1>6. CASE LoopRecords
  <2>1. Row(Last(day)) \in Rows /\ Garbled \in Rows
    BY <1>6, LastOf DEF LoopRecords, RecordTyped, Rows
  <2>2. lines' \in Seq(Rows)
    BY <1>6, <2>1, GluedTyped DEF LoopRecords, RecordsTrade, RecordTyped
  <2>3. lost' \in BOOLEAN
    BY <1>6 DEF LoopRecords, RecordsTrade
  <2> QED
    BY <1>6, <2>2, <2>3 DEF LoopRecords, RecordsTrade, RecordTyped, books
<1>7. CASE LoopOpens \/ LoopWrites \/ LoopFires
  BY <1>1, <1>7 DEF LoopOpens, LoopWrites, LoopFires, recordVars, RecordTyped
<1>8. ASSUME NEW w \in Workers, WorkerSteps(w) PROVE RecordTyped'
  BY <1>1, <1>8 DEF WorkerSteps, WorkerReads, WorkerFails, WorkerReadsRisk,
    WorkerReadsPosition, WorkerOpens, WorkerWrites, WorkerGoes, recordVars, RecordTyped
<1>9. CASE Rests \/ FileAges \/ ConsoleShows \/ ConsoleKills \/ ConsoleClears
  BY <1>1, <1>9 DEF Rests, FileAges, ConsoleShows, ConsoleKills, ConsoleClears, viewVars,
    recordVars, RecordTyped
<1>10. CASE UNCHANGED allVars
  BY <1>1, <1>10 DEF allVars, viewVars, recordVars, RecordTyped
<1> QED
  BY <1>2, <1>3, <1>4, <1>5, <1>6, <1>7, <1>8, <1>9, <1>10 DEF BridgeNext, LoopThread

KillTyped == KillTypeOK /\ use \in Uses

LEMMA KillKept == KillTyped /\ [BridgeNext]_allVars => KillTyped'
<1> SUFFICES ASSUME KillTyped, [BridgeNext]_allVars PROVE KillTyped'
  OBVIOUS
<1> USE DEF KillTyped, KillTypeOK
<1>1. ASSUME NEW p \in Procs, EngageKill(p) PROVE KillTypeOK'
  BY <1>1 DEF EngageKill, WriteKillFile, killVars
<1>2. use' = use
  BY DEF BridgeNext, LoopThread, LoopStarts, Crash, LoopHalts, LoopCycles, LoopCounts,
    LoopRecords, LoopOpens, LoopWrites, LoopFires, Rests, WorkerSteps, WorkerReads,
    WorkerFails, WorkerReadsRisk, WorkerReadsPosition, WorkerOpens, WorkerWrites, WorkerGoes,
    FileAges, ConsoleShows, ConsoleKills, ConsoleClears, allVars
<1>3. CASE LoopStarts
  BY <1>2, <1>3 DEF LoopStarts, StartProcess
<1>4. CASE LoopCounts
  BY <1>1, <1>2, <1>4, ConstantsTyped DEF LoopCounts, CountsTrade, killVars, Loop
<1>5. CASE ConsoleKills
  BY <1>1, <1>2, <1>5, ConstantsTyped DEF ConsoleKills, Console
<1>6. CASE ConsoleClears
  BY <1>2, <1>6 DEF ConsoleClears, ClearKillFile
<1>7. CASE UNCHANGED killVars
  BY <1>2, <1>7 DEF killVars
<1> QED
  BY <1>3, <1>4, <1>5, <1>6, <1>7
     DEF BridgeNext, LoopThread, Crash, LoopHalts, LoopCycles, LoopRecords, LoopOpens,
       LoopWrites, LoopFires, Rests, WorkerSteps, WorkerReads, WorkerFails, WorkerReadsRisk,
       WorkerReadsPosition, WorkerOpens, WorkerWrites, WorkerGoes, FileAges, ConsoleShows,
       allVars

\* Every state on its way to the file, in it, or on the page is one of the governor and
\* the store.
ViewTyped ==
  /\ pc \in {"down", "check", "count", "record", "publish", "write", "fire"}
  /\ bar \in BOOLEAN /\ busy \in BOOLEAN /\ rested \in BOOLEAN
  /\ worker \in [Workers -> [pc : Phase, state : State]]
  /\ file \in [text : {"none", "empty", "mangled", "whole"}, state : State, fresh : BOOLEAN]
  /\ shown \in [source : {"loop", "local"}, state : State]

LEMMA StatesTyped ==
  ASSUME RecordTyped, BooksInv
  PROVE  Now \in State /\ Nothing \in State /\ closed \in 0..MaxTrades /\ trade \in 0..MaxTrades
BY ConstantsTyped DEF RecordTyped, BooksInv, CountsTyped, Now, Nothing, State

LEMMA ViewTypesKept ==
  RecordTyped /\ BooksInv /\ ViewTyped /\ [BridgeNext]_allVars => ViewTyped'
<1> SUFFICES ASSUME RecordTyped, BooksInv, ViewTyped, [BridgeNext]_allVars PROVE ViewTyped'
  OBVIOUS
<1>a. Now \in State /\ Nothing \in State /\ closed \in 0..MaxTrades /\ trade \in 0..MaxTrades
  BY StatesTyped
<1> USE <1>a DEF ViewTyped, Phase
<1>1. ASSUME NEW s \in State, Written(s)
      PROVE  file' \in [text : {"none", "empty", "mangled", "whole"}, state : State, fresh : BOOLEAN]
  <2>1. Whole(s) \in [text : {"none", "empty", "mangled", "whole"}, state : State, fresh : BOOLEAN]
    BY DEF Whole
  <2>2. Mangled \in [text : {"none", "empty", "mangled", "whole"}, state : State, fresh : BOOLEAN]
    BY DEF Mangled
  <2> QED
    BY <1>1, <2>1, <2>2 DEF Written
<1>2. [w \in Workers |-> Idle] \in [Workers -> [pc : Phase, state : State]]
  BY DEF Idle
<1>3. CASE LoopStarts
  BY <1>3 DEF LoopStarts
<1>4. CASE Crash \/ LoopHalts
  BY <1>2, <1>4 DEF Crash, LoopHalts, ProcessEnds
<1>5. CASE LoopCycles
  BY <1>5 DEF LoopCycles
<1>6. CASE LoopCounts \/ LoopRecords
  BY <1>6 DEF LoopCounts, LoopRecords
<1>7. CASE LoopOpens
  BY <1>7 DEF LoopOpens, Empty
<1>8. CASE LoopWrites
  BY <1>1, <1>8 DEF LoopWrites
<1>9. CASE LoopFires
  <2>1. UNCHANGED <<bar, file, shown>> /\ pc' = "check" /\ rested' \in BOOLEAN /\ busy' \in BOOLEAN
    BY <1>9 DEF LoopFires
  <2>2. worker' \in [Workers -> [pc : Phase, state : State]]
    <3>1. ASSUME NEW w \in Workers, worker' = [worker EXCEPT ![w].pc = "read"]
          PROVE  worker' \in [Workers -> [pc : Phase, state : State]]
      BY <3>1
    <3> QED
      BY <1>9, <3>1 DEF LoopFires
  <2> QED
    BY <2>1, <2>2
<1>10. ASSUME NEW w \in Workers, WorkerSteps(w) PROVE ViewTyped'
  <2> USE DEF WorkerGoes
  <2>1. CASE WorkerReads(w) \/ WorkerFails(w)
    <3>1. \E p \in Phase : worker' = [worker EXCEPT ![w] = [pc |-> p, state |-> Nothing]]
      BY <2>1 DEF WorkerReads, WorkerFails
    <3>2. worker' \in [Workers -> [pc : Phase, state : State]]
      BY <3>1
    <3> QED
      BY <2>1, <3>2 DEF WorkerReads, WorkerFails
  <2>2. CASE WorkerReadsRisk(w)
    <3>1. [Nothing EXCEPT !.closed = closed] \in State
      BY DEF Nothing, State
    <3> QED
      BY <2>2, <3>1 DEF WorkerReadsRisk
  <2>3. CASE WorkerReadsPosition(w)
    <3>1. [worker[w].state EXCEPT !.trade = trade] \in State
      BY DEF State
    <3> QED
      BY <2>3, <3>1 DEF WorkerReadsPosition
  <2>4. CASE WorkerOpens(w)
    BY <2>4 DEF WorkerOpens, Empty
  <2>5. CASE WorkerWrites(w)
    BY <1>1, <2>5 DEF WorkerWrites
  <2> QED
    BY <1>10, <2>1, <2>2, <2>3, <2>4, <2>5 DEF WorkerSteps
<1>11. CASE FileAges
  BY <1>11 DEF FileAges
<1>12. CASE ConsoleShows
  BY <1>12 DEF ConsoleShows, Local
<1>13. CASE Rests
  BY <1>13 DEF Rests
<1>14. CASE ConsoleKills \/ ConsoleClears \/ UNCHANGED allVars
  BY <1>14 DEF ConsoleKills, ConsoleClears, allVars, viewVars
<1> QED
  BY <1>3, <1>4, <1>5, <1>6, <1>7, <1>8, <1>9, <1>10, <1>11, <1>12, <1>13, <1>14
     DEF BridgeNext, LoopThread

-------------------------------------------------------------------------------
(* The governor. *)

\* A loop whose latch is not set has some of its allowance left.
GovernorInv == LoopUp /\ ~killed[Loop] => realized > -MaxDailyLoss

LEMMA GovernorInit == BridgeInit => GovernorInv
BY DEF BridgeInit, GovernorInv, LoopUp

LEMMA GovernorKept ==
  RecordTyped /\ KillTyped /\ GovernorInv /\ [BridgeNext]_allVars => GovernorInv'
<1> SUFFICES ASSUME RecordTyped, KillTyped, GovernorInv, [BridgeNext]_allVars PROVE GovernorInv'
  OBVIOUS
<1> USE DEF GovernorInv, LoopUp
<1>1. ASSUME UNCHANGED <<killed, realized>>, pc' = "down" \/ pc # "down" PROVE GovernorInv'
  BY <1>1
<1>2. CASE LoopStarts
  BY <1>2, ConstantsTyped DEF LoopStarts, FreshProcess
<1>3. CASE Crash \/ LoopHalts
  BY <1>3 DEF Crash, LoopHalts, ProcessEnds
<1>4. CASE LoopCycles
  BY <1>1, <1>4 DEF LoopCycles, OpensPosition, ClosesPosition, recordVars, books, killVars
<1>5. CASE LoopCounts
  <2>1. CASE realized' <= -MaxDailyLoss
    BY <1>5, <2>1, ConstantsTyped
       DEF LoopCounts, CountsTrade, EngageKill, killVars, KillTyped, KillTypeOK, Loop
  <2>2. CASE realized' > -MaxDailyLoss
    BY <2>2
  <2>3. realized' \in Int
    BY <1>5, ConstantsTyped, LastOf DEF LoopCounts, CountsTrade, RecordTyped
  <2> QED
    BY <2>1, <2>2, <2>3, ConstantsTyped
<1>6. CASE LoopRecords \/ LoopOpens \/ LoopWrites \/ LoopFires
  BY <1>1, <1>6 DEF LoopRecords, RecordsTrade, LoopOpens, LoopWrites, LoopFires, recordVars,
    books, killVars
<1>7. ASSUME NEW w \in Workers, WorkerSteps(w) PROVE GovernorInv'
  BY <1>1, <1>7 DEF WorkerSteps, WorkerReads, WorkerFails, WorkerReadsRisk,
    WorkerReadsPosition, WorkerOpens, WorkerWrites, WorkerGoes, recordVars, books, killVars
<1>8. CASE ConsoleKills
  BY <1>8, ConstantsTyped DEF ConsoleKills, EngageKill, Console, Loop, KillTyped, KillTypeOK,
    recordVars, books, viewVars, killVars
<1>9. CASE Rests \/ FileAges \/ ConsoleShows \/ ConsoleClears \/ UNCHANGED allVars
  BY <1>1, <1>9 DEF Rests, FileAges, ConsoleShows, ConsoleClears, ClearKillFile, allVars,
    viewVars, recordVars, books, killVars
<1> QED
  BY <1>2, <1>3, <1>4, <1>5, <1>6, <1>7, <1>8, <1>9 DEF BridgeNext, LoopThread

-------------------------------------------------------------------------------
(* The allowance: the detailed specification implements LossAllowance. *)

AllowanceHyp == RecordTyped /\ GovernorInv

LEMMA AllowanceAtFirst == BridgeInit => Allowance!AllowanceInit
BY TotalOfNone DEF BridgeInit, RecordInit, Left, Allowance!AllowanceInit

\* Every step of the loop, its workers and the console is one of the promise, or a
\* stutter.
LEMMA AllowanceSteps ==
  AllowanceHyp /\ [BridgeNext]_allVars => [Allowance!AllowanceNext]_(Allowance!allowanceVars)
<1> SUFFICES ASSUME RecordTyped, GovernorInv, [BridgeNext]_allVars
             PROVE  Allowance!AllowanceNext \/ UNCHANGED Allowance!allowanceVars
  BY DEF AllowanceHyp
<1> USE DEF Allowance!AllowanceNext, Allowance!allowanceVars
<1>1. ASSUME UNCHANGED <<day, starts, realized>>,
             pc' = pc \/ (pc \notin {"down", "count"} /\ pc' \notin {"down", "count"})
      PROVE  UNCHANGED Allowance!allowanceVars
  BY <1>1 DEF Left
<1>2. CASE LoopStarts
  BY <1>2, ConstantsTyped DEF LoopStarts, FreshProcess, Left, Allowance!Starts
<1>3. CASE Crash \/ LoopHalts
  BY <1>3 DEF Crash, LoopHalts, ProcessEnds, recordVars, Left, Allowance!Stops
<1>4. CASE LoopCycles
  <2>1. CASE UNCHANGED recordVars /\ pc' = "publish"
    BY <1>1, <1>4, <2>1 DEF LoopCycles, recordVars, books
  <2>2. CASE OpensPosition /\ pc' = "publish"
    BY <1>1, <1>4, <2>2 DEF LoopCycles, OpensPosition
  <2>3. CASE ClosesPosition /\ pc' = "count"
    <3>1. PICK pnl \in Outcomes : day' = Append(day, pnl)
      BY <2>3 DEF ClosesPosition
    <3>2. pnl \in Int /\ day \in Seq(Int) /\ Last(day') = pnl /\ realized \in Int
      <4>1. day \in Seq(Outcomes) /\ realized \in Int
        BY DEF RecordTyped
      <4>2. day \in Seq(Int) /\ pnl \in Int
        BY <4>1, ConstantsTyped, SeqMonotonic
      <4> QED
        BY <3>1, <4>1, <4>2 DEF Last
    <3>3. Total(day') = Total(day) + pnl
      BY <3>1, <3>2, TotalOfAppend
    <3>4. Left = MaxDailyLoss + realized /\ Left' = MaxDailyLoss + realized + pnl
      BY <1>4, <2>3, <3>2, ConstantsTyped DEF LoopCycles, ClosesPosition, Left
    <3>5. realized > -MaxDailyLoss
      BY <1>4 DEF LoopCycles, KillActive, GovernorInv, LoopUp
    <3>6. Left > 0 /\ Left' = Left + pnl
      BY <3>2, <3>4, <3>5, ConstantsTyped
    <3> QED
      BY <2>3, <3>3, <3>6 DEF ClosesPosition, Allowance!Closes
  <2> QED
    BY <1>4, <2>1, <2>2, <2>3 DEF LoopCycles
<1>5. CASE LoopCounts
  <2>1. Last(day) \in Int /\ realized \in Int
    BY <1>5, ConstantsTyped, LastOf DEF LoopCounts, RecordTyped
  <2>2. Left = MaxDailyLoss + realized + Last(day) /\ Left' = MaxDailyLoss + (realized + Last(day))
    BY <1>5, <2>1, ConstantsTyped DEF LoopCounts, CountsTrade, Left
  <2>3. Left' = Left
    BY <2>1, <2>2, ConstantsTyped
  <2> QED
    BY <1>5, <2>3 DEF LoopCounts, CountsTrade
<1>6. CASE LoopRecords \/ LoopOpens \/ LoopWrites \/ LoopFires
  BY <1>1, <1>6 DEF LoopRecords, RecordsTrade, LoopOpens, LoopWrites, LoopFires, recordVars,
    books
<1>7. ASSUME NEW w \in Workers, WorkerSteps(w) PROVE UNCHANGED Allowance!allowanceVars
  BY <1>1, <1>7 DEF WorkerSteps, WorkerReads, WorkerFails, WorkerReadsRisk,
    WorkerReadsPosition, WorkerOpens, WorkerWrites, WorkerGoes, recordVars, books
<1>8. CASE Rests \/ FileAges \/ ConsoleShows \/ ConsoleKills \/ ConsoleClears \/ UNCHANGED allVars
  BY <1>1, <1>8 DEF Rests, FileAges, ConsoleShows, ConsoleKills, ConsoleClears, allVars,
    viewVars, recordVars, books
<1> QED
  BY <1>2, <1>3, <1>4, <1>5, <1>6, <1>7, <1>8 DEF BridgeNext, LoopThread

\* What a day can lose, by the processes it has had: an allowance each but the one at
\* work, which has lost only what it no longer has.
BoundInv ==
  /\ Total(day) >= -(starts * PerProcess)
  /\ Left > 0 => Total(day) >= Left - MaxDailyLoss - (starts - 1) * PerProcess

\* The most one process can lose is at least what any one trade can.
LEMMA WorstTrade ==
  /\ PerProcess \in Nat
  /\ \A pnl \in Outcomes : pnl >= MaxDailyLoss - 1 - PerProcess
  /\ MaxDailyLoss - 1 - PerProcess <= 0
<1> DEFINE worst == Min(Outcomes)
<1>1. PICK low \in Outcomes : \A x \in Outcomes : low <= x
  BY RecordAssumption
<1>2. worst = low /\ low \in Int
  BY <1>1, MinIs, ConstantsTyped
<1>3. Max({0, -worst}) = IF 0 >= -worst THEN 0 ELSE -worst
  <2> HIDE DEF worst
  <2> QED
    BY <1>2, MaxOfTwo
<1>4. PerProcess = MaxDailyLoss - 1 + (IF 0 >= -low THEN 0 ELSE -low)
  <2>1. PerProcess = MaxDailyLoss - 1 + Max({0, -worst})
    BY DEF PerProcess
  <2> HIDE DEF worst
  <2> QED
    BY <1>2, <1>3, <2>1
<1> QED
  BY <1>1, <1>2, <1>4, ConstantsTyped

LEMMA BoundKept ==
  ASSUME RecordTyped, BoundInv, Total(day) \in Int, Left \in Int,
         Allowance!AllowanceNext \/ UNCHANGED Allowance!allowanceVars
  PROVE  BoundInv'
<1> DEFINE B == PerProcess
<1>1. B \in Nat /\ starts \in Nat /\ (starts + 1) * B = starts * B + B
  BY WorstTrade, ConstantsTyped DEF RecordTyped
<1>2. starts * B \in Nat /\ (starts - 1) * B = starts * B - B
  BY <1>1
<1>3. CASE Allowance!Starts
  BY <1>1, <1>2, <1>3, ConstantsTyped DEF BoundInv, Allowance!Starts
<1>4. CASE Allowance!Closes
  BY <1>1, <1>2, <1>4, WorstTrade, ConstantsTyped DEF BoundInv, Allowance!Closes
<1>5. CASE Allowance!Stops
  BY <1>5 DEF BoundInv, Allowance!Stops
<1>6. CASE UNCHANGED Allowance!allowanceVars
  BY <1>6 DEF BoundInv, Allowance!allowanceVars
<1> QED
  BY <1>3, <1>4, <1>5, <1>6 DEF Allowance!AllowanceNext

-------------------------------------------------------------------------------
(* The record. *)

\* The closes that have had the time to reach the file.
Due == IF pc \in {"count", "record"} THEN Len(day) - 1 ELSE Len(day)

\* Until a row is lost the file is one whole row for each of them, in order.
RowsInv ==
  ~lost => Len(lines) = Due /\ \A i \in 1..Due : lines[i] = Row(day[i])

LEMMA RowsInit == BridgeInit => RowsInv
BY DEF BridgeInit, RecordInit, RowsInv, Due

LEMMA RowsKept == RecordTyped /\ RowsInv /\ [BridgeNext]_allVars => RowsInv'
<1> SUFFICES ASSUME RecordTyped, RowsInv, [BridgeNext]_allVars PROVE RowsInv'
  OBVIOUS
<1>1. ASSUME UNCHANGED <<lines, day, lost>>,
             pc' = pc \/ (pc \notin {"count", "record"} /\ pc' \notin {"count", "record"})
      PROVE  RowsInv'
  BY <1>1 DEF RowsInv, Due
<1>2. CASE LoopStarts
  BY <1>1, <1>2 DEF LoopStarts, FreshProcess
<1>3. CASE LoopHalts
  BY <1>1, <1>3 DEF LoopHalts, ProcessEnds, recordVars
<1>4. CASE Crash
  <2>1. CASE pc \in {"count", "record"}
    BY <1>4, <2>1 DEF Crash, LosesRow, RowsInv
  <2>2. CASE pc \notin {"count", "record"}
    BY <1>1, <1>4, <2>2 DEF Crash, ProcessEnds
  <2> QED
    BY <2>1, <2>2
<1>5. CASE LoopCycles
  <2>1. CASE UNCHANGED recordVars /\ pc' = "publish"
    BY <1>1, <1>5, <2>1 DEF LoopCycles, recordVars
  <2>2. CASE OpensPosition /\ pc' = "publish"
    BY <1>1, <1>5, <2>2 DEF LoopCycles, OpensPosition
  <2>3. CASE ClosesPosition /\ pc' = "count"
    <3>1. PICK pnl \in Outcomes : day' = Append(day, pnl)
      BY <2>3 DEF ClosesPosition
    <3>2. day \in Seq(Outcomes) /\ Len(day) \in Nat
      BY DEF RecordTyped
    <3>3. Len(day') = Len(day) + 1 /\ \A i \in 1..Len(day) : day'[i] = day[i]
      BY <3>1, <3>2
    <3>4. Due = Len(day) /\ Due' = Len(day) /\ lines' = lines /\ lost' = lost
      BY <1>5, <2>3, <3>2, <3>3 DEF LoopCycles, ClosesPosition, Due
    <3> QED
      BY <3>3, <3>4 DEF RowsInv
  <2> QED
    BY <1>5, <2>1, <2>2, <2>3 DEF LoopCycles
<1>6. CASE LoopCounts
  BY <1>6 DEF LoopCounts, CountsTrade, RowsInv, Due
<1>7. CASE LoopRecords
  <2> DEFINE row == Row(Last(day))
  <2>1. /\ pc = "record" /\ pc' = "publish" /\ day' = day
        /\ ~lost' => ~lost /\ lines' = Glued(lines, row)
    BY <1>7 DEF LoopRecords, RecordsTrade
  <2>2. Len(day) \in Nat \ {0} /\ Last(day) = day[Len(day)] /\ lines \in Seq(Rows)
    BY <2>1, LastOf DEF RecordTyped
  <2>3. Due = Len(day) - 1 /\ Due' = Len(day)
    BY <2>1 DEF Due
  <2>4. ASSUME ~lost PROVE Glued(lines, row) = Append(lines, row)
    <3>1. CASE lines # <<>>
      <4>1. Len(lines) \in 1..Due /\ Last(lines) = lines[Len(lines)]
        BY <2>2, <2>4, <3>1, LastOf DEF RowsInv
      <4>2. Last(lines).whole
        BY <2>4, <4>1 DEF RowsInv, Row
      <4> QED
        BY <4>2 DEF Glued
    <3>2. CASE lines = <<>>
      BY <3>2 DEF Glued
    <3> QED
      BY <3>1, <3>2
  <2>5. ASSUME ~lost' PROVE Len(lines') = Len(day) /\ \A i \in 1..Len(day) : lines'[i] = Row(day[i])
    <3>1. lines' = Append(lines, row) /\ Len(lines) = Len(day) - 1
      BY <2>1, <2>3, <2>4, <2>5 DEF RowsInv
    <3>2. /\ Len(lines') = Len(day) /\ lines'[Len(day)] = row
          /\ \A i \in 1..(Len(day) - 1) : lines'[i] = lines[i]
      BY <2>2, <3>1
    <3>3. \A i \in 1..(Len(day) - 1) : lines[i] = Row(day[i])
      BY <2>1, <2>3, <2>5 DEF RowsInv
    <3> QED
      BY <2>2, <3>2, <3>3
  <2> QED
    BY <2>1, <2>3, <2>5 DEF RowsInv
<1>8. CASE LoopOpens \/ LoopWrites \/ LoopFires
  BY <1>1, <1>8 DEF LoopOpens, LoopWrites, LoopFires, recordVars
<1>9. ASSUME NEW w \in Workers, WorkerSteps(w) PROVE RowsInv'
  BY <1>1, <1>9 DEF WorkerSteps, WorkerReads, WorkerFails, WorkerReadsRisk,
    WorkerReadsPosition, WorkerOpens, WorkerWrites, WorkerGoes, recordVars
<1>10. CASE Rests \/ FileAges \/ ConsoleShows \/ ConsoleKills \/ ConsoleClears \/ UNCHANGED allVars
  BY <1>1, <1>10 DEF Rests, FileAges, ConsoleShows, ConsoleKills, ConsoleClears, allVars,
    viewVars, recordVars
<1> QED
  BY <1>2, <1>3, <1>4, <1>5, <1>6, <1>7, <1>8, <1>9, <1>10 DEF BridgeNext, LoopThread


\* The place the newest n of so many rows begin at.
From(length, n) == IF 1 >= length - n + 1 THEN 1 ELSE length - n + 1

LEMMA NewestIs ==
  ASSUME NEW S, NEW s \in Seq(S), NEW n \in Nat \ {0}
  PROVE  LET a == From(Len(s), n)
             k == Len(s) - a + 1
         IN  /\ a \in Nat \ {0} /\ k \in Nat
             /\ Newest(s, n) \in Seq(S) /\ Len(Newest(s, n)) = k
             /\ \A i \in 1..k : i + (a - 1) \in 1..Len(s) /\ Newest(s, n)[i] = s[i + (a - 1)]
<1> DEFINE a == From(Len(s), n)
<1>1. Len(s) \in Nat
  OBVIOUS
<1>2. Newest(s, n) = SubSeq(s, a, Len(s))
  <2>1. Len(s) - n + 1 \in Int
    BY <1>1
  <2>2. Max({1, Len(s) - n + 1}) = a
    BY <2>1, MaxOfTwo DEF From
  <2> HIDE DEF a
  <2> QED
    BY <2>2 DEF Newest
<1>3. a \in Nat \ {0} /\ a <= Len(s) + 1
  BY <1>1 DEF From
<1> HIDE DEF a
<1>4. /\ SubSeq(s, a, Len(s)) \in Seq(S)
      /\ Len(SubSeq(s, a, Len(s))) = IF a <= Len(s) THEN Len(s) - a + 1 ELSE 0
      /\ \A i \in 1..(Len(s) - a + 1) : SubSeq(s, a, Len(s))[i] = s[i + (a - 1)]
  BY <1>1, <1>3
<1>5. Len(s) - a + 1 \in Nat /\ \A i \in 1..(Len(s) - a + 1) : i + (a - 1) \in 1..Len(s)
  BY <1>1, <1>3
<1>6. Len(SubSeq(s, a, Len(s))) = Len(s) - a + 1
  BY <1>1, <1>3, <1>4
<1> QED
  BY <1>2, <1>3, <1>4, <1>5, <1>6 DEF a

\* What the console reads back is a record of numbers.
LEMMA LedgerTyped == RecordTyped => ReadLedger \in Seq(Int)
<1> SUFFICES ASSUME RecordTyped PROVE ReadLedger \in Seq(Int)
  OBVIOUS
<1> DEFINE rows == Newest(lines, Limit)
<1>1. rows \in Seq(Rows)
  BY ConstantsTyped, NewestIs DEF RecordTyped
<1>2. \A row \in Rows : row.pnl \in Int
  BY ConstantsTyped DEF Rows, Row, Garbled
<1> HIDE DEF rows
<1>3. [i \in DOMAIN rows |-> rows[i].pnl] \in Seq(Int)
  <2>1. DOMAIN rows = 1..Len(rows) /\ Len(rows) \in Nat /\ \A i \in 1..Len(rows) : rows[i] \in Rows
    BY <1>1
  <2>2. \A i \in 1..Len(rows) : rows[i].pnl \in Int
    BY <1>2, <2>1
  <2>3. [i \in 1..Len(rows) |-> rows[i].pnl] \in Seq(Int)
    BY <2>1, <2>2
  <2> QED
    BY <2>1, <2>3
<1>4. <<>> \in Seq(Int)
  OBVIOUS
<1> QED
  BY <1>3, <1>4 DEF ReadLedger, rows

\* Until a row is lost, the newest rows of the file are those of the newest closes.
LEMMA LedgerIs ==
  ASSUME RecordTyped, RowsInv, ~lost
  PROVE  /\ Due \in {Len(day) - 1, Len(day)} \cap Nat
         /\ ReadLedger = Newest(SubSeq(day, 1, Due), Limit)
<1> DEFINE rows == Newest(lines, Limit)
<1> DEFINE part == SubSeq(day, 1, Due)
<1> DEFINE results == Newest(part, Limit)
<1> DEFINE a == From(Due, Limit)
<1> DEFINE k == Due - a + 1
<1>1. Due \in {Len(day) - 1, Len(day)} /\ Due \in Nat /\ Due <= Len(day) /\ day \in Seq(Outcomes)
  BY LastOf DEF RecordTyped, Due
<1>2. /\ lines \in Seq(Rows) /\ Len(lines) = Due
      /\ \A i \in 1..Due : lines[i] = Row(day[i])
  BY DEF RecordTyped, RowsInv
<1>3. part \in Seq(Outcomes) /\ Len(part) = Due /\ \A i \in 1..Due : part[i] = day[i]
  <2> HIDE DEF Due
  <2> QED
    BY <1>1
<1> HIDE DEF part
<1>4. /\ k \in Nat /\ rows \in Seq(Rows) /\ Len(rows) = k
      /\ \A i \in 1..k : i + (a - 1) \in 1..Due /\ rows[i] = lines[i + (a - 1)]
  BY <1>2, ConstantsTyped, NewestIs
<1>5. /\ results \in Seq(Outcomes) /\ Len(results) = k
      /\ \A i \in 1..k : results[i] = part[i + (a - 1)]
  BY <1>3, ConstantsTyped, NewestIs
<1> HIDE DEF rows, results, a, k
<1>6. \A i \in 1..k : rows[i] = Row(results[i])
  BY <1>2, <1>3, <1>4, <1>5
<1>7. ReadLedger = [i \in 1..k |-> results[i]]
  <2>1. DOMAIN rows = 1..k
    BY <1>4
  <2>2. \A i \in 1..k : rows[i].whole /\ rows[i].pnl = results[i]
    <3> TAKE i \in 1..k
    <3>1. rows[i] = Row(results[i])
      BY <1>6
    <3> QED
      BY <3>1 DEF Row
  <2>3. ReadLedger = [i \in 1..k |-> rows[i].pnl]
    BY <2>1, <2>2 DEF ReadLedger, rows
  <2> QED
    BY <2>2, <2>3
<1>8. results = [i \in 1..k |-> results[i]]
  BY <1>5
<1> QED
  BY <1>1, <1>7, <1>8 DEF results, part

-------------------------------------------------------------------------------
(* The theorems of the day. *)

DayInv == RecordTyped /\ KillTyped /\ ViewTyped /\ GovernorInv /\ RowsInv

LEMMA DayInitially == BridgeInit => DayInv
<1> SUFFICES ASSUME BridgeInit PROVE DayInv
  OBVIOUS
<1>1. RecordTyped
  <2>1. /\ trade = 0 /\ opened = 0 /\ closed = 0 /\ realized = 0 /\ starts = 0 /\ lost = FALSE
        /\ lines = <<>> /\ day = <<>> /\ pc = "down"
    BY DEF BridgeInit, RecordInit
  <2>2. lines \in Seq(Rows) /\ day \in Seq(Outcomes)
    BY <2>1
  <2>3. 0 \in 0..MaxTrades /\ 0 \in 0..MaxStarts
    BY ConstantsTyped
  <2>4. lost \in BOOLEAN /\ pc \notin {"count", "record"}
    BY <2>1
  <2>5. closed \in Nat /\ realized \in Int
    BY <2>1
  <2>6. trade \in 0..MaxTrades /\ opened \in 0..MaxTrades /\ starts \in 0..MaxStarts
    BY <2>1, <2>3
  <2> QED
    BY <2>2, <2>4, <2>5, <2>6 DEF RecordTyped
<1>2. KillTyped
  BY DEF BridgeInit, KillInit, KillTyped, KillTypeOK
<1>3. ViewTyped
  <2>1. Nothing \in State
    BY ConstantsTyped DEF Nothing, State
  <2> QED
    BY <2>1 DEF BridgeInit, ViewTyped, Phase, Idle, NoFile, Local
<1> QED
  BY <1>1, <1>2, <1>3, GovernorInit, RowsInit DEF DayInv

LEMMA DayInductive == BridgeSpec => [](DayInv /\ BooksInv)
<1>1. BridgeInv => BooksInv
  BY DEF BridgeInv
<1>2. DayInv /\ BooksInv /\ [BridgeNext]_allVars => DayInv'
  BY RecordKept, KillKept, ViewTypesKept, GovernorKept, RowsKept DEF DayInv
<1> QED
  BY <1>1, <1>2, BridgeInductive, DayInitially, PTL DEF BridgeSpec

\* Every state of the two processes is typed: above all, the governor counts no trade
\* that was not opened and looks at a last result only when there is one.
THEOREM BridgeTyped == BridgeSpec => []BridgeTypeOK
<1>1. DayInv /\ BooksInv => BridgeTypeOK
  <2> SUFFICES ASSUME DayInv, BooksInv PROVE BridgeTypeOK
    OBVIOUS
  <2>1. RecordTypeOK
    <3>1. closed \in 0..opened
      BY DEF DayInv, RecordTyped, BooksInv
    <3>2. /\ \A i \in DOMAIN lines : lines[i] \in {Row(x) : x \in Outcomes} \cup {Garbled}
          /\ \A i \in DOMAIN day : day[i] \in Outcomes
      BY DEF DayInv, RecordTyped, Rows
    <3> QED
      BY <3>1, <3>2 DEF DayInv, RecordTyped, RecordTypeOK
  <2>2. KillTypeOK /\ use \in Uses
    BY DEF DayInv, KillTyped
  <2> QED
    BY <2>1, <2>2 DEF DayInv, ViewTyped, Phase, BridgeTypeOK
<1> QED
  BY <1>1, DayInductive, PTL

\* The loop, its governor, the kill and the two processes implement the allowance: each
\* close is charged to one process, once, and none follows the one that used it up
\* (record_realized_pnl, run_market_loop_step).
THEOREM AllowanceKept == BridgeSpec => KeepsAllowance
<1>1. DayInv => AllowanceHyp
  BY DEF DayInv, AllowanceHyp
<1> QED
  BY <1>1, AllowanceAtFirst, AllowanceSteps, DayInductive, PTL
     DEF BridgeSpec, KeepsAllowance, Allowance!AllowanceSpec

\* No day loses more than a full limit for each process it had, and a worst trade on top
\* of each (record_realized_pnl, reset by a restart).
THEOREM DayLossBounded == BridgeSpec => []DayLossBound
<1>1. BridgeInit => BoundInv
  BY TotalOfNone, WorstTrade DEF BridgeInit, RecordInit, BoundInv, Left
<1>2. DayInv /\ BoundInv /\ [BridgeNext]_allVars => BoundInv'
  <2> SUFFICES ASSUME DayInv, BoundInv, [BridgeNext]_allVars PROVE BoundInv'
    OBVIOUS
  <2>1. RecordTyped /\ GovernorInv
    BY DEF DayInv
  <2>2. day \in Seq(Int) /\ realized \in Int
    BY <2>1, ConstantsTyped, SeqMonotonic DEF RecordTyped
  <2>3. Total(day) \in Int
    BY <2>2, TotalOfAppend
  <2>4. Left \in Int
    BY <2>1, <2>2, ConstantsTyped, LastOf DEF Left, RecordTyped
  <2>5. Allowance!AllowanceNext \/ UNCHANGED Allowance!allowanceVars
    BY <2>1, AllowanceSteps DEF AllowanceHyp
  <2> QED
    BY <2>1, <2>3, <2>4, <2>5, BoundKept
<1>3. BoundInv => DayLossBound
  BY DEF BoundInv, DayLossBound
<1> QED
  BY <1>1, <1>2, <1>3, DayInductive, PTL DEF BridgeSpec

\* The scorecard is that of the newest trades closed, in order, through every restart,
\* as long as no row was lost (record_closed_trade, read_ledger).
THEOREM RecordStaysTheDay == BridgeSpec => []RecordIsTheDay
<1>1. DayInv => RecordIsTheDay
  BY LedgerIs DEF DayInv, RecordIsTheDay
<1> QED
  BY <1>1, DayInductive, PTL

\* Whatever was lost and garbled, the drawdown shown is the deepest fall of the record
\* that is read (scorecard).
THEOREM DrawdownStaysWorst == BridgeSpec => []DrawdownIsWorst
<1>1. DayInv => DrawdownIsWorst
  <2> SUFFICES ASSUME RecordTyped PROVE DrawdownIsWorst
    BY DEF DayInv
  <2>1. ReadLedger \in Seq(Int)
    BY LedgerTyped
  <2>2. Scorecard(ReadLedger).mdd = Drawdown(ReadLedger)
    BY DEF Scorecard
  <2> QED
    BY <2>1, <2>2, DrawdownOfAnyRecord DEF DrawdownIsWorst
<1> QED
  BY <1>1, DayInductive, PTL
===============================================================================
