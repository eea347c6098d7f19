-------------------------- MODULE TradingLoopProofs --------------------------
(***************************************************************************)
(* What TLAPS proves of TradingLoop for every value of its constants: its  *)
(* types, the agreement of machine and store, the effect of a kill, of a   *)
(* disarm and of the day's loss.  Each invariant is strengthened to an     *)
(* inductive one where it is not inductive as it stands.                   *)
(***************************************************************************)
EXTENDS TradingLoop, TLAPS

USE DEF Loop, Console, Go

-------------------------------------------------------------------------------
(* What a step can do to the kill state and to the orders. *)

KillStep ==
  \/ UNCHANGED killVars
  \/ EngageKill(Loop) \/ EngageKill(Console)
  \/ ConsoleClears /\ ClearKillFile
  \/ StartProcess(Loop) \/ StartProcess(Console)

OrderStep ==
  \/ UNCHANGED brokerVars
  \/ \E s \in Slots : \/ \E d \in OrderSides : PlaceOrder(s, d)
                      \/ BrokerFill(s) \/ BrokerCancelled(s) \/ OrderStatus(s)
  \/ CancelOrder(cur)
  \/ LinkDrop \/ Reconnect
  \/ account' = 0 /\ link' = TRUE /\ UNCHANGED <<side, st>>

\* A step changes the kill state only as the kill switch does.
LEMMA NextKills == [Next]_vars => KillStep
<1> SUFFICES ASSUME [Next]_vars PROVE KillStep
  OBVIOUS
<1> USE DEF KillStep
<1>1. CASE Boot
  BY <1>1 DEF Boot
<1>2. CASE LoopTop \/ NoBar \/ MarketStep \/ ManagePosition \/ SealExit \/ SealEntry
  BY <1>2 DEF LoopTop, NoBar, MarketStep, ManagePosition, SealExit, SealEntry, killVars
<1>3. CASE Authorize
  BY <1>3 DEF Authorize, killVars
<1>4. CASE GatesDeny \/ RiskCheck
  BY <1>4 DEF GatesDeny, RiskCheck, killVars
<1>5. CASE Preflight \/ Route \/ Size \/ SubmitRefused \/ CancelUnfilled \/ GiveUp
  BY <1>5 DEF Preflight, Route, Size, SubmitRefused, CancelUnfilled, GiveUp, Blocked, NoFill,
    killVars
<1>6. CASE SimExecute \/ FillSeen
  <2>1. Filled => KillStep
    BY DEF Filled, PositionOpened, PositionClosed,
      OnPositionOpened, OnPositionClosed, InvalidTransition, RecordRealizedPnl, killVars
  <2> QED
    BY <1>6, <2>1 DEF SimExecute, FillSeen
<1>7. ASSUME NEW s \in Slots, Submit(s) PROVE KillStep
  BY <1>7 DEF Submit, killVars
<1>8. CASE Crash \/ BrokerStep \/ LinkStep \/ NewDay
  BY <1>8 DEF Crash, BrokerStep, LinkStep, NewDay, killVars
<1>9. CASE ConsoleStep
  BY <1>9 DEF ConsoleStep, ConsoleKill, ConsoleClear, ConsoleRestart, SetArm, killVars
<1>10. CASE UNCHANGED vars
  BY <1>10 DEF vars, killVars
<1> QED
  BY <1>1, <1>2, <1>3, <1>4, <1>5, <1>6, <1>7, <1>8, <1>9, <1>10 DEF Next, LoopStep

\* A step changes the orders only as placing, cancelling, the broker, the socket or
\* a start does.
LEMMA NextOrders == [Next]_vars => OrderStep
<1> SUFFICES ASSUME [Next]_vars PROVE OrderStep
  OBVIOUS
<1> USE DEF OrderStep, brokerVars
<1>1. CASE Boot
  BY <1>1 DEF Boot
<1>2. CASE LoopTop \/ NoBar \/ MarketStep \/ ManagePosition \/ SealExit \/ SealEntry
  BY <1>2 DEF LoopTop, NoBar, MarketStep, ManagePosition, SealExit, SealEntry
<1>3. CASE Authorize \/ GatesDeny \/ RiskCheck
  BY <1>3 DEF Authorize, GatesDeny, RiskCheck
<1>4. CASE Preflight \/ Route \/ Size \/ SubmitRefused \/ SimExecute \/ FillSeen \/ GiveUp
  BY <1>4 DEF Preflight, Route, Size, SubmitRefused, SimExecute, FillSeen, GiveUp
<1>5. CASE CancelUnfilled
  BY <1>5 DEF CancelUnfilled
<1>6. ASSUME NEW s \in Slots, Submit(s) PROVE OrderStep
  BY <1>6 DEF Submit, OrderSides
<1>7. CASE Crash \/ NewDay
  BY <1>7 DEF Crash, NewDay
<1>8. CASE BrokerStep
  BY <1>8 DEF BrokerStep
<1>9. CASE LinkStep
  BY <1>9 DEF LinkStep
<1>10. CASE ConsoleStep
  BY <1>10 DEF ConsoleStep, ConsoleKill, ConsoleClear, ConsoleRestart, SetArm
<1>11. CASE UNCHANGED vars
  BY <1>11 DEF vars
<1> QED
  BY <1>1, <1>2, <1>3, <1>4, <1>5, <1>6, <1>7, <1>8, <1>9, <1>10, <1>11 DEF Next, LoopStep

-------------------------------------------------------------------------------
(* Types. *)

\* The two processes of the system, and that they are two.
LEMMA ProcsOfLoop == Loop \in Procs /\ Console \in Procs /\ Loop # Console
BY LoopAssumption

\* Engaging the kill in one process sets its latch, leaves the other's alone and
\* never takes the file away.
LEMMA EngageKillEffect ==
  ASSUME KillTypeOK, NEW p \in Procs, EngageKill(p)
  PROVE  /\ killed'[p]
         /\ \A q \in Procs : q # p => killed'[q] = killed[q]
         /\ killFile => killFile'
<1>1. CASE killed[p]
  BY <1>1 DEF EngageKill, killVars
<1>2. CASE ~killed[p]
  BY <1>2 DEF EngageKill, WriteKillFile, KillTypeOK
<1> QED
  BY <1>1, <1>2

\* The kill part of the type invariant is kept by every kill step.
LEMMA KillTyped == KillTypeOK /\ KillStep => KillTypeOK'
<1> SUFFICES ASSUME KillTypeOK, KillStep PROVE KillTypeOK'
  OBVIOUS
<1> USE DEF KillTypeOK
<1>1. CASE UNCHANGED killVars
  BY <1>1 DEF killVars
<1>2. ASSUME NEW p \in Procs, EngageKill(p) PROVE KillTypeOK'
  BY <1>2 DEF EngageKill, WriteKillFile, killVars
<1>3. CASE ClearKillFile
  BY <1>3 DEF ClearKillFile
<1>4. ASSUME NEW p \in Procs, StartProcess(p) PROVE KillTypeOK'
  BY <1>4 DEF StartProcess
<1> QED
  BY <1>1, <1>2, <1>3, <1>4, ProcsOfLoop DEF KillStep

\* The broker part is kept by every order step.
LEMMA OrdersTyped == BrokerTypeOK /\ cur \in Slots /\ OrderStep => BrokerTypeOK'
<1> SUFFICES ASSUME BrokerTypeOK, cur \in Slots, OrderStep PROVE BrokerTypeOK'
  OBVIOUS
<1> USE DEF BrokerTypeOK, OrderSides, OrderStates
<1>1. CASE UNCHANGED brokerVars
  BY <1>1 DEF brokerVars
<1>2. ASSUME NEW s \in Slots, NEW d \in OrderSides, PlaceOrder(s, d) PROVE BrokerTypeOK'
  BY <1>2 DEF PlaceOrder
<1>3. ASSUME NEW s \in Slots, BrokerFill(s) PROVE BrokerTypeOK'
  BY <1>3 DEF BrokerFill
<1>4. ASSUME NEW s \in Slots, BrokerCancelled(s) \/ OrderStatus(s) PROVE BrokerTypeOK'
  BY <1>4 DEF BrokerCancelled, OrderStatus
<1>5. CASE CancelOrder(cur)
  BY <1>5 DEF CancelOrder
<1>6. CASE LinkDrop
  BY <1>6 DEF LinkDrop
<1>7. CASE Reconnect
  BY <1>7 DEF Reconnect
<1>8. CASE account' = 0 /\ link' = TRUE /\ UNCHANGED <<side, st>>
  BY <1>8
<1> QED
  BY <1>1, <1>2, <1>3, <1>4, <1>5, <1>6, <1>7, <1>8 DEF OrderStep

\* The machine part is kept by every step.
LEMMA MachineTyped == MachineTypeOK /\ [Next]_vars => MachineTypeOK'
<1> SUFFICES ASSUME MachineTypeOK, [Next]_vars PROVE MachineTypeOK'
  OBVIOUS
<1> USE DEF MachineTypeOK, SystemState, machine, memory
<1>1. CASE Boot
  BY <1>1 DEF Boot
<1>2. CASE LoopTop \/ NoBar \/ MarketStep \/ ManagePosition \/ GatesDeny \/ RiskCheck
  BY <1>2 DEF LoopTop, NoBar, MarketStep, ManagePosition, GatesDeny, RiskCheck
<1>3. CASE SealExit \/ SealEntry
  BY <1>3 DEF SealExit, SealEntry
<1>4. CASE Authorize
  BY <1>4 DEF Authorize
<1>5. (Blocked \/ NoFill) /\ UNCHANGED ops => MachineTypeOK'
  BY DEF Blocked, NoFill, OnEntryFailed, OnExitFailed, Finish
<1>6. Filled /\ UNCHANGED ops => MachineTypeOK'
  BY DEF Filled, PositionOpened, PositionClosed,
      OnPositionOpened, OnPositionClosed, InvalidTransition, Finish
<1>7. CASE Preflight
  BY <1>7 DEF Preflight, Finish
<1>8. CASE Route \/ Size \/ SubmitRefused \/ SimExecute \/ FillSeen \/ GiveUp
  BY <1>8, <1>5, <1>6 DEF Route, Size, SubmitRefused, SimExecute, FillSeen, GiveUp
<1>9. ASSUME NEW s \in Slots, Submit(s) PROVE MachineTypeOK'
  BY <1>9 DEF Submit
<1>10. CASE CancelUnfilled \/ Crash
  BY <1>10 DEF CancelUnfilled, Crash
<1>11. CASE BrokerStep \/ LinkStep \/ NewDay
  BY <1>11 DEF BrokerStep, LinkStep, NewDay
<1>12. CASE ConsoleStep
  BY <1>12 DEF ConsoleStep, ConsoleKill, ConsoleClear, ConsoleRestart, SetArm
<1>13. CASE UNCHANGED vars
  BY <1>13 DEF vars
<1> QED
  BY <1>1, <1>2, <1>3, <1>4, <1>7, <1>8, <1>9, <1>10, <1>11, <1>12, <1>13 DEF Next, LoopStep

\* The governor part is kept: its day never runs ahead of the calendar's bound.
LEMMA GovernorTyped == GovernorTypeOK /\ [Next]_vars => GovernorTypeOK'
<1> SUFFICES ASSUME GovernorTypeOK, [Next]_vars PROVE GovernorTypeOK'
  OBVIOUS
<1> USE LoopAssumption DEF GovernorTypeOK, governor, memory, flags
<1>1. CASE Boot
  BY <1>1 DEF Boot
<1>2. CASE LoopTop \/ NoBar \/ MarketStep \/ ManagePosition \/ SealExit \/ SealEntry
  BY <1>2 DEF LoopTop, NoBar, MarketStep, ManagePosition, SealExit, SealEntry
<1>3. CASE Authorize \/ GatesDeny
  BY <1>3 DEF Authorize, GatesDeny
<1>4. CASE RiskCheck
  BY <1>4 DEF RiskCheck, Today
<1>5. (Blocked \/ NoFill \/ Filled) /\ UNCHANGED flags => GovernorTypeOK'
  <2>1. (Blocked \/ NoFill) /\ UNCHANGED flags => GovernorTypeOK'
    BY DEF Blocked, NoFill
  <2>2. PositionOpened /\ UNCHANGED flags => GovernorTypeOK'
    BY DEF PositionOpened, OnPositionOpened, InvalidTransition
  <2>3. PositionClosed /\ UNCHANGED flags => GovernorTypeOK'
    <3> SUFFICES ASSUME NEW pnl \in Outcomes, RecordRealizedPnl(pnl), UNCHANGED flags
                 PROVE GovernorTypeOK'
      BY DEF PositionClosed, OnPositionClosed, InvalidTransition
    <3>1. pnl \in Int /\ Today \in Int
      BY DEF Today
    <3> QED
      BY <3>1 DEF RecordRealizedPnl
  <2> QED
    BY <2>1, <2>2, <2>3 DEF Filled
<1>6. CASE Preflight
  BY <1>6 DEF Preflight
<1>7. CASE Route \/ Size
  BY <1>7, <1>5 DEF Route, Size
<1>8. CASE SubmitRefused \/ SimExecute \/ FillSeen \/ GiveUp
  BY <1>8, <1>5 DEF SubmitRefused, SimExecute, FillSeen, GiveUp
<1>9. ASSUME NEW s \in Slots, Submit(s) PROVE GovernorTypeOK'
  BY <1>9 DEF Submit
<1>10. CASE CancelUnfilled \/ Crash \/ BrokerStep \/ LinkStep
  BY <1>10 DEF CancelUnfilled, Crash, BrokerStep, LinkStep
<1>11. CASE NewDay
  BY <1>11 DEF NewDay
<1>12. CASE ConsoleStep
  BY <1>12 DEF ConsoleStep, ConsoleKill, ConsoleClear, ConsoleRestart, SetArm
<1>13. CASE UNCHANGED vars
  BY <1>13 DEF vars
<1> QED
  BY <1>1, <1>2, <1>3, <1>4, <1>6, <1>7, <1>8, <1>9, <1>10, <1>11, <1>12, <1>13
     DEF Next, LoopStep

\* The thread part is kept by every step.
LEMMA ThreadTyped == ThreadTypeOK /\ [Next]_vars => ThreadTypeOK'
<1> SUFFICES ASSUME ThreadTypeOK, [Next]_vars PROVE ThreadTypeOK'
  OBVIOUS
<1> USE DEF ThreadTypeOK, Labels, memory, flags
<1>1. CASE Boot
  BY <1>1 DEF Boot
<1>2. CASE LoopTop \/ NoBar \/ MarketStep \/ ManagePosition \/ SealExit \/ SealEntry
  BY <1>2 DEF LoopTop, NoBar, MarketStep, ManagePosition, SealExit, SealEntry
<1>3. CASE Authorize \/ GatesDeny \/ RiskCheck
  BY <1>3 DEF Authorize, GatesDeny, RiskCheck
<1>4. (Blocked \/ NoFill \/ Filled) => pc' \in {"top", "down"}
  BY DEF Blocked, NoFill, Filled, PositionOpened, PositionClosed,
      OnPositionOpened, OnPositionClosed, InvalidTransition, Finish
<1>5. CASE Preflight
  BY <1>5 DEF Preflight, Finish
<1>6. CASE Route \/ Size
  BY <1>6, <1>4 DEF Route, Size
<1>7. CASE SubmitRefused \/ SimExecute \/ FillSeen \/ GiveUp
  BY <1>7, <1>4 DEF SubmitRefused, SimExecute, FillSeen, GiveUp
<1>8. ASSUME NEW s \in Slots, Submit(s) PROVE ThreadTypeOK'
  BY <1>8 DEF Submit
<1>9. CASE CancelUnfilled \/ Crash \/ BrokerStep \/ LinkStep \/ NewDay
  BY <1>9 DEF CancelUnfilled, Crash, BrokerStep, LinkStep, NewDay
<1>10. CASE ConsoleStep
  BY <1>10 DEF ConsoleStep, ConsoleKill, ConsoleClear, ConsoleRestart, SetArm
<1>11. CASE UNCHANGED vars
  BY <1>11 DEF vars
<1> QED
  BY <1>1, <1>2, <1>3, <1>5, <1>6, <1>7, <1>8, <1>9, <1>10, <1>11 DEF Next, LoopStep

\* The history part is kept by every step.
LEMMA HistoryTyped == HistoryTypeOK /\ [Next]_vars => HistoryTypeOK'
<1> SUFFICES ASSUME HistoryTypeOK, [Next]_vars PROVE HistoryTypeOK'
  OBVIOUS
<1> USE LoopAssumption DEF HistoryTypeOK, history
<1>1. CASE Boot
  BY <1>1 DEF Boot
<1>2. CASE LoopTop \/ NoBar \/ MarketStep \/ ManagePosition \/ SealExit \/ SealEntry
  BY <1>2 DEF LoopTop, NoBar, MarketStep, ManagePosition, SealExit, SealEntry
<1>3. CASE Authorize \/ GatesDeny \/ RiskCheck \/ Preflight \/ Route \/ Size
  BY <1>3 DEF Authorize, GatesDeny, RiskCheck, Preflight, Route, Size
<1>4. CASE SubmitRefused \/ SimExecute \/ FillSeen \/ CancelUnfilled
  BY <1>4 DEF SubmitRefused, SimExecute, FillSeen, CancelUnfilled
<1>5. CASE GiveUp
  BY <1>5 DEF GiveUp
<1>6. ASSUME NEW s \in Slots, Submit(s) PROVE HistoryTypeOK'
  BY <1>6 DEF Submit
<1>7. CASE Crash \/ BrokerStep \/ LinkStep \/ NewDay
  BY <1>7 DEF Crash, BrokerStep, LinkStep, NewDay
<1>8. CASE ConsoleStep
  BY <1>8 DEF ConsoleStep, ConsoleKill, ConsoleClear, ConsoleRestart, SetArm
<1>9. CASE UNCHANGED vars
  BY <1>9 DEF vars
<1> QED
  BY <1>1, <1>2, <1>3, <1>4, <1>5, <1>6, <1>7, <1>8, <1>9 DEF Next, LoopStep

\* Every initial state is typed.
LEMMA TypeOKInit == Init => TypeOK
<1> SUFFICES ASSUME Init PROVE TypeOK
  OBVIOUS
<1>1. KillTypeOK
  BY DEF Init, KillInit, KillTypeOK
<1>2. BrokerTypeOK
  BY DEF Init, BrokerInit, BrokerTypeOK, OrderSides, OrderStates
<1>3. MachineTypeOK /\ ThreadTypeOK
  BY DEF Init, MachineTypeOK, ThreadTypeOK, SystemState, Labels
<1>4. GovernorTypeOK /\ HistoryTypeOK
  BY LoopAssumption DEF Init, GovernorTypeOK, HistoryTypeOK
<1> QED
  BY <1>1, <1>2, <1>3, <1>4 DEF TypeOK

\* The parts together: the type invariant is inductive.
LEMMA TypeOKNext == TypeOK /\ [Next]_vars => TypeOK'
BY NextKills, NextOrders, KillTyped, OrdersTyped, MachineTyped, GovernorTyped, ThreadTyped,
   HistoryTyped DEF TypeOK, ThreadTypeOK

\* Every variable keeps its type, whatever the constants.
THEOREM TypeCorrect == Spec => []TypeOK
BY TypeOKInit, TypeOKNext, PTL DEF Spec

-------------------------------------------------------------------------------
(* The store and the machine. *)

\* Store and machine agree when the process has not run yet.
LEMMA AgreesInit == Init => MachineAgrees
BY DEF Init, MachineAgrees, Executing

\* The agreement is inductive as it stands.
LEMMA AgreesNext == MachineAgrees /\ [Next]_vars => MachineAgrees'
<1> SUFFICES ASSUME MachineAgrees, [Next]_vars PROVE MachineAgrees'
  OBVIOUS
<1> USE DEF MachineAgrees, Executing, machine, memory
<1>1. CASE Boot
  BY <1>1 DEF Boot
<1>2. CASE LoopTop \/ NoBar \/ MarketStep \/ ManagePosition
  BY <1>2 DEF LoopTop, NoBar, MarketStep, ManagePosition
<1>3. CASE SealExit \/ SealEntry
  BY <1>3 DEF SealExit, SealEntry
<1>4. CASE Authorize
  BY <1>4 DEF Authorize
<1>5. CASE GatesDeny \/ RiskCheck
  BY <1>5 DEF GatesDeny, RiskCheck
<1>6. CASE Preflight
  BY <1>6 DEF Preflight, Finish
<1>7. ASSUME pc \in Executing, Blocked \/ NoFill PROVE MachineAgrees'
  BY <1>7 DEF Blocked, NoFill, OnEntryFailed, OnExitFailed, Finish
<1>8. ASSUME pc \in Executing, Filled PROVE MachineAgrees'
  BY <1>8 DEF Filled, PositionOpened, PositionClosed,
      OnPositionOpened, OnPositionClosed, InvalidTransition, Finish
<1>9. CASE Route \/ Size
  BY <1>9, <1>7 DEF Route, Size
<1>10. CASE SubmitRefused \/ SimExecute \/ FillSeen \/ GiveUp
  BY <1>10, <1>7, <1>8 DEF SubmitRefused, SimExecute, FillSeen, GiveUp
<1>11. ASSUME NEW s \in Slots, Submit(s) PROVE MachineAgrees'
  BY <1>11 DEF Submit
<1>12. CASE CancelUnfilled \/ Crash
  BY <1>12 DEF CancelUnfilled, Crash
<1>13. CASE BrokerStep \/ LinkStep \/ NewDay
  BY <1>13 DEF BrokerStep, LinkStep, NewDay
<1>14. CASE ConsoleStep
  BY <1>14 DEF ConsoleStep, ConsoleKill, ConsoleClear, ConsoleRestart, SetArm
<1>15. CASE UNCHANGED vars
  BY <1>15 DEF vars
<1> QED
  BY <1>1, <1>2, <1>3, <1>4, <1>5, <1>6, <1>9, <1>10, <1>11, <1>12, <1>13, <1>14, <1>15
     DEF Next, LoopStep

\* The store and the machine agree at every label, so no INVALID_* transition can
\* kill the loop.
THEOREM AgreementHolds == Spec => []MachineAgrees
BY AgreesInit, AgreesNext, PTL DEF Spec

-------------------------------------------------------------------------------
(* The kill latch and the kill file. *)

\* A loop whose latch is set has ended its cycle: nothing latches it anywhere else.
LatchedIsIdle == killed[Loop] => pc \in {"top", "down"}

\* No loop is latched at first.
LEMMA LatchedInit == Init => LatchedIsIdle
BY DEF Init, LatchedIsIdle

\* The console's kill sets its own latch and never the loop's.
LEMMA ConsoleLeavesLoop ==
  ASSUME KillTypeOK, EngageKill(Console) \/ ClearKillFile \/ StartProcess(Console)
  PROVE  killed'[Loop] = killed[Loop]
<1>1. CASE EngageKill(Console)
  BY <1>1, ProcsOfLoop, EngageKillEffect
<1>2. CASE ClearKillFile
  BY <1>2 DEF ClearKillFile
<1>3. CASE StartProcess(Console)
  BY <1>3, ProcsOfLoop DEF StartProcess, KillTypeOK
<1> QED
  BY <1>1, <1>2, <1>3

\* A latched loop stays away from the labels that lead to an order.
LEMMA LatchedNext == TypeOK /\ LatchedIsIdle /\ [Next]_vars => LatchedIsIdle'
<1> SUFFICES ASSUME TypeOK, LatchedIsIdle, [Next]_vars PROVE LatchedIsIdle'
  OBVIOUS
<1> USE DEF LatchedIsIdle, killVars
<1>1. CASE Boot
  BY <1>1 DEF Boot
<1>2. CASE LoopTop \/ NoBar \/ MarketStep \/ ManagePosition \/ SealExit \/ SealEntry
  BY <1>2 DEF LoopTop, NoBar, MarketStep, ManagePosition, SealExit, SealEntry, KillActive
<1>3. CASE Authorize
  BY <1>3 DEF Authorize
<1>4. CASE GatesDeny \/ RiskCheck
  BY <1>4 DEF GatesDeny, RiskCheck
<1>5. CASE Preflight
  BY <1>5 DEF Preflight, Finish
<1>6. (Blocked \/ NoFill \/ Filled) => pc' \in {"top", "down"}
  BY DEF Blocked, NoFill, Filled, PositionOpened, PositionClosed,
      OnPositionOpened, OnPositionClosed, InvalidTransition, Finish
<1>7. CASE Route \/ Size
  BY <1>7, <1>6 DEF Route, Size
<1>8. CASE SubmitRefused \/ SimExecute \/ FillSeen \/ GiveUp
  BY <1>8, <1>6 DEF SubmitRefused, SimExecute, FillSeen, GiveUp
<1>9. ASSUME NEW s \in Slots, Submit(s) PROVE LatchedIsIdle'
  BY <1>9 DEF Submit
<1>10. CASE CancelUnfilled \/ Crash \/ BrokerStep \/ LinkStep \/ NewDay
  BY <1>10 DEF CancelUnfilled, Crash, BrokerStep, LinkStep, NewDay
<1>11. CASE ConsoleStep
  BY <1>11, ConsoleLeavesLoop DEF TypeOK, ConsoleStep, ConsoleKill, ConsoleClear,
    ConsoleRestart, SetArm
<1>12. CASE UNCHANGED vars
  BY <1>12 DEF vars
<1> QED
  BY <1>1, <1>2, <1>3, <1>4, <1>5, <1>7, <1>8, <1>9, <1>10, <1>11, <1>12 DEF Next, LoopStep

\* The invariant behind LatchIsFinal: a latched loop is at no label past its last
\* kill check.
THEOREM LatchedLoopIsIdle == Spec => []LatchedIsIdle
<1>1. Spec => []TypeOK
  BY TypeCorrect
<1> QED
  BY <1>1, LatchedInit, LatchedNext, PTL DEF Spec

\* A process whose own latch is set places no order any more, whatever happens to
\* the file.
THEOREM LatchIsFinal == Spec => LatchedNeverTrades
<1>1. LatchedIsIdle /\ [Next]_vars => [Places => ~killed[Loop]]_vars
  BY DEF LatchedIsIdle, Places
<1> QED
  BY <1>1, LatchedLoopIsIdle, PTL DEF Spec, LatchedNeverTrades

\* The order placed after the KILL file appeared was under way already, and the file
\* then keeps the loop from its next cycle and from its next start.
LastOrder ==
  \/ afterKill = 0
  \/ afterKill = 1 /\ killFile /\ pc \in {"await", "recheck", "top", "down"}

\* No order has been placed at first.
LEMMA LastOrderInit == Init => LastOrder
BY DEF Init, LastOrder

\* An order under the file uses up the one pass that had cleared its kill checks.
LEMMA LastOrderNext == TypeOK /\ LastOrder /\ [Next]_vars => LastOrder'
<1> SUFFICES ASSUME TypeOK, LastOrder, [Next]_vars PROVE LastOrder'
  OBVIOUS
<1> USE DEF LastOrder, history, killVars
<1>1. CASE Boot
  BY <1>1 DEF Boot
<1>2. CASE LoopTop \/ NoBar \/ MarketStep \/ ManagePosition \/ SealExit \/ SealEntry
  BY <1>2 DEF LoopTop, NoBar, MarketStep, ManagePosition, SealExit, SealEntry, KillActive
<1>3. CASE Authorize \/ GatesDeny \/ RiskCheck \/ Preflight \/ Route \/ Size
  BY <1>3 DEF Authorize, GatesDeny, RiskCheck, Preflight, Route, Size
<1>4. CASE SubmitRefused \/ SimExecute
  BY <1>4 DEF SubmitRefused, SimExecute
<1>5. CASE FillSeen
  <2>1. killFile => killFile'
    BY <1>5, ProcsOfLoop, EngageKillEffect DEF FillSeen, Filled, PositionOpened, PositionClosed,
      OnPositionOpened, OnPositionClosed, InvalidTransition, RecordRealizedPnl, TypeOK
  <2>2. pc' \in {"top", "down"} /\ afterKill' = afterKill
    BY <1>5 DEF FillSeen, Filled, PositionOpened, PositionClosed,
      OnPositionOpened, OnPositionClosed, InvalidTransition, Finish
  <2> QED
    BY <2>1, <2>2
<1>6. CASE CancelUnfilled \/ GiveUp
  BY <1>6 DEF CancelUnfilled, GiveUp, NoFill, Finish
<1>7. ASSUME NEW s \in Slots, Submit(s) PROVE LastOrder'
  BY <1>7 DEF Submit
<1>8. CASE Crash \/ BrokerStep \/ LinkStep \/ NewDay
  BY <1>8 DEF Crash, BrokerStep, LinkStep, NewDay
<1>9. CASE ConsoleClear
  BY <1>9 DEF ConsoleClear, ClearKillFile
<1>10. CASE ConsoleKill
  BY <1>10, ProcsOfLoop, EngageKillEffect DEF ConsoleKill, TypeOK
<1>11. CASE ConsoleRestart \/ \E armed \in BOOLEAN : SetArm(armed)
  BY <1>11 DEF ConsoleRestart, SetArm, StartProcess
<1>12. CASE UNCHANGED vars
  BY <1>12 DEF vars
<1> QED
  BY <1>1, <1>2, <1>3, <1>4, <1>5, <1>6, <1>7, <1>8, <1>9, <1>10, <1>11, <1>12
     DEF Next, LoopStep, ConsoleStep

\* Between the appearance of the KILL file and its removal at most one order is
\* placed.
THEOREM KillStopsOrders == Spec => []OneOrderAfterKill
<1>1. Spec => []TypeOK
  BY TypeCorrect
<1>2. LastOrder => OneOrderAfterKill
  BY DEF LastOrder, OneOrderAfterKill
<1> QED
  BY <1>1, <1>2, LastOrderInit, LastOrderNext, PTL DEF Spec

-------------------------------------------------------------------------------
(* The ARM file. *)

\* An entry between the ARM check and its order.
EntryPending ==
  \/ pc = "sealEntry"
  \/ pc \in {"preflight", "route", "size", "submit"} /\ env = "ENTRY"

\* A LIVE process never gets past the seal; the entry placed after a disarm was
\* pending, and no other is while ARM stays away.
LastEntry ==
  /\ pc \in Executing => mode # "LIVE"
  /\ \/ afterDisarm = 0
     \/ afterDisarm = 1 /\ ~armFile /\ (NeedsArm => ~EntryPending)

\* No entry has been placed at first.
LEMMA LastEntryInit == Init => LastEntry
BY DEF Init, LastEntry, Executing

\* An entry after a disarm uses up the one pass that had cleared the ARM check.
LEMMA LastEntryNext == TypeOK /\ MachineAgrees /\ LastEntry /\ [Next]_vars => LastEntry'
<1> SUFFICES ASSUME TypeOK, MachineAgrees, LastEntry, [Next]_vars PROVE LastEntry'
  OBVIOUS
<1> USE DEF LastEntry, NeedsArm, EntryPending, Executing, memory, history, flags, machine
<1>1. CASE Boot
  BY <1>1 DEF Boot
<1>2. CASE LoopTop \/ NoBar \/ MarketStep \/ ManagePosition
  BY <1>2 DEF LoopTop, NoBar, MarketStep, ManagePosition
<1>3. CASE SealExit \/ SealEntry
  BY <1>3 DEF SealExit, SealEntry, Refuses
<1>4. CASE Authorize \/ GatesDeny \/ RiskCheck
  BY <1>4 DEF Authorize, GatesDeny, RiskCheck
<1>5. CASE Preflight
  BY <1>5 DEF Preflight, Finish
<1>6. (Blocked \/ NoFill \/ Filled) => pc' \in {"top", "down"}
  BY DEF Blocked, NoFill, Filled, PositionOpened, PositionClosed,
      OnPositionOpened, OnPositionClosed, InvalidTransition, Finish
<1>7. CASE Route \/ Size
  BY <1>7, <1>6 DEF Route, Size
<1>8. CASE SubmitRefused \/ SimExecute \/ FillSeen \/ GiveUp
  BY <1>8, <1>6 DEF SubmitRefused, SimExecute, FillSeen, GiveUp
<1>9. ASSUME NEW s \in Slots, Submit(s) PROVE LastEntry'
  <2>1. mode \in {"PAPER", "CAPITAL"}
    BY <1>9, LoopAssumption DEF Submit, TypeOK, ThreadTypeOK, AllModes
  <2>2. CASE afterDisarm = 0
    BY <1>9, <2>2 DEF Submit
  <2>3. CASE afterDisarm # 0
    BY <1>9, <2>1, <2>3 DEF Submit
  <2> QED
    BY <2>2, <2>3
<1>10. CASE CancelUnfilled \/ Crash
  BY <1>10 DEF CancelUnfilled, Crash
<1>11. CASE BrokerStep \/ LinkStep \/ NewDay
  BY <1>11 DEF BrokerStep, LinkStep, NewDay
<1>12. CASE ConsoleStep
  BY <1>12 DEF ConsoleStep, ConsoleKill, ConsoleClear, ConsoleRestart, SetArm
<1>13. CASE UNCHANGED vars
  BY <1>13 DEF vars
<1> QED
  BY <1>1, <1>2, <1>3, <1>4, <1>5, <1>7, <1>8, <1>9, <1>10, <1>11, <1>12, <1>13
     DEF Next, LoopStep

\* Between a disarm and the next ARM at most one entry is placed.
THEOREM DisarmStopsEntries == Spec => []OneEntryAfterDisarm
<1>1. Spec => []TypeOK
  BY TypeCorrect
<1>2. Spec => []MachineAgrees
  BY AgreementHolds
<1>3. LastEntry => OneEntryAfterDisarm
  BY DEF LastEntry, OneEntryAfterDisarm
<1> QED
  BY <1>1, <1>2, <1>3, LastEntryInit, LastEntryNext, PTL DEF Spec

-------------------------------------------------------------------------------
(* The day's loss. *)

\* Nothing is lost at first.
LEMMA LossInit == Init => LossHalts
BY LoopAssumption DEF Init, LossHalts, Breached

\* Every step that accrues a loss to the limit latches in the same step.
LEMMA LossNext == TypeOK /\ LossHalts /\ [Next]_vars => LossHalts'
<1> SUFFICES ASSUME TypeOK, LossHalts, [Next]_vars PROVE LossHalts'
  OBVIOUS
<1> USE DEF LossHalts, Governed, Breached, memory, governor, killVars
<1>1. CASE Boot
  BY <1>1, LoopAssumption DEF Boot
<1>2. CASE LoopTop \/ NoBar \/ MarketStep \/ ManagePosition \/ SealExit \/ SealEntry
  BY <1>2 DEF LoopTop, NoBar, MarketStep, ManagePosition, SealExit, SealEntry
<1>3. EngageKill(Loop) => killed'[Loop]
  BY ProcsOfLoop, EngageKillEffect DEF TypeOK
<1>4. CASE Authorize \/ GatesDeny
  BY <1>3, <1>4 DEF Authorize, GatesDeny
<1>5. CASE RiskCheck
  BY <1>3, <1>5 DEF RiskCheck
<1>6. ASSUME Blocked \/ NoFill \/ PositionOpened, UNCHANGED mode PROVE LossHalts'
  BY <1>3, <1>6 DEF Blocked, NoFill, PositionOpened, OnPositionOpened, InvalidTransition
<1>7. ASSUME PositionClosed, UNCHANGED mode PROVE LossHalts'
  BY <1>3, <1>7 DEF PositionClosed, OnPositionClosed, InvalidTransition, RecordRealizedPnl
<1>8. CASE Preflight
  BY <1>8 DEF Preflight
<1>9. CASE Route \/ Size
  BY <1>9, <1>6 DEF Route, Size
<1>10. CASE SubmitRefused \/ SimExecute \/ FillSeen \/ GiveUp
  BY <1>10, <1>6, <1>7 DEF SubmitRefused, SimExecute, FillSeen, GiveUp, Filled
<1>11. ASSUME NEW s \in Slots, Submit(s) PROVE LossHalts'
  BY <1>11 DEF Submit
<1>12. CASE CancelUnfilled \/ Crash \/ BrokerStep \/ LinkStep \/ NewDay
  BY <1>12 DEF CancelUnfilled, Crash, BrokerStep, LinkStep, NewDay
<1>13. CASE ConsoleStep
  BY <1>13, ConsoleLeavesLoop DEF TypeOK, ConsoleStep, ConsoleKill, ConsoleClear,
    ConsoleRestart, SetArm
<1>14. CASE UNCHANGED vars
  BY <1>14 DEF vars
<1> QED
  BY <1>1, <1>2, <1>4, <1>5, <1>8, <1>9, <1>10, <1>11, <1>12, <1>13, <1>14
     DEF Next, LoopStep

\* A loop that has lost MAX_DAILY_LOSS_USD is latched, and stays so.
THEOREM LossLatches == Spec => []LossHalts
<1>1. Spec => []TypeOK
  BY TypeCorrect
<1> QED
  BY <1>1, LossInit, LossNext, PTL DEF Spec

-------------------------------------------------------------------------------
(* A reported kill. *)

\* Without Clear, and with a home directory that can be written, a console that
\* latched has left the file behind.
AckIsDurable ==
  /\ killed[Console] => killFile
  /\ ack # "cleared"
  /\ ack = "killed" => killFile

\* Nothing has been reported at first.
LEMMA AckInit == Init => AckIsDurable
BY ProcsOfLoop DEF Init, KillInit, AckIsDurable

\* A step that leaves the file and the report alone keeps the report durable.
LEMMA AckStep ==
  ASSUME [Next]_vars, ~ConsoleClears, ack # "cleared"
  PROVE  ack' = ack \/ (ack' = "killed" /\ EngageKill(Console))
<1> USE DEF history
<1>1. CASE Boot
  BY <1>1 DEF Boot
<1>2. CASE LoopTop \/ NoBar \/ MarketStep \/ ManagePosition \/ SealExit \/ SealEntry
  BY <1>2 DEF LoopTop, NoBar, MarketStep, ManagePosition, SealExit, SealEntry
<1>3. CASE Authorize \/ GatesDeny \/ RiskCheck \/ Preflight \/ Route \/ Size
  BY <1>3 DEF Authorize, GatesDeny, RiskCheck, Preflight, Route, Size
<1>4. CASE SubmitRefused \/ SimExecute \/ FillSeen \/ CancelUnfilled \/ GiveUp
  BY <1>4 DEF SubmitRefused, SimExecute, FillSeen, CancelUnfilled, GiveUp
<1>5. ASSUME NEW s \in Slots, Submit(s) PROVE UNCHANGED ack
  BY <1>5 DEF Submit
<1>6. CASE Crash \/ BrokerStep \/ LinkStep \/ NewDay
  BY <1>6 DEF Crash, BrokerStep, LinkStep, NewDay
<1>7. CASE ConsoleStep
  BY <1>7 DEF ConsoleStep, ConsoleKill, ConsoleClear, ConsoleRestart, SetArm
<1>8. CASE UNCHANGED vars
  BY <1>8 DEF vars
<1> QED
  BY <1>1, <1>2, <1>3, <1>4, <1>5, <1>6, <1>7, <1>8 DEF Next, LoopStep

\* A reported kill has its file as long as writes succeed and nobody clears.
LEMMA AckNext ==
  ASSUME ~ConsoleClears, ~WritesFail
  PROVE  TypeOK /\ AckIsDurable /\ [Next]_vars => AckIsDurable'
<1> SUFFICES ASSUME TypeOK, AckIsDurable, [Next]_vars PROVE AckIsDurable'
  OBVIOUS
<1> USE ProcsOfLoop, EngageKillEffect DEF TypeOK
<1>1. KillStep
  BY NextKills
<1>2. killFile => killFile'
  BY <1>1 DEF KillStep, StartProcess, killVars
<1>3. EngageKill(Console) => killFile'
  BY DEF EngageKill, WriteKillFile, AckIsDurable, killVars
<1>4. killed'[Console] => killFile'
  <2>1. CASE EngageKill(Console)
    BY <1>3, <2>1
  <2>2. CASE StartProcess(Console)
    BY <2>2 DEF StartProcess, KillTypeOK
  <2>3. CASE StartProcess(Loop)
    BY <1>2, <2>3 DEF StartProcess, KillTypeOK, AckIsDurable
  <2>4. CASE EngageKill(Loop) \/ UNCHANGED killVars
    BY <1>2, <2>4 DEF AckIsDurable, killVars
  <2> QED
    BY <1>1, <2>1, <2>2, <2>3, <2>4 DEF KillStep
<1>5. ack' = ack \/ (ack' = "killed" /\ killFile')
  BY <1>3, AckStep DEF AckIsDurable
<1> QED
  BY <1>2, <1>4, <1>5 DEF AckIsDurable

\* As long as nobody clears the file and the home directory can be written, a kill
\* the console reports is in force for a running loop.
THEOREM ReportedKillHolds ==
  ASSUME ~ConsoleClears, ~WritesFail
  PROVE  Spec => []KillAckInForce
<1>1. Spec => []TypeOK
  BY TypeCorrect
<1>2. AckIsDurable => KillAckInForce
  BY DEF AckIsDurable, KillAckInForce, KillActive
<1>3. TypeOK /\ AckIsDurable /\ [Next]_vars => AckIsDurable'
  BY AckNext
<1> QED
  BY <1>1, <1>2, <1>3, AckInit, PTL DEF Spec
===============================================================================
