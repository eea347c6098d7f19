------------------------- MODULE SinglePositionProofs -------------------------
(***************************************************************************)
(* TradingLoop implements SinglePosition when the broker settles an order  *)
(* inside its fill windows and the process does not die over one: for any  *)
(* number of slots, any mode, any kill, disarm, link failure and refusal.  *)
(***************************************************************************)
EXTENDS TradingLoopProofs

USE DEF Loop, Console, Go

\* What the account must hold: what the store holds, except while the fill of the
\* order at work is not applied to the store yet; a SIM process trades at no
\* broker.
Owned ==
  IF mode = "SIM" THEN 0
  ELSE IF pc \in {"await", "recheck"} /\ st[cur] \in {"filled", "told"}
  THEN IF env = "ENTRY" THEN 1 ELSE 0
  ELSE IF held THEN 1 ELSE 0

Waiting == pc \in {"await", "recheck"}

\* Only the order of the execution in progress is unsettled, it has the side of its
\* envelope, and the account follows the store.
OneAtWork ==
  /\ \A s \in Slots : s # cur => Settled(s)
  /\ ~Waiting => Settled(cur)
  /\ Waiting => mode # "SIM" /\ side[cur] = IF env = "ENTRY" THEN "BUY" ELSE "SELL"
  /\ pc # "down" => account = Owned

\* No order is at work at first.
LEMMA OneAtWorkInit == Init => OneAtWork
BY DEF Init, BrokerInit, OneAtWork, Waiting, Settled

\* A step of the loop that touches neither the orders nor what the account must hold.
LEMMA OneAtWorkIdle ==
  ASSUME OneAtWork, UNCHANGED <<side, st, account, cur, mode, held>>, ~Waiting, ~Waiting',
         pc' = "down" \/ pc # "down"
  PROVE  OneAtWork'
BY DEF OneAtWork, Waiting, Settled, Owned

\* At most the order of the executing envelope is live, and the account follows it.
LEMMA OneAtWorkNext ==
  ASSUME MaxLate = 0, ~Crashes
  PROVE  TypeOK /\ MachineAgrees /\ OneAtWork /\ [Next]_vars => OneAtWork'
<1> SUFFICES ASSUME TypeOK, MachineAgrees, OneAtWork, [Next]_vars PROVE OneAtWork'
  OBVIOUS
<1> USE DEF machine, memory, brokerVars
<1>1. CASE Boot
  BY <1>1 DEF Boot, OneAtWork, Waiting, Settled, Owned
<1>2. CASE LoopTop \/ NoBar \/ MarketStep \/ ManagePosition \/ SealExit \/ SealEntry
  BY <1>2, OneAtWorkIdle DEF LoopTop, NoBar, MarketStep, ManagePosition, SealExit, SealEntry,
    Waiting
<1>3. CASE Authorize \/ GatesDeny \/ RiskCheck
  BY <1>3, OneAtWorkIdle DEF Authorize, GatesDeny, RiskCheck, Waiting
<1>4. CASE Preflight
  BY <1>4, OneAtWorkIdle DEF Preflight, Finish, Waiting
<1>5. Blocked => pc' = "top" /\ UNCHANGED held
  BY DEF Blocked, Finish
<1>6. CASE Route \/ Size \/ SubmitRefused
  BY <1>5, <1>6, OneAtWorkIdle DEF Route, Size, SubmitRefused, Waiting
<1>7. CASE SimExecute
  BY <1>7 DEF SimExecute, Filled, PositionOpened, PositionClosed,
      OnPositionOpened, OnPositionClosed, InvalidTransition, Finish, OneAtWork, Waiting,
    Settled, Owned
<1>8. ASSUME NEW s \in Slots, Submit(s) PROVE OneAtWork'
  BY <1>8 DEF Submit, PlaceOrder, OneAtWork, Waiting, Settled, Owned, TypeOK, BrokerTypeOK
<1>9. CASE FillSeen
  BY <1>9 DEF FillSeen, Filled, PositionOpened, PositionClosed,
      OnPositionOpened, OnPositionClosed, InvalidTransition, Finish, OneAtWork, Waiting,
    Settled, Owned, MachineAgrees, Executing
<1>10. CASE CancelUnfilled
  BY <1>10 DEF CancelUnfilled, CancelOrder, OneAtWork, Waiting, Settled, Owned, TypeOK,
    BrokerTypeOK
<1>11. CASE GiveUp
  <2>1. Settled(cur)
    BY <1>11 DEF GiveUp, TypeOK, HistoryTypeOK
  <2> QED
    BY <1>11, <2>1 DEF GiveUp, NoFill, Finish, OneAtWork, Waiting, Settled, Owned
<1>12. CASE Crash
  BY <1>12 DEF Crash
<1>13. CASE BrokerStep
  <2> SUFFICES ASSUME NEW s \in Slots, BrokerFill(s) \/ BrokerCancelled(s) \/ OrderStatus(s)
               PROVE  OneAtWork'
    BY <1>13 DEF BrokerStep
  <2> USE <1>13 DEF BrokerStep, OneAtWork, Waiting, Settled, Live, TypeOK, BrokerTypeOK
  <2>1. s = cur /\ Waiting
    BY DEF BrokerFill, BrokerCancelled, OrderStatus
  <2>2. CASE BrokerFill(s)
    BY <2>1, <2>2 DEF BrokerFill, Owned, MachineAgrees, Executing
  <2>3. CASE BrokerCancelled(s)
    BY <2>1, <2>3 DEF BrokerCancelled, Owned
  <2>4. CASE OrderStatus(s)
    BY <2>1, <2>4 DEF OrderStatus, Owned
  <2> QED
    BY <2>2, <2>3, <2>4
<1>14. CASE LinkStep
  BY <1>14 DEF LinkStep, LinkDrop, Reconnect, OneAtWork, Waiting, Settled, Owned
<1>15. CASE ConsoleStep
  BY <1>15 DEF ConsoleStep, ConsoleKill, ConsoleClear, ConsoleRestart, SetArm, OneAtWork,
    Waiting, Settled, Owned
<1>16. CASE NewDay \/ UNCHANGED vars
  BY <1>16 DEF NewDay, vars, OneAtWork, Waiting, Settled, Owned
<1> QED
  BY <1>1, <1>2, <1>3, <1>4, <1>6, <1>7, <1>8, <1>9, <1>10, <1>11, <1>12, <1>13, <1>14,
     <1>15, <1>16 DEF Next, LoopStep

\* The account holds what the store says, between cycles, in every process that
\* trades at a broker.
THEOREM BooksStayTrue ==
  ASSUME MaxLate = 0, ~Crashes
  PROVE  Spec => []BooksAgree
<1>1. Spec => [](TypeOK /\ MachineAgrees)
  BY TypeCorrect, AgreementHolds, PTL
<1>2. OneAtWork => BooksAgree
  BY DEF OneAtWork, Waiting, Owned, BooksAgree
<1>3. TypeOK /\ MachineAgrees /\ OneAtWork /\ [Next]_vars => OneAtWork'
  BY OneAtWorkNext
<1> QED
  BY <1>1, <1>2, <1>3, OneAtWorkInit, PTL DEF Spec

-------------------------------------------------------------------------------
(* The refinement. *)

\* Initial states map to initial states.
LEMMA SPInit == Init => SP!Init
BY DEF Init, BrokerInit, SP!Init, WorkingOrder, Live

\* A step that leaves orders and account alone and neither starts nor stops the
\* process is a stutter.
LEMMA SPStutter ==
  ASSUME UNCHANGED <<side, st, account, cur>>, pc # "down", pc' # "down"
  PROVE  UNCHANGED SP!vars
BY DEF SP!vars, WorkingOrder, Live

\* A process stops with no order at work.
LEMMA SPStop ==
  ASSUME UNCHANGED <<side, st, account, cur>>, OneAtWork, pc \notin {"down", "await", "recheck"},
         pc' = "down"
  PROVE  SP!Stop
BY DEF SP!Stop, WorkingOrder, Live, OneAtWork, Waiting, Settled

\* Every step of the spine is a step of the promise, or stutters.
LEMMA SPNext ==
  ASSUME MaxLate = 0, ~Crashes
  PROVE  TypeOK /\ MachineAgrees /\ OneAtWork /\ [Next]_vars => [SP!Next]_SP!vars
<1> SUFFICES ASSUME TypeOK, MachineAgrees, OneAtWork, [Next]_vars
             PROVE  SP!Next \/ UNCHANGED SP!vars
  OBVIOUS
<1> USE DEF machine, memory, brokerVars, SP!Next
<1>1. CASE Boot
  BY <1>1 DEF Boot, SP!Start, WorkingOrder, Live
<1>2. CASE LoopTop \/ NoBar \/ MarketStep \/ ManagePosition \/ SealExit \/ SealEntry
  BY <1>2, SPStutter, SPStop DEF LoopTop, NoBar, MarketStep, ManagePosition, SealExit, SealEntry
<1>3. CASE Authorize \/ GatesDeny \/ RiskCheck
  BY <1>3, SPStutter DEF Authorize, GatesDeny, RiskCheck
<1>4. CASE Preflight
  BY <1>4, SPStutter DEF Preflight, Finish
<1>5. Blocked => pc' = "top"
  BY DEF Blocked, Finish
<1>6. CASE Route \/ Size \/ SubmitRefused
  BY <1>5, <1>6, SPStutter DEF Route, Size, SubmitRefused
<1>7. Filled /\ pc \in Executing => pc' = "top"
  BY DEF Filled, PositionOpened, PositionClosed,
      OnPositionOpened, OnPositionClosed, InvalidTransition, Finish, MachineAgrees
<1>8. CASE SimExecute \/ FillSeen
  BY <1>7, <1>8, SPStutter DEF SimExecute, FillSeen, Executing
<1>9. ASSUME NEW s \in Slots, Submit(s) PROVE SP!Submit \/ UNCHANGED SP!vars
  BY <1>9 DEF Submit, PlaceOrder, SP!Submit, SP!vars, WorkingOrder, Live, OneAtWork, Waiting,
    Settled, Owned, MachineAgrees, Executing, TypeOK, BrokerTypeOK
<1>10. CASE CancelUnfilled
  BY <1>10 DEF CancelUnfilled, CancelOrder, SP!vars, WorkingOrder, Live, TypeOK, BrokerTypeOK
<1>11. CASE GiveUp
  BY <1>11, SPStutter DEF GiveUp, NoFill, Finish
<1>12. CASE Crash
  BY <1>12 DEF Crash
<1>13. CASE BrokerStep
  <2> SUFFICES ASSUME NEW s \in Slots, BrokerFill(s) \/ BrokerCancelled(s) \/ OrderStatus(s)
               PROVE  SP!Next \/ UNCHANGED SP!vars
    BY <1>13 DEF BrokerStep
  <2> USE <1>13 DEF BrokerStep, WorkingOrder, Live, TypeOK, BrokerTypeOK
  <2>1. s = cur /\ Waiting
    BY DEF BrokerFill, BrokerCancelled, OrderStatus, OneAtWork, Settled
  <2>2. CASE BrokerFill(s)
    BY <2>1, <2>2 DEF BrokerFill, SP!Fill, OneAtWork, Owned, Waiting, MachineAgrees, Executing
  <2>3. CASE BrokerCancelled(s)
    BY <2>1, <2>3 DEF BrokerCancelled, SP!Lapse
  <2>4. CASE OrderStatus(s)
    BY <2>1, <2>4 DEF OrderStatus, SP!vars
  <2> QED
    BY <2>2, <2>3, <2>4
<1>14. CASE LinkStep
  BY <1>14 DEF LinkStep, LinkDrop, Reconnect, SP!vars, WorkingOrder, Live
<1>15. CASE ConsoleStep
  BY <1>15 DEF ConsoleStep, ConsoleKill, ConsoleClear, ConsoleRestart, SetArm, SP!vars,
    WorkingOrder, Live
<1>16. CASE NewDay \/ UNCHANGED vars
  BY <1>16 DEF NewDay, vars, SP!vars, WorkingOrder, Live
<1> QED
  BY <1>1, <1>2, <1>3, <1>4, <1>6, <1>8, <1>9, <1>10, <1>11, <1>12, <1>13, <1>14, <1>15,
     <1>16 DEF Next, LoopStep

\* The spine implements SinglePosition.
THEOREM ImplementsSinglePosition ==
  ASSUME MaxLate = 0, ~Crashes
  PROVE  Spec => KeepsSinglePosition
<1>1. Spec => [](TypeOK /\ MachineAgrees)
  BY TypeCorrect, AgreementHolds, PTL
<1>2. TypeOK /\ MachineAgrees /\ OneAtWork /\ [Next]_vars => OneAtWork'
  BY OneAtWorkNext
<1>3. TypeOK /\ MachineAgrees /\ OneAtWork /\ [Next]_vars => [SP!Next]_SP!vars
  BY SPNext
<1> QED
  BY <1>1, <1>2, <1>3, OneAtWorkInit, SPInit, PTL DEF Spec, KeepsSinglePosition, SP!Spec

\* What the promise comes to: the side of the order at work fits the exposure, and
\* a stopped process has none at work.
SPSides ==
  /\ account \in {0, 1}
  /\ WorkingOrder = "buy" => account = 0
  /\ WorkingOrder = "sell" => account = 1
  /\ pc = "down" => WorkingOrder = "none"

\* The side of the order at work follows the exposure.
LEMMA SPSidesNext == SPSides /\ [SP!Next]_SP!vars => SPSides'
<1> SUFFICES ASSUME SPSides, [SP!Next]_SP!vars PROVE SPSides'
  OBVIOUS
<1> USE DEF SPSides
<1>1. CASE SP!Start \/ SP!Submit
  BY <1>1 DEF SP!Start, SP!Submit
<1>2. CASE SP!Fill
  BY <1>2 DEF SP!Fill, WorkingOrder
<1>3. CASE SP!Lapse \/ SP!Stop \/ UNCHANGED SP!vars
  BY <1>3 DEF SP!Lapse, SP!Stop, SP!vars
<1> QED
  BY <1>1, <1>2, <1>3 DEF SP!Next

\* Under the promise the account never holds two contracts and is never short.
THEOREM NeverShortNorTwo ==
  ASSUME MaxLate = 0, ~Crashes
  PROVE  Spec => [](account \in {0, 1})
<1>1. Spec => SP!Spec
  BY ImplementsSinglePosition DEF KeepsSinglePosition
<1>2. SP!Init => SPSides
  BY DEF SP!Init, SPSides
<1>3. SPSides => account \in {0, 1}
  BY DEF SPSides
<1>4. SPSides /\ [SP!Next]_SP!vars => SPSides'
  BY SPSidesNext
<1> QED
  BY <1>1, <1>2, <1>3, <1>4, PTL DEF SP!Spec
===============================================================================
