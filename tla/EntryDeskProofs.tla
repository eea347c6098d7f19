---------------------------- MODULE EntryDeskProofs ----------------------------
(***************************************************************************)
(* What TLAPS proves of EntryDesk for every set of environments and        *)
(* quotes, and every strike and cap: the size is the largest admissible    *)
(* one, an entry costs more than the limits only through its second quote, *)
(* the books of a one-contract trade agree with the account, and contracts *)
(* of a capital order are within limits the operator wrote down, whichever *)
(* of the two gates asks for them.                                         *)
(***************************************************************************)
EXTENDS EntryDesk, TLAPS

USE DEF world, ticket, account, books

-------------------------------------------------------------------------------
(* Arithmetic. *)

\* A larger factor, a larger product.
LEMMA TimesMonotone ==
  ASSUME NEW a \in Int, NEW b \in Int, NEW c \in Nat, a <= b
  PROVE  a * c <= b * c
  OBVIOUS

\* Floor division finds the largest number of contracts a cap pays for.
LEMMA FloorIsLargest ==
  ASSUME NEW cap \in Nat, NEW cost \in Nat \ {0}, NEW n \in Int
  PROVE  /\ FitsUnder(cap, cost) \in Int
         /\ n <= FitsUnder(cap, cost) <=> n * cost <= cap
<1> DEFINE q == cap \div cost
<1>1. q \in Int /\ q * cost <= cap /\ cap < (q + 1) * cost
  OBVIOUS
<1>2. ASSUME n <= q PROVE n * cost <= cap
  BY <1>1, <1>2, TimesMonotone
<1>3. ASSUME ~(n <= q) PROVE ~(n * cost <= cap)
  <2>1. q + 1 <= n
    BY <1>1, <1>3
  <2> QED
    BY <1>1, <2>1, TimesMonotone
<1> QED
  BY <1>1, <1>2, <1>3 DEF FitsUnder

\* The cost of one contract is positive, whatever the quote.
LEMMA CostPositive ==
  ASSUME NEW mode, NEW premium \in Nat
  PROVE  PerContractCost(mode, premium) \in Nat \ {0}
  BY DeskAssumption DEF PerContractCost, Multiplier

\* The smaller of two integers.
LEMMA LesserFacts ==
  ASSUME NEW a \in Int, NEW b \in Int
  PROVE  /\ Lesser(a, b) \in Int
         /\ \A n \in Int : n <= Lesser(a, b) <=> n <= a /\ n <= b
  BY DEF Lesser

-------------------------------------------------------------------------------
(* Sizing. *)

\* The limits in force are amounts, whatever the environment leaves out.
LEMMA CapsTyped ==
  ASSUME env \in Envs
  PROVE  MaxContracts \in Nat /\ MaxNotional \in Nat /\ MaxDailyLoss \in Nat
<1>1. env.caps \in [contracts : Limits, notional : Limits, loss : Limits]
  BY DeskAssumption
<1> QED
  BY <1>1 DEF MaxContracts, MaxNotional, MaxDailyLoss, Effective, Limits, Unset

\* What the size must respect, as a condition on a number of contracts.
Affordable(mode, quantity, premium, n) ==
  LET cost == PerContractCost(mode, premium) IN
  /\ n <= quantity /\ n <= ContractCap(mode)
  /\ n * cost <= NotionalCap(mode)
  /\ mode # "SIM" => n * cost <= MaxDailyLoss

\* A chain of minima of floor divisions admits exactly the numbers that are affordable.
LEMMA SizeAdmits ==
  ASSUME env \in Envs, NEW mode, NEW quantity \in Int, NEW premium \in Nat
  PROVE  /\ FinalQuantity(mode, quantity, premium) \in Int
         /\ \A n \in Int :
              n <= FinalQuantity(mode, quantity, premium)
                <=> Affordable(mode, quantity, premium, n)
<1> DEFINE cost == PerContractCost(mode, premium)
           byCeiling == Lesser(quantity, ContractCap(mode))
           byNotional == FitsUnder(NotionalCap(mode), cost)
           bounded == Lesser(byCeiling, byNotional)
           byLoss == FitsUnder(MaxDailyLoss, cost)
<1>1. cost \in Nat \ {0}
  BY CostPositive
<1>2. ContractCap(mode) \in Nat /\ NotionalCap(mode) \in Nat /\ MaxDailyLoss \in Nat
  BY CapsTyped DEF ContractCap, NotionalCap, SimMaxContracts, SimMaxNotional
<1>3. /\ byNotional \in Int /\ byLoss \in Int
      /\ \A n \in Int : n <= byNotional <=> n * cost <= NotionalCap(mode)
      /\ \A n \in Int : n <= byLoss <=> n * cost <= MaxDailyLoss
  BY <1>1, <1>2, FloorIsLargest
<1>4. /\ byCeiling \in Int
      /\ \A n \in Int : n <= byCeiling <=> n <= quantity /\ n <= ContractCap(mode)
  <2> DEFINE ceiling == ContractCap(mode)
  <2>1. ceiling \in Int
    BY <1>2
  <2> HIDE DEF ceiling
  <2>2. /\ Lesser(quantity, ceiling) \in Int
        /\ \A n \in Int : n <= Lesser(quantity, ceiling) <=> n <= quantity /\ n <= ceiling
    BY <2>1, LesserFacts
  <2> QED
    BY <2>2 DEF ceiling
<1>5. /\ bounded \in Int
      /\ \A n \in Int : n <= bounded <=> n <= byCeiling /\ n <= byNotional
  <2> HIDE DEF byCeiling, byNotional
  <2> QED
    BY <1>3, <1>4, LesserFacts
<1>6. /\ Lesser(bounded, byLoss) \in Int
      /\ \A n \in Int : n <= Lesser(bounded, byLoss) <=> n <= bounded /\ n <= byLoss
  <2> HIDE DEF bounded, byLoss
  <2> QED
    BY <1>3, <1>5, LesserFacts
<1>7. FinalQuantity(mode, quantity, premium)
        = IF mode = "SIM" THEN bounded ELSE Lesser(bounded, byLoss)
  BY DEF FinalQuantity
<1>8. \A n \in Int : Affordable(mode, quantity, premium, n)
                       <=> /\ n <= bounded
                           /\ mode # "SIM" => n <= byLoss
  <2> SUFFICES ASSUME NEW n \in Int
               PROVE  Affordable(mode, quantity, premium, n)
                        <=> n <= bounded /\ (mode # "SIM" => n <= byLoss)
    OBVIOUS
  <2>1. n <= bounded <=> /\ n <= quantity /\ n <= ContractCap(mode)
                         /\ n * cost <= NotionalCap(mode)
    BY <1>3, <1>4, <1>5
  <2>2. n <= byLoss <=> n * cost <= MaxDailyLoss
    BY <1>3
  <2> HIDE DEF bounded, byLoss, cost
  <2> QED
    BY <2>1, <2>2 DEF Affordable, cost
<1> HIDE DEF bounded, byLoss
<1> QED
  BY <1>5, <1>6, <1>7, <1>8

-------------------------------------------------------------------------------
(* Types. *)

WorldTyped ==
  /\ env \in Envs /\ drill \in DrillAges /\ promotion \in Promotions
  /\ kill \in BOOLEAN /\ row \in 0..2 /\ quote \in Quotes

Labels == {"idle", "driver", "router", "size", "route", "price", "working", "open",
           "selling", "closed", "stuck"}

TicketTyped ==
  /\ armed \in BOOLEAN /\ pc \in Labels
  /\ qty \in 0..MaxContractsPerTrade /\ qty \in Quantities \cup {0}
  /\ sized \in 0..MaxContractsPerTrade
  /\ est \in Nat /\ limit \in [buy : Nat, sell : Nat]

BooksTyped ==
  /\ rest \in 0..MaxContractsPerTrade /\ held \in Int /\ paid \in Int
  /\ position \in [qty : 0..MaxContractsPerTrade, n : 0..MaxContractsPerTrade, cost : Nat]
  /\ realized \in Int

\* Before the order is out there is nothing at the broker; while it works, what is
\* held and what works make up the size; a position stands for a fill.
Ordering == {"idle", "driver", "router", "size", "route", "price"}
FlowInv ==
  /\ pc \in Ordering => rest = 0 /\ held = 0 /\ paid = 0
  /\ pc \in {"route", "price", "working"} => sized > 0
  /\ pc = "working" => /\ held \in Nat /\ held + rest = sized
                       /\ paid \in Nat /\ (held = 0 => paid = 0)
  /\ pc \in {"open", "selling"} => position.n > 0

LEMMA WorldKept == WorldTyped /\ [DeskNext]_deskVars => WorldTyped'
<1> SUFFICES ASSUME WorldTyped, [DeskNext]_deskVars PROVE WorldTyped'
  OBVIOUS
<1> USE DEF WorldTyped
<1>1. CASE MarketMoves \/ KillOn
  BY <1>1 DEF MarketMoves, KillOn
<1>2. CASE RowMoves
  BY <1>2 DEF RowMoves, Lesser
<1>3. CASE TimePasses
  BY <1>3 DEF TimePasses, Promotions
<1>4. ASSUME UNCHANGED world PROVE WorldTyped'
  BY <1>4
<1>5. CASE EntryStep
  BY <1>4, <1>5 DEF EntryStep, Propose, Arm, NoNeedToArm, RouteEntry, Refused, Size, SimEntry,
    Route, PlaceEntry, OpenPosition, EntryUnfilled
<1>6. CASE ExitStep
  BY <1>4, <1>6 DEF ExitStep, PlaceExit, ClosePosition, CloseAt, ExitUnfilled
<1>7. ASSUME NEW n \in 1..rest, BrokerFills(n) PROVE WorldTyped'
  BY <1>4, <1>7 DEF BrokerFills
<1>8. CASE UNCHANGED deskVars
  BY <1>4, <1>8 DEF deskVars
<1> QED
  BY <1>1, <1>2, <1>3, <1>5, <1>6, <1>7, <1>8 DEF DeskNext, WorldStep

\* Limit prices are never negative.
LEMMA LimitTyped ==
  ASSUME WorldTyped, NEW side \in {"BUY", "SELL"}
  PROVE  MarketableLimit(side, quote) \subseteq Nat
<1>1. quote.ask \in Int /\ quote.bid \in Int /\ env.bufferPct \in 0..100
  BY DeskAssumption DEF WorldTyped
<1> DEFINE ref == IF side = "BUY" THEN quote.ask ELSE quote.bid
           share == IF side = "BUY" THEN 100 + env.bufferPct ELSE 100 - env.bufferPct
<1>2. ref \in Int /\ share \in Nat
  BY <1>1
<1>3. ref > 0 => ref * share \in Nat
  <2> HIDE DEF ref, share
  <2> QED
    BY <1>2
<1>4. \A h \in Nat : RoundToTick(h) \subseteq Nat
  BY DEF RoundToTick
<1>5. MarketableLimit(side, quote) = IF ref <= 0 THEN {} ELSE RoundToTick(ref * share)
  BY <1>1 DEF MarketableLimit
<1> HIDE DEF ref, share
<1> QED
  BY <1>2, <1>3, <1>4, <1>5

LEMMA SimFillTyped == SimFillPrice \in Nat \ {0}
  BY DeskAssumption DEF SimFillPrice, Greater

LEMMA TicketKept ==
  WorldTyped /\ TicketTyped /\ [DeskNext]_deskVars => TicketTyped'
<1> SUFFICES ASSUME WorldTyped, TicketTyped, [DeskNext]_deskVars PROVE TicketTyped'
  OBVIOUS
<1> USE DEF TicketTyped, Labels
<1>1. ASSUME UNCHANGED <<armed, pc, ticket>> PROVE TicketTyped'
  BY <1>1
<1>2. CASE WorldStep
  BY <1>1, <1>2 DEF WorldStep, MarketMoves, KillOn, RowMoves, TimePasses
<1>3. ASSUME NEW q \in Quantities, Propose(q) PROVE TicketTyped'
  BY <1>3, DeskAssumption DEF Propose, NoLimit, MaxContractsPerTrade
<1>4. CASE Arm
  <2>1. Preflight(env, drill, kill, row) \in BOOLEAN
    BY DEF Preflight
  <2> QED
    BY <1>4, <2>1 DEF Arm
<1>5. CASE NoNeedToArm \/ Route
  BY <1>5 DEF NoNeedToArm, Route, Refused
<1>6. CASE RouteEntry
  <2>1. quote.ask \in Int /\ quote.bid \in Int
    BY DeskAssumption DEF WorldTyped
  <2>2. EstimatePremium(quote) \in Nat
    BY <2>1 DEF EstimatePremium, Greater
  <2> QED
    BY <1>6, <2>2 DEF RouteEntry, Refused
<1>7. CASE Size
  <2> DEFINE final == FinalQuantity(env.mode, qty, est)
  <2>1. final \in Int /\ final <= qty
    <3>1. Affordable(env.mode, qty, est, final)
      BY SizeAdmits DEF WorldTyped
    <3> QED
      BY <3>1, SizeAdmits DEF Affordable, WorldTyped
  <2> HIDE DEF final
  <2>2. \/ Refused
        \/ final > 0 /\ sized' = final /\ pc' = "route" /\ UNCHANGED <<armed, qty, est, limit>>
    BY <1>7, <2>1 DEF Size, final
  <2> QED
    BY <2>1, <2>2 DEF Refused, MaxContractsPerTrade
<1>8. CASE SimEntry \/ OpenPosition \/ EntryUnfilled
  BY <1>8 DEF SimEntry, OpenPosition, EntryUnfilled
<1>9. CASE PlaceEntry
  BY <1>9, LimitTyped DEF PlaceEntry, Refused
<1>10. CASE PlaceExit
  <2>1. SellLimits \subseteq Nat
    BY LimitTyped, SimFillTyped DEF SellLimits
  <2> QED
    BY <1>10, <2>1 DEF PlaceExit
<1>11. CASE ClosePosition \/ ExitUnfilled
  BY <1>11 DEF ClosePosition, CloseAt, ExitUnfilled
<1>12. ASSUME NEW n \in 1..rest, BrokerFills(n) PROVE TicketTyped'
  BY <1>1, <1>12 DEF BrokerFills
<1>13. CASE UNCHANGED deskVars
  BY <1>1, <1>13 DEF deskVars
<1> QED
  BY <1>2, <1>3, <1>4, <1>5, <1>6, <1>7, <1>8, <1>9, <1>10, <1>11, <1>12, <1>13
     DEF DeskNext, EntryStep, ExitStep

\* What the account and the books hold stays within the size of the order.
LEMMA BooksTypedKept ==
  WorldTyped /\ TicketTyped /\ BooksTyped /\ FlowInv /\ [DeskNext]_deskVars
    => BooksTyped' /\ FlowInv'
<1> SUFFICES ASSUME WorldTyped, TicketTyped, BooksTyped, FlowInv, [DeskNext]_deskVars
             PROVE  BooksTyped' /\ FlowInv'
  OBVIOUS
<1> USE DEF BooksTyped, FlowInv, Ordering, MaxContractsPerTrade
<1>1. ASSUME UNCHANGED <<pc, sized, account, books>> PROVE BooksTyped' /\ FlowInv'
  BY <1>1
<1>2. CASE WorldStep
  BY <1>1, <1>2 DEF WorldStep, MarketMoves, KillOn, RowMoves, TimePasses
<1>3. ASSUME NEW q \in Quantities, Propose(q) PROVE BooksTyped' /\ FlowInv'
  BY <1>3 DEF Propose
<1>4. CASE Arm \/ NoNeedToArm \/ RouteEntry
  BY <1>4 DEF Arm, NoNeedToArm, RouteEntry, Refused
<1>5. CASE Size \/ Route
  <2>1. FinalQuantity(env.mode, qty, est) \in Int
    BY SizeAdmits DEF WorldTyped, TicketTyped
  <2> QED
    BY <1>5, <2>1 DEF Size, Route, Refused
<1>6. CASE SimEntry
  <2>1. sized \in 1..5 /\ SimFillPrice \in Nat /\ qty \in 0..5
    BY <1>6, SimFillTyped DEF SimEntry, TicketTyped
  <2>2. sized * SimFillPrice \in Nat
    BY <2>1
  <2> QED
    BY <1>6, <2>1, <2>2 DEF SimEntry
<1>7. CASE PlaceEntry
  BY <1>7 DEF PlaceEntry, OrderQuantity, Refused, TicketTyped
<1>8. CASE OpenPosition \/ EntryUnfilled
  BY <1>8 DEF OpenPosition, EntryUnfilled, TicketTyped
<1>9. CASE PlaceExit \/ ExitUnfilled
  BY <1>9 DEF PlaceExit, ExitUnfilled
<1>10. CASE ClosePosition
  <2> DEFINE price == IF env.mode = "SIM" THEN SimFillPrice ELSE quote.bid
  <2>1. price \in Int
    BY SimFillTyped, DeskAssumption DEF WorldTyped
  <2> HIDE DEF price
  <2>2. CloseAt(price)
    BY <1>10 DEF ClosePosition, price
  <2>3. /\ price * position.n \in Int /\ position.qty * price \in Int
        /\ position.n \in Nat \ {0} /\ position.qty \in Int /\ position.cost \in Int
    BY <2>1, <2>2 DEF CloseAt
  <2>4. \A a, b \in Int : (a * b) * Multiplier \in Int
    BY DEF Multiplier
  <2> DEFINE gain == price * position.n - position.cost
             whole == (gain * position.qty) * Multiplier
  <2>5. whole \in Int
    <3>1. gain \in Int
      BY <2>3
    <3> HIDE DEF gain
    <3> QED
      BY <2>3, <2>4, <3>1
  <2>6. RealizedPnl(price) \in Int
    <3>1. RealizedPnl(price) = whole \div position.n
      BY DEF RealizedPnl
    <3> HIDE DEF whole
    <3> QED
      BY <2>3, <2>5, <3>1
  <2> QED
    BY <2>2, <2>3, <2>6 DEF CloseAt, Flat
<1>11. ASSUME NEW n \in 1..rest, BrokerFills(n) PROVE BooksTyped' /\ FlowInv'
  <2>1. n \in 1..5 /\ quote.ask \in Int /\ quote.ask > 0
    BY <1>11, DeskAssumption DEF WorldTyped, BrokerFills
  <2>2. n * quote.ask \in Nat
    BY <2>1
  <2> QED
    BY <1>11, <2>1, <2>2 DEF BrokerFills, TicketTyped
<1>12. CASE UNCHANGED deskVars
  BY <1>1, <1>12 DEF deskVars
<1> QED
  BY <1>2, <1>3, <1>4, <1>5, <1>6, <1>7, <1>8, <1>9, <1>10, <1>11, <1>12
     DEF DeskNext, EntryStep, ExitStep

TypedInv == WorldTyped /\ TicketTyped /\ BooksTyped /\ FlowInv

LEMMA TypedInductive == DeskSpec => []TypedInv
<1>1. DeskInit => TypedInv
  <2> SUFFICES ASSUME DeskInit PROVE TypedInv
    OBVIOUS
  <2>1. /\ env \in Envs /\ drill \in DrillAges /\ promotion \in Promotions
        /\ kill \in BOOLEAN /\ quote \in Quotes /\ armed \in BOOLEAN
    BY Zenon DEF DeskInit
  <2>2. row = 0 /\ pc = "idle" /\ qty = 0 /\ est = 0 /\ sized = 0 /\ limit = NoLimit
    BY Zenon DEF DeskInit
  <2>3. BooksTyped /\ FlowInv
    BY DEF DeskInit, BooksTyped, FlowInv, Ordering, Flat, MaxContractsPerTrade
  <2>4. WorldTyped
    BY <2>1, <2>2 DEF WorldTyped
  <2>5. TicketTyped
    BY <2>1, <2>2 DEF TicketTyped, Labels, NoLimit, MaxContractsPerTrade
  <2> QED
    BY <2>3, <2>4, <2>5 DEF TypedInv
<1>2. TypedInv /\ [DeskNext]_deskVars => TypedInv'
  BY WorldKept, TicketKept, BooksTypedKept DEF TypedInv
<1> QED
  BY <1>1, <1>2, PTL DEF DeskSpec

\* Every variable of the desk keeps its type: a realized result is an integer because
\* a position always stands for at least one contract.
THEOREM DeskTyped == DeskSpec => []DeskTypeOK
<1>1. TypedInv => DeskTypeOK
  BY DEF TypedInv, WorldTyped, TicketTyped, BooksTyped, Labels, DeskTypeOK
<1> QED
  BY <1>1, TypedInductive, PTL

-------------------------------------------------------------------------------
(* The arming. *)

\* The arming and the account do not part, and orders come after the arming.
ArmInv ==
  /\ armed => env.account = RowKey
  /\ env.mode = "CAPITAL" /\ pc \notin {"idle", "driver", "stuck"} => armed

LEMMA ArmInductive == DeskSpec => []ArmInv
<1>1. DeskInit => ArmInv
  BY DEF DeskInit, ArmInv
<1>2. ArmInv /\ [DeskNext]_deskVars => ArmInv'
  <2> SUFFICES ASSUME ArmInv, [DeskNext]_deskVars PROVE ArmInv'
    OBVIOUS
  <2> USE DEF ArmInv
  <2>1. CASE WorldStep
    BY <2>1 DEF WorldStep, MarketMoves, KillOn, RowMoves, TimePasses
  <2>2. ASSUME NEW q \in Quantities, Propose(q) PROVE ArmInv'
    BY <2>2 DEF Propose
  <2>3. CASE Arm
    BY <2>3 DEF Arm, Preflight, RowOfAccount
  <2>4. CASE NoNeedToArm \/ RouteEntry \/ Size \/ SimEntry
    BY <2>4 DEF NoNeedToArm, RouteEntry, Size, SimEntry, Refused
  <2>5. CASE Route \/ PlaceEntry \/ OpenPosition \/ EntryUnfilled
    BY <2>5 DEF Route, PlaceEntry, OpenPosition, EntryUnfilled, Refused
  <2>6. CASE ExitStep
    BY <2>6 DEF ExitStep, PlaceExit, ClosePosition, CloseAt, ExitUnfilled
  <2>7. ASSUME NEW n \in 1..rest, BrokerFills(n) PROVE ArmInv'
    BY <2>7 DEF BrokerFills
  <2>8. CASE UNCHANGED deskVars
    BY <2>8 DEF deskVars
  <2> QED
    BY <2>1, <2>2, <2>3, <2>4, <2>5, <2>6, <2>7, <2>8 DEF DeskNext, EntryStep
<1> QED
  BY <1>1, <1>2, PTL DEF DeskSpec

\* Capital execution arms only under the runtime's own row key, and no order leaves
\* unarmed (_ensure_capital_armed).
THEOREM ArmedRight == DeskSpec => []ArmedUnderRowKey
<1>1. ArmInv => ArmedUnderRowKey
  BY DEF ArmInv, ArmedUnderRowKey
<1> QED
  BY <1>1, ArmInductive, PTL

-------------------------------------------------------------------------------
(* The size. *)

\* From the sizing until the order is done with, the size is the largest affordable
\* number for the intent and the estimate, neither of which changes meanwhile.
SizeInv ==
  pc \in {"route", "price", "working"} =>
    /\ Affordable(env.mode, qty, est, sized)
    /\ ~Affordable(env.mode, qty, est, sized + 1)

LEMMA SizeKept == TypedInv /\ SizeInv /\ [DeskNext]_deskVars => SizeInv'
<1> SUFFICES ASSUME TypedInv, SizeInv, [DeskNext]_deskVars PROVE SizeInv'
  OBVIOUS
<1> USE DEF SizeInv
<1>0. env \in Envs
  BY DEF TypedInv, WorldTyped
<1>1. ASSUME UNCHANGED <<env, ticket>>, pc' = pc \/ pc' \notin {"route", "price", "working"}
      PROVE  SizeInv'
  BY <1>1 DEF Affordable, ContractCap, NotionalCap, MaxContracts,
      MaxNotional, MaxDailyLoss
<1>2. CASE WorldStep
  BY <1>1, <1>2 DEF WorldStep, MarketMoves, KillOn, RowMoves, TimePasses
<1>3. ASSUME NEW q \in Quantities, Propose(q) PROVE SizeInv'
  BY <1>3 DEF Propose
<1>4. CASE Arm \/ NoNeedToArm \/ RouteEntry
  BY <1>4 DEF Arm, NoNeedToArm, RouteEntry, Refused
<1>5. CASE Size
  <2> DEFINE final == FinalQuantity(env.mode, qty, est)
  <2>1. final \in Int /\ Affordable(env.mode, qty, est, final)
        /\ ~Affordable(env.mode, qty, est, final + 1)
    BY <1>0, SizeAdmits DEF TypedInv, WorldTyped, TicketTyped, MaxContractsPerTrade
  <2> HIDE DEF final
  <2>2. \/ pc' = "idle"
        \/ sized' = final /\ UNCHANGED <<env, qty, est>>
    BY <1>5 DEF Size, Refused, final
  <2> QED
    BY <2>1, <2>2 DEF Affordable, ContractCap, NotionalCap, MaxContracts,
      MaxNotional, MaxDailyLoss
<1>6. CASE SimEntry \/ Route \/ OpenPosition \/ EntryUnfilled
  <2>1. UNCHANGED <<env, qty, est, sized>>
        /\ (pc \in {"route", "price", "working"} \/ pc' \notin {"route", "price", "working"})
    BY <1>6 DEF SimEntry, Route, Refused, OpenPosition, EntryUnfilled
  <2> QED
    BY <2>1 DEF Affordable, ContractCap, NotionalCap, MaxContracts,
      MaxNotional, MaxDailyLoss
<1>7. CASE PlaceEntry
  <2>1. UNCHANGED <<env, qty, est, sized>> /\ pc = "price"
    BY <1>7 DEF PlaceEntry, Refused
  <2> QED
    BY <2>1 DEF Affordable, ContractCap, NotionalCap, MaxContracts,
      MaxNotional, MaxDailyLoss
<1>8. CASE ExitStep
  BY <1>8 DEF ExitStep, PlaceExit, ClosePosition, CloseAt, ExitUnfilled
<1>9. ASSUME NEW n \in 1..rest, BrokerFills(n) PROVE SizeInv'
  BY <1>1, <1>9 DEF BrokerFills
<1>10. CASE UNCHANGED deskVars
  BY <1>1, <1>10 DEF deskVars
<1> QED
  BY <1>2, <1>3, <1>4, <1>5, <1>6, <1>7, <1>8, <1>9, <1>10 DEF DeskNext, EntryStep

LEMMA SizeInductive == DeskSpec => []SizeInv
<1>1. DeskInit => SizeInv
  BY DEF DeskInit, SizeInv
<1> QED
  BY <1>1, SizeKept, TypedInductive, PTL DEF DeskSpec

\* The size the sizing authority returns is the largest the caps admit, whatever the
\* quote, the strike and the caps (size_order).
THEOREM LargestSize == DeskSpec => []SizeIsLargest
<1>1. SizeInv => SizeIsLargest
  <2>1. \A n : Affordable(env.mode, qty, est, n) <=> Admissible(n)
    BY DEF Affordable, Admissible
  <2> QED
    BY <2>1 DEF SizeInv, SizeIsLargest
<1> QED
  BY <1>1, SizeInductive, PTL

-------------------------------------------------------------------------------
(* What an entry costs. *)

\* The estimated cost of the size is within both caps, and what was paid is within
\* the broker's limit for the contracts filled.
BudgetInv ==
  /\ pc \in {"driver", "router", "size"} => sized = 0 /\ limit = NoLimit
  /\ pc \in {"route", "price"} => limit = NoLimit
  /\ rest <= sized
  /\ env.mode # "SIM" =>
       /\ sized * est * Multiplier <= MaxNotional
       /\ sized * est * Multiplier <= MaxDailyLoss
       /\ paid <= (sized - rest) * limit.buy

\* The cost of a number of contracts, and of none.
LEMMA CostFacts ==
  ASSUME NEW a \in Int, NEW b \in Int
  PROVE  /\ a * b * Multiplier = a * (b * Multiplier)
         /\ a * 0 * Multiplier = 0 /\ 0 * b * Multiplier = 0 /\ a * 0 = 0
  BY DEF Multiplier

LEMMA BudgetKept == TypedInv /\ BudgetInv /\ [DeskNext]_deskVars => BudgetInv'
<1> SUFFICES ASSUME TypedInv, BudgetInv, [DeskNext]_deskVars PROVE BudgetInv'
  OBVIOUS
<1> USE DEF BudgetInv
<1>0. env' = env => MaxNotional' = MaxNotional /\ MaxDailyLoss' = MaxDailyLoss
  BY DEF MaxNotional, MaxDailyLoss
<1> USE <1>0
<1>1. /\ sized \in Nat /\ est \in Nat /\ rest \in Nat /\ paid \in Int /\ limit.buy \in Nat
      /\ MaxNotional \in Nat /\ MaxDailyLoss \in Nat
  BY CapsTyped DEF TypedInv, WorldTyped, TicketTyped, BooksTyped
<1>2. ASSUME UNCHANGED <<env, sized, est, limit, rest, paid>>,
             pc' = pc \/ pc' \notin {"driver", "router", "size", "route", "price"}
      PROVE  BudgetInv'
  BY <1>2 DEF NoLimit
<1>3. CASE WorldStep
  BY <1>2, <1>3 DEF WorldStep, MarketMoves, KillOn, RowMoves, TimePasses
<1>4. ASSUME NEW q \in Quantities, Propose(q) PROVE BudgetInv'
  <2>1. /\ sized' = 0 /\ est' = 0 /\ rest' = 0 /\ paid' = 0 /\ limit' = NoLimit
        /\ env' = env /\ pc' = "driver"
    BY <1>4 DEF Propose, TypedInv, FlowInv, Ordering
  <2> QED
    BY <1>1, <2>1 DEF NoLimit, Multiplier
<1>5. CASE Arm \/ NoNeedToArm
  BY <1>5 DEF Arm, NoNeedToArm
<1>6. CASE RouteEntry
  <2>1. CASE Refused
    BY <1>2, <2>1 DEF Refused
  <2>2. CASE ~Refused
    <3>1. /\ sized' = 0 /\ rest' = 0 /\ paid' = 0 /\ limit' = NoLimit
          /\ env' = env /\ pc' = "size" /\ est' \in Nat
      <4>1. est' \in Nat
        BY TicketKept DEF TypedInv, TicketTyped
      <4>2. sized = 0 /\ rest = 0 /\ paid = 0 /\ limit = NoLimit
        BY <1>6 DEF RouteEntry, TypedInv, FlowInv, Ordering
      <4>3. env' = env /\ pc' = "size" /\ UNCHANGED <<sized, rest, paid, limit>>
        BY <1>6, <2>2 DEF RouteEntry
      <4> QED
        BY <4>1, <4>2, <4>3
    <3>2. sized' * est' * Multiplier = 0 /\ (sized' - rest') * limit'.buy = 0
      BY <3>1, CostFacts DEF NoLimit
    <3> QED
      BY <1>1, <3>1, <3>2
  <2> QED
    BY <2>1, <2>2
<1>7. CASE Size
  <2>1. CASE Refused
    BY <1>2, <2>1 DEF Refused
  <2>2. CASE ~Refused
    <3>1. /\ pc' = "route" /\ rest' = 0 /\ paid' = 0 /\ limit' = NoLimit /\ est' = est
          /\ env' = env /\ sized' \in Nat
      BY <1>7, <2>2, TicketKept DEF Size, TypedInv, FlowInv, Ordering, TicketTyped
    <3>2. Affordable(env.mode, qty, est, sized')
      <4>1. sized' = FinalQuantity(env.mode, qty, est)
        BY <1>7, <2>2 DEF Size
      <4> QED
        BY <4>1, SizeAdmits DEF TypedInv, WorldTyped, TicketTyped, MaxContractsPerTrade
    <3>3. ASSUME env.mode # "SIM"
          PROVE  /\ sized' * est * Multiplier <= MaxNotional
                 /\ sized' * est * Multiplier <= MaxDailyLoss
      <4>1. CASE est = 0
        <5>1. sized' * 0 * Multiplier = 0
          BY <3>1, CostFacts
        <5> QED
          BY <1>1, <4>1, <5>1
      <4>2. CASE est > 0
        <5>1. PerContractCost(env.mode, est) = est * Multiplier
          BY <3>3, <4>2, Zenon DEF PerContractCost
        <5>2. /\ sized' * (est * Multiplier) <= MaxNotional
              /\ sized' * (est * Multiplier) <= MaxDailyLoss
          BY <3>2, <3>3, <5>1 DEF Affordable, NotionalCap
        <5>3. sized' * est * Multiplier = sized' * (est * Multiplier)
          BY <1>1, <3>1, CostFacts
        <5> QED
          BY <5>2, <5>3
      <4> QED
        BY <1>1, <4>1, <4>2
    <3>4. (sized' - rest') * limit'.buy = 0
      <4>1. \A n \in Nat : (n - 0) * 0 = 0
        OBVIOUS
      <4>2. limit'.buy = 0 /\ rest' = 0 /\ sized' \in Nat
        BY <3>1 DEF NoLimit
      <4> QED
        BY <4>1, <4>2
    <3> QED
      BY <1>1, <3>1, <3>3, <3>4
  <2> QED
    BY <2>1, <2>2
<1>8. CASE SimEntry
  BY <1>8 DEF SimEntry
<1>9. CASE Route
  BY <1>9 DEF Route, Refused
<1>10. CASE PlaceEntry
  <2>1. CASE Refused
    BY <1>2, <2>1 DEF Refused
  <2>2. CASE ~Refused
    <3>1. /\ pc' = "working" /\ rest' = sized /\ paid' = 0 /\ UNCHANGED <<env, sized, est>>
          /\ limit'.buy \in Nat
      BY <1>10, <2>2, TicketKept DEF PlaceEntry, OrderQuantity, TypedInv, FlowInv, Ordering,
        TicketTyped
    <3> QED
      BY <1>1, <3>1
  <2> QED
    BY <2>1, <2>2
<1>11. CASE OpenPosition
  BY <1>2, <1>11 DEF OpenPosition
<1>12. CASE EntryUnfilled
  <2>1. /\ pc' = "idle" /\ rest' = 0 /\ paid' = 0 /\ UNCHANGED <<env, sized, est, limit>>
    BY <1>12 DEF EntryUnfilled, TypedInv, FlowInv
  <2>2. 0 <= sized * limit.buy
    BY <1>1
  <2> QED
    BY <1>1, <2>1, <2>2
<1>13. CASE PlaceExit
  <2>1. /\ pc' \notin {"driver", "router", "size", "route", "price"}
        /\ UNCHANGED <<env, sized, est, rest, paid>> /\ limit'.buy = limit.buy
    BY <1>13 DEF PlaceExit, TypedInv, TicketTyped
  <2> QED
    BY <2>1
<1>14. CASE ClosePosition
  <2> DEFINE price == IF env.mode = "SIM" THEN SimFillPrice ELSE quote.bid
  <2>1. /\ price \in Int /\ price > 0 /\ paid' = paid - position.qty * price
        /\ pc' = "closed" /\ UNCHANGED <<env, sized, est, limit, rest>>
    BY <1>14, SimFillTyped, DeskAssumption DEF ClosePosition, CloseAt, TypedInv, WorldTyped
  <2> HIDE DEF price
  <2>2. position.qty \in Nat
    BY DEF TypedInv, BooksTyped
  <2>3. position.qty * price \in Nat
    BY <2>1, <2>2
  <2>4. (sized - rest) * limit.buy \in Int
    BY <1>1
  <2> QED
    BY <1>1, <2>1, <2>3, <2>4
<1>15. CASE ExitUnfilled
  BY <1>2, <1>15 DEF ExitUnfilled
<1>16. ASSUME NEW n \in 1..rest, BrokerFills(n) PROVE BudgetInv'
  <2>1. /\ n \in Nat /\ quote.ask \in Int /\ quote.ask <= limit.buy
        /\ rest' = rest - n /\ paid' = paid + n * quote.ask
        /\ UNCHANGED <<env, pc, sized, est, limit>>
    BY <1>1, <1>16, DeskAssumption DEF BrokerFills, TypedInv, WorldTyped
  <2>2. n * quote.ask <= n * limit.buy
    BY <1>1, <2>1, TimesMonotone
  <2>3. (sized - (rest - n)) * limit.buy = (sized - rest) * limit.buy + n * limit.buy
    BY <1>1, <2>1
  <2>4. paid <= (sized - rest) * limit.buy => paid' <= (sized - rest') * limit.buy
    <3>1. n * quote.ask \in Int /\ n * limit.buy \in Int /\ (sized - rest) * limit.buy \in Int
      BY <1>1, <2>1
    <3> QED
      BY <1>1, <2>1, <2>2, <2>3, <3>1
  <2> QED
    BY <1>1, <2>1, <2>4 DEF NoLimit
<1>17. CASE UNCHANGED deskVars
  BY <1>2, <1>17 DEF deskVars
<1> QED
  BY <1>3, <1>4, <1>5, <1>6, <1>7, <1>8, <1>9, <1>10, <1>11, <1>12, <1>13, <1>14, <1>15,
     <1>16, <1>17 DEF DeskNext, EntryStep, ExitStep

LEMMA BudgetInductive == DeskSpec => []BudgetInv
<1>1. DeskInit => BudgetInv
  BY CapsTyped DEF DeskInit, BudgetInv, NoLimit, Multiplier
<1> QED
  BY <1>1, BudgetKept, TypedInductive, PTL DEF DeskSpec

\* An entry takes more cash than the daily loss limit or the notional cap only when
\* the limit price is above the estimate (size_order, marketable_limit).
THEOREM BudgetHolds == DeskSpec => []PaidWithinBudget
<1>1. TypedInv /\ BudgetInv => PaidWithinBudget
  <2> SUFFICES ASSUME TypedInv, BudgetInv, env.mode # "SIM", limit.buy <= est
               PROVE  paid * Multiplier <= Lesser(MaxNotional, MaxDailyLoss)
    BY DEF PaidWithinBudget, TypedInv, TicketTyped
  <2>1. /\ sized \in Nat /\ est \in Nat /\ rest \in Nat /\ paid \in Int /\ limit.buy \in Nat
        /\ rest <= sized /\ MaxNotional \in Nat /\ MaxDailyLoss \in Nat
    BY CapsTyped DEF TypedInv, WorldTyped, TicketTyped, BooksTyped, BudgetInv
  <2>2. (sized - rest) * limit.buy <= sized * limit.buy
    BY <2>1, TimesMonotone
  <2>3. limit.buy * sized <= est * sized
    BY <2>1, TimesMonotone
  <2>4. paid <= sized * est
    <3>1. /\ (sized - rest) * limit.buy \in Int /\ sized * limit.buy \in Int /\ sized * est \in Int
          /\ limit.buy * sized = sized * limit.buy /\ est * sized = sized * est
      BY <2>1
    <3>2. paid <= (sized - rest) * limit.buy
      BY DEF BudgetInv
    <3> QED
      BY <2>1, <2>2, <2>3, <3>1, <3>2
  <2>5. paid * Multiplier <= sized * est * Multiplier
    BY <2>1, <2>4 DEF Multiplier
  <2>6. sized * est * Multiplier <= MaxNotional /\ sized * est * Multiplier <= MaxDailyLoss
    BY DEF BudgetInv
  <2> QED
    BY <2>1, <2>5, <2>6 DEF Lesser, Multiplier
<1> QED
  BY <1>1, BudgetInductive, TypedInductive, PTL

-------------------------------------------------------------------------------
(* What a capital order is placed under. *)

\* What the preflight found stays true of an armed process.  Past the gate, and with
\* contracts ordered or held, the process is armed and the gate has read its texts.
PastGate == {"size", "route", "price", "working", "open", "selling", "closed"}
DeclaredInv ==
  /\ armed => env.opsEnv = "PROD" /\ LimitsWritten(env.caps)
  /\ (env.mode = "CAPITAL" /\ (pc \in PastGate \/ Exposed)) =>
       armed /\ GateYes(env.armed) /\ GateYes(env.attested)
  /\ env.mode # "SIM" => sized <= MaxContracts

LEMMA DeclaredKept ==
  TypedInv /\ ArmInv /\ DeclaredInv /\ [DeskNext]_deskVars => DeclaredInv'
<1> SUFFICES ASSUME TypedInv, ArmInv, DeclaredInv, [DeskNext]_deskVars PROVE DeclaredInv'
  OBVIOUS
<1> USE DEF DeclaredInv, PastGate, Exposed
<1>1. env \in Envs /\ MaxContracts \in Nat /\ (env' = env => MaxContracts' = MaxContracts)
  BY CapsTyped DEF TypedInv, WorldTyped, MaxContracts
<1> USE <1>1
<1>2. ASSUME UNCHANGED <<env, armed, sized, account>>,
             pc' \in PastGate => pc \in PastGate
      PROVE  DeclaredInv'
  BY <1>2
<1>3. CASE WorldStep
  BY <1>2, <1>3 DEF WorldStep, MarketMoves, KillOn, RowMoves, TimePasses
<1>4. ASSUME NEW q \in Quantities, Propose(q) PROVE DeclaredInv'
  BY <1>4 DEF Propose
<1>5. CASE Arm
  <2>1. UNCHANGED <<env, sized, account>> /\ pc' \notin PastGate /\ ~Exposed
    BY <1>5 DEF Arm, TypedInv, FlowInv, Ordering
  <2>2. armed' => env.opsEnv = "PROD" /\ LimitsWritten(env.caps)
    BY <1>5 DEF Arm, Preflight, PreflightAttests
  <2> QED
    BY <2>1, <2>2
<1>6. CASE RouteEntry
  <2>1. CASE pc' \notin PastGate
    BY <1>2, <1>6, <2>1 DEF RouteEntry, Refused
  <2>2. CASE pc' \in PastGate
    BY <1>6, <2>2 DEF RouteEntry, Refused, GateOpen, GateAllows, ArmInv
  <2> QED
    BY <2>1, <2>2
<1>7. CASE Size
  <2>1. CASE Refused
    BY <1>2, <2>1 DEF Refused
  <2>2. CASE ~Refused
    <3> DEFINE final == FinalQuantity(env.mode, qty, est)
    <3>1. final \in Int /\ final <= ContractCap(env.mode)
      <4>1. final \in Int /\ Affordable(env.mode, qty, est, final)
        BY SizeAdmits DEF TypedInv, WorldTyped, TicketTyped, MaxContractsPerTrade
      <4> HIDE DEF final
      <4> QED
        BY <4>1 DEF Affordable
    <3> HIDE DEF final
    <3>2. sized' = final /\ UNCHANGED <<env, armed, account>> /\ pc \in PastGate
      BY <1>7, <2>2 DEF Size, final
    <3> QED
      BY <3>1, <3>2 DEF ContractCap
  <2> QED
    BY <2>1, <2>2
<1>8. CASE NoNeedToArm \/ Route \/ OpenPosition \/ PlaceExit \/ ExitUnfilled
  BY <1>2, <1>8 DEF NoNeedToArm, Route, Refused, OpenPosition, PlaceExit, ExitUnfilled
<1>9. CASE SimEntry \/ PlaceEntry
  BY <1>9 DEF SimEntry, PlaceEntry, Refused
<1>10. CASE EntryUnfilled \/ ClosePosition
  BY <1>10 DEF EntryUnfilled, ClosePosition, CloseAt
<1>11. ASSUME NEW n \in 1..rest, BrokerFills(n) PROVE DeclaredInv'
  BY <1>11 DEF BrokerFills, TypedInv, BooksTyped
<1>12. CASE UNCHANGED deskVars
  BY <1>2, <1>12 DEF deskVars
<1> QED
  BY <1>3, <1>4, <1>5, <1>6, <1>7, <1>8, <1>9, <1>10, <1>11, <1>12
     DEF DeskNext, EntryStep, ExitStep

\* Whatever environment a process is started with, contracts are ordered and held in
\* CAPITAL only under OPS_ENV=PROD, attestations both gates take for yes, and the
\* limits the operator wrote down (_ensure_capital_armed, evaluate_capital_gate,
\* execute_sized).
THEOREM CapitalDeclared == DeskSpec => []CapitalAsDeclared
<1>1. DeskInit => DeclaredInv
  BY CapsTyped DEF DeskInit, DeclaredInv, PastGate, Exposed
<1>2. TypedInv /\ BudgetInv /\ DeclaredInv => CapitalAsDeclared
  <2> SUFFICES ASSUME TypedInv, BudgetInv, DeclaredInv, env.mode = "CAPITAL", Exposed
               PROVE  CapitalAsDeclared
    BY DEF CapitalAsDeclared
  <2>1. /\ env.opsEnv = "PROD" /\ GateYes(env.armed) /\ GateYes(env.attested)
        /\ LimitsWritten(env.caps) /\ sized <= MaxContracts
        /\ sized * est * Multiplier <= MaxNotional
        /\ sized * est * Multiplier <= MaxDailyLoss
    BY DEF DeclaredInv, BudgetInv
  <2>2. /\ MaxContracts = env.caps.contracts /\ MaxNotional = env.caps.notional
        /\ MaxDailyLoss = env.caps.loss
    BY <2>1 DEF LimitsWritten, MaxContracts, MaxNotional, MaxDailyLoss, Effective, Unset
  <2> QED
    BY <2>1, <2>2 DEF CapitalAsDeclared, Lesser
<1> QED
  BY <1>1, <1>2, DeclaredKept, ArmInductive, BudgetInductive, TypedInductive, PTL DEF DeskSpec

-------------------------------------------------------------------------------
(* The books. *)

\* A trade of one contract is sized to one, opened when that one is filled, and
\* leaves nothing working behind it.
OneInv ==
  qty = 1 =>
    /\ pc \in {"route", "price", "working"} => sized = 1
    /\ pc \in {"open", "selling"} =>
         held = 1 /\ rest = 0 /\ position = [qty |-> 1, n |-> 1, cost |-> paid]
    /\ pc = "closed" => held = 0 /\ rest = 0 /\ realized = -(paid * Multiplier)

LEMMA OneKept == TypedInv /\ OneInv /\ [DeskNext]_deskVars => OneInv'
<1> SUFFICES ASSUME TypedInv, OneInv, [DeskNext]_deskVars PROVE OneInv'
  OBVIOUS
<1> USE DEF OneInv
<1>1. ASSUME UNCHANGED <<qty, sized, account, books>>,
             pc' = pc \/ pc' \notin {"route", "price", "working", "open", "selling", "closed"}
      PROVE  OneInv'
  BY <1>1
<1>2. CASE WorldStep
  BY <1>1, <1>2 DEF WorldStep, MarketMoves, KillOn, RowMoves, TimePasses
<1>3. ASSUME NEW q \in Quantities, Propose(q) PROVE OneInv'
  BY <1>3 DEF Propose
<1>4. CASE Arm \/ NoNeedToArm \/ RouteEntry
  BY <1>4 DEF Arm, NoNeedToArm, RouteEntry, Refused
<1>5. CASE Size
  <2>1. CASE Refused
    BY <1>1, <2>1 DEF Refused
  <2>2. CASE ~Refused
    <3> DEFINE final == FinalQuantity(env.mode, qty, est)
    <3>1. final \in Int /\ final <= qty
      <4>1. Affordable(env.mode, qty, est, final)
        BY SizeAdmits DEF TypedInv, WorldTyped, TicketTyped, MaxContractsPerTrade
      <4> QED
        BY <4>1, SizeAdmits DEF Affordable, TypedInv, WorldTyped, TicketTyped, MaxContractsPerTrade
    <3> HIDE DEF final
    <3>2. final > 0 /\ sized' = final /\ qty' = qty /\ pc' = "route"
      BY <1>5, <2>2, <3>1 DEF Size, final
    <3> QED
      BY <3>1, <3>2
  <2> QED
    BY <2>1, <2>2
<1>6. CASE SimEntry
  BY <1>6 DEF SimEntry, TypedInv, FlowInv, Ordering
<1>7. CASE Route \/ PlaceEntry \/ EntryUnfilled
  BY <1>7 DEF Route, PlaceEntry, EntryUnfilled, Refused
<1>8. CASE OpenPosition
  BY <1>8 DEF OpenPosition, TypedInv, FlowInv, BooksTyped
<1>9. CASE PlaceExit \/ ExitUnfilled
  BY <1>9 DEF PlaceExit, ExitUnfilled
<1>10. CASE ClosePosition
  <2> DEFINE price == IF env.mode = "SIM" THEN SimFillPrice ELSE quote.bid
  <2>1. price \in Int
    BY SimFillTyped, DeskAssumption DEF TypedInv, WorldTyped
  <2> HIDE DEF price
  <2>2. CloseAt(price)
    BY <1>10 DEF ClosePosition, price
  <2>3. paid \in Int
    BY DEF TypedInv, BooksTyped
  <2>4. ASSUME qty = 1
        PROVE  held' = 0 /\ rest' = 0 /\ realized' = -(paid' * Multiplier)
    <3>1. held = 1 /\ rest = 0 /\ position = [qty |-> 1, n |-> 1, cost |-> paid]
      BY <2>2, <2>4 DEF CloseAt
    <3>2. RealizedPnl(price) = (price - paid) * Multiplier
      BY <2>1, <2>3, <3>1 DEF RealizedPnl, Multiplier
    <3>3. held' = 0 /\ rest' = 0 /\ paid' = paid - price
      BY <2>1, <2>2, <2>3, <3>1 DEF CloseAt
    <3> QED
      BY <2>1, <2>2, <2>3, <3>2, <3>3 DEF CloseAt, Multiplier
  <2> QED
    BY <2>2, <2>4 DEF CloseAt
<1>11. ASSUME NEW n \in 1..rest, BrokerFills(n) PROVE OneInv'
  BY <1>11 DEF BrokerFills, TypedInv, BooksTyped
<1>12. CASE UNCHANGED deskVars
  BY <1>1, <1>12 DEF deskVars
<1> QED
  BY <1>2, <1>3, <1>4, <1>5, <1>6, <1>7, <1>8, <1>9, <1>10, <1>11, <1>12
     DEF DeskNext, EntryStep, ExitStep

\* The books of a trade of one contract agree with the account while it is open and
\* after it is closed (handle_entry, handle_exit).
THEOREM BooksAgree == DeskSpec => []BooksMatchAccount
<1>1. DeskInit => OneInv
  BY DEF DeskInit, OneInv
<1>2. OneInv => BooksMatchAccount
  BY DEF OneInv, BooksMatchAccount
<1> QED
  BY <1>1, <1>2, OneKept, TypedInductive, PTL DEF DeskSpec
===============================================================================
