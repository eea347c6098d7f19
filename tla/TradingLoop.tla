----------------------------- MODULE TradingLoop -----------------------------
(***************************************************************************)
(* The execution spine: the trading loop process (market_loop, state       *)
(* machine, driver, router, position bridge, daily-loss governor), the     *)
(* operator console process that shares its KILL and ARM files, and the    *)
(* broker.  The loop is one thread; a step of it runs from one read of     *)
(* state that another process can change (a kill check, the ARM file, the  *)
(* fill table) to the next, so the console and the broker may act between  *)
(* any two of them.                                                        *)
(***************************************************************************)
EXTENDS KillSwitch, BrokerOrders

CONSTANTS
  Modes,          \* execution modes a start of the process may be configured with
  MaxLoss,        \* MAX_DAILY_LOSS_USD
  Outcomes,       \* realized P&L of one round trip
  MaxGain,        \* bound: trips that would take the day above it are not explored
  MaxDay,         \* bound: trading days explored
  MaxLate,        \* bound: fill windows that may close on an order still unsettled
  ForceMkt,       \* ROGUE_FORCE_MKT: exits need no quote
  ConsoleClears,  \* whether the operator ever uses Clear
  Crashes         \* whether the loop process may die at any point

Loop == "loop"
Console == "console"
AllModes == {"SIM", "PAPER", "CAPITAL", "LIVE"}

ASSUME LoopAssumption ==
  /\ Procs = {Loop, Console}
  /\ Modes \subseteq AllModes
  /\ MaxLoss \in Nat \ {0}
  /\ Outcomes \subseteq Int
  /\ MaxGain \in Int /\ MaxDay \in Nat /\ MaxLate \in Nat
  /\ {ForceMkt, ConsoleClears, Crashes} \subseteq BOOLEAN

VARIABLES
  armFile,      \* whether $ROGUE_OPS_HOME/ARM exists
  day,          \* the UTC date
  pc,           \* where the loop thread stands; "down" when its process is not running
  mode,         \* ops_config.mode of the running process
  sm,           \* StateMachineV2.state
  held,         \* PositionStore.has_open_position()
  ops,          \* _OPSState._state
  env,          \* action of the sealed envelope being executed
  cur,          \* order id (slot) the executing envelope placed last
  usd,          \* _REALIZED_PNL_USD
  pnlDay,       \* _TRADING_DAY
  capArmed,     \* _CAPITAL_ARMED
  late,         \* fill windows closed so far on an unsettled order
  afterKill,    \* history: orders placed since the KILL file appeared
  afterDisarm,  \* history: entry orders placed since the ARM file went away
  ack           \* history: what the console last reported, a kill or a later clear

machine == <<sm, held, ops, env>>
governor == <<usd, pnlDay>>
memory == <<mode, machine, cur, governor, capArmed>>
flags == <<armFile, day>>
history == <<late, afterKill, afterDisarm, ack>>
vars == <<killVars, brokerVars, pc, memory, flags, history>>

SystemState == {"IDLE", "OPEN_POSITION", "MANAGING_POSITION",
                "EXITING_POSITION", "POST_TRADE_AUDIT", "HALTED"}
Labels == {"down", "top", "feed", "manage", "sealExit", "authorize", "gates",
           "sealEntry", "preflight", "route", "size", "submit", "await", "recheck"}
Governed == mode # "SIM"
Breached == usd <= -MaxLoss

MachineTypeOK ==
  /\ sm \in SystemState
  /\ held \in BOOLEAN
  /\ ops \in {"CLEAR", "CAUTION", "HALT"}
  /\ env \in {"NONE", "ENTRY", "EXIT"}

GovernorTypeOK ==
  /\ usd \in Int
  /\ pnlDay \in 0..MaxDay /\ day \in 0..MaxDay

ThreadTypeOK ==
  /\ pc \in Labels
  /\ mode \in Modes
  /\ cur \in Slots
  /\ capArmed \in BOOLEAN
  /\ armFile \in BOOLEAN

HistoryTypeOK ==
  /\ late \in 0..MaxLate
  /\ afterKill \in Nat /\ afterDisarm \in Nat
  /\ ack \in {"none", "killed", "cleared"}

TypeOK ==
  /\ KillTypeOK /\ BrokerTypeOK
  /\ MachineTypeOK /\ GovernorTypeOK /\ ThreadTypeOK /\ HistoryTypeOK

Init ==
  /\ KillInit
  /\ BrokerInit
  /\ armFile \in BOOLEAN /\ day = 0
  /\ pc = "down"
  /\ mode \in Modes
  /\ sm = "IDLE" /\ held = FALSE /\ ops = "CLEAR" /\ env = "NONE"
  /\ cur \in Slots
  /\ usd = 0 /\ pnlDay = 0
  /\ capArmed = FALSE
  /\ late = 0 /\ afterKill = 0 /\ afterDisarm = 0 /\ ack = "none"

-------------------------------------------------------------------------------
(* Process start and the top of the loop. *)

\* main(): a kill in force suppresses autonomy.  All trading state is memory,
\* so the position store starts empty whatever the account holds.
Boot ==
  /\ pc = "down"
  /\ ~killFile /\ Loop \notin EnvKill
  /\ StartProcess(Loop)
  /\ pc' = "top"
  /\ mode' \in Modes
  /\ sm' = "IDLE" /\ held' = FALSE /\ ops' = "CLEAR" /\ env' = "NONE"
  /\ usd' = 0 /\ pnlDay' = day
  /\ capArmed' = FALSE
  /\ ack' = IF ack = "cleared" THEN "none" ELSE ack
  /\ account' = 0 /\ link' = TRUE
  /\ UNCHANGED <<side, st, cur, flags, late, afterKill, afterDisarm>>

Go(label) == pc' = label

\* Mutant: the loop does not look before its next cycle.
LoopTopUnchecked ==
  /\ pc = "top"
  /\ Go("feed")
  /\ UNCHANGED <<killVars, brokerVars, memory, flags, history>>

LoopTop ==
  /\ pc = "top"
  /\ Go(IF KillActive(Loop) THEN "down" ELSE "feed")
  /\ UNCHANGED <<killVars, brokerVars, memory, flags, history>>

\* No new bar: the loop only publishes a heartbeat.
NoBar ==
  /\ pc = "feed"
  /\ Go("top")
  /\ UNCHANGED <<killVars, brokerVars, memory, flags, history>>

\* market_step: an open position is managed before any entry is looked for.
MarketStep ==
  /\ pc = "feed"
  /\ IF held
     THEN Go(IF sm = "MANAGING_POSITION" THEN "manage" ELSE "top")
     ELSE \E signal \in BOOLEAN : Go(IF signal THEN "authorize" ELSE "top")
  /\ UNCHANGED <<killVars, brokerVars, memory, flags, history>>

-------------------------------------------------------------------------------
(* StateMachineV2.manage_position: exit rules, then a sealed EXIT envelope. *)

ManagePosition ==
  /\ pc = "manage"
  /\ \E due \in BOOLEAN :   \* hard time stop or indicator reversal
       Go(IF due \/ ops = "HALT" \/ KillActive(Loop) THEN "sealExit" ELSE "top")
  /\ UNCHANGED <<killVars, brokerVars, memory, flags, history>>

\* ExecutionEnvelope.create refuses under a kill, under HALT and for a mode it
\* does not know.
Refuses == KillActive(Loop) \/ ops = "HALT" \/ mode = "LIVE"

\* The refusal of an EXIT envelope is caught nowhere: the process dies of it.
SealExit ==
  /\ pc = "sealExit"
  /\ IF Refuses
     THEN Go("down") /\ UNCHANGED machine
     ELSE /\ sm' = "EXITING_POSITION" /\ env' = "EXIT"
          /\ Go("preflight")
          /\ UNCHANGED <<held, ops>>
  /\ UNCHANGED <<killVars, brokerVars, mode, cur, governor, capArmed, flags, history>>

-------------------------------------------------------------------------------
(* StateMachineV2.authorize_entry; market_step turns its exceptions into
   ENTRY_DENIED and goes on to the next cycle. *)

\* Mutant: the machine's state and the ops state are mixed up.
AuthorizeMixed ==
  /\ pc = "authorize"
  /\ IF KillActive(Loop)
     THEN EngageKill(Loop) /\ ops' = "HALTED" /\ sm' = "HALTED" /\ Go("top")
     ELSE Go("gates") /\ UNCHANGED <<killVars, ops, sm>>
  /\ UNCHANGED <<held, env, brokerVars, mode, cur, governor, capArmed, flags, history>>

Authorize ==
  /\ pc = "authorize"
  /\ IF sm # "IDLE"
     THEN Go("top") /\ UNCHANGED <<killVars, machine>>
     ELSE IF KillActive(Loop) \/ ops = "HALT"
     THEN /\ EngageKill(Loop)
          /\ ops' = "HALT" /\ sm' = "HALTED"
          /\ Go("top")
          /\ UNCHANGED <<held, env>>
     ELSE Go(IF held THEN "top" ELSE "gates") /\ UNCHANGED <<killVars, machine>>
  /\ UNCHANGED <<brokerVars, mode, cur, governor, capArmed, flags, history>>

\* The governor forgets the previous day when it is next consulted.
Today == IF pnlDay = day THEN usd ELSE 0

\* Mutant: only real money asks for ARM.
PaperNeedsNoArm == mode = "CAPITAL"

NeedsArm == mode \in {"PAPER", "CAPITAL"}

\* The ARM file and the time authority deny; the risk engine denies and kills.
GatesDeny ==
  /\ pc = "gates"
  /\ Go("top")
  /\ UNCHANGED <<killVars, brokerVars, memory, flags, history>>

RiskCheck ==
  /\ pc = "gates"
  /\ NeedsArm => armFile
  /\ IF Governed
     THEN usd' = Today /\ pnlDay' = day
     ELSE UNCHANGED governor
  /\ \E veto \in BOOLEAN :
       IF veto \/ (Governed /\ Today <= -MaxLoss)
       THEN EngageKill(Loop) /\ Go("top")
       ELSE Go("sealEntry") /\ UNCHANGED killVars
  /\ UNCHANGED <<brokerVars, mode, machine, cur, capArmed, flags, history>>

SealEntry ==
  /\ pc = "sealEntry"
  /\ IF Refuses
     THEN Go("top") /\ UNCHANGED machine
     ELSE /\ sm' = "OPEN_POSITION" /\ env' = "ENTRY"
          /\ Go("preflight")
          /\ UNCHANGED <<held, ops>>
  /\ UNCHANGED <<killVars, brokerVars, mode, cur, governor, capArmed, flags, history>>

-------------------------------------------------------------------------------
(* execute_and_apply: what becomes of the envelope. *)

\* The execution ends and the loop turns to its next cycle.
Finish == env' = "NONE" /\ Go("top")

\* Mutants: an execution that failed is left where it was.
EntryNotRecovered == UNCHANGED sm
ExitNotRecovered == UNCHANGED sm

\* on_entry_failed: an entry that never opened gives the machine back to IDLE.
OnEntryFailed ==
  sm' = IF sm = "OPEN_POSITION" THEN "IDLE" ELSE sm

\* on_exit_failed: an exit that was not confirmed is managed again.
OnExitFailed ==
  sm' = IF sm = "EXITING_POSITION" THEN "MANAGING_POSITION" ELSE sm

\* A result other than SUBMITTED, or an exception of the router: only an ENTRY
\* is recovered.
Blocked ==
  /\ IF env = "ENTRY" THEN OnEntryFailed ELSE UNCHANGED sm
  /\ Finish
  /\ UNCHANGED <<killVars, held, governor>>

\* A submitted order without a fill price.
NoFill ==
  /\ IF env = "ENTRY" THEN OnEntryFailed ELSE OnExitFailed
  /\ Finish
  /\ UNCHANGED <<killVars, held, governor>>

\* A transition from any other state kills the process, and the exception ends the
\* loop.
InvalidTransition == UNCHANGED sm /\ EngageKill(Loop) /\ Go("down")

OnPositionOpened ==
  IF sm = "OPEN_POSITION"
  THEN sm' = "MANAGING_POSITION" /\ Go("top") /\ UNCHANGED killVars
  ELSE InvalidTransition

\* handle_entry: the store opens, and then the machine moves on.
PositionOpened ==
  /\ held' = TRUE
  /\ env' = "NONE"
  /\ OnPositionOpened
  /\ UNCHANGED governor

\* Mutant: the day that loses exactly the limit goes on.
LimitExcluded(pnl) ==
  IF Governed
  THEN /\ Today + pnl <= MaxGain
       /\ usd' = Today + pnl /\ pnlDay' = day
       /\ IF Today + pnl < -MaxLoss THEN EngageKill(Loop) ELSE UNCHANGED killVars
  ELSE UNCHANGED <<killVars, governor>>

\* record_realized_pnl: accrue, and kill when the day's loss reaches the limit.
RecordRealizedPnl(pnl) ==
  IF Governed
  THEN /\ Today + pnl <= MaxGain
       /\ usd' = Today + pnl /\ pnlDay' = day
       /\ IF Today + pnl <= -MaxLoss THEN EngageKill(Loop) ELSE UNCHANGED killVars
  ELSE UNCHANGED <<killVars, governor>>

\* on_position_closed, and on_audit_complete in the same call; the driver then feeds
\* the governor.
OnPositionClosed ==
  IF sm = "EXITING_POSITION"
  THEN sm' = "IDLE" /\ Go("top") /\ \E pnl \in Outcomes : RecordRealizedPnl(pnl)
  ELSE InvalidTransition /\ UNCHANGED governor

\* Mutant: the store keeps the position it has just sold.
StoreNotClosed ==
  /\ UNCHANGED held
  /\ env' = "NONE"
  /\ OnPositionClosed

\* handle_exit: the store closes, and then the machine moves on.
PositionClosed ==
  /\ held' = FALSE
  /\ env' = "NONE"
  /\ OnPositionClosed

Filled == IF env = "ENTRY" THEN PositionOpened ELSE PositionClosed

\* _ensure_capital_armed: a refused preflight returns False before any order,
\* and leaves the machine where authorization put it.
Preflight ==
  /\ pc = "preflight"
  /\ IF mode # "CAPITAL" \/ capArmed
     THEN Go("route") /\ UNCHANGED <<env, capArmed>>
     ELSE \E passed \in BOOLEAN :
            IF passed /\ ~KillActive(Loop)
            THEN capArmed' = TRUE /\ Go("route") /\ UNCHANGED env
            ELSE Finish /\ UNCHANGED capArmed
  /\ UNCHANGED <<killVars, brokerVars, mode, sm, held, ops, cur, governor, flags, history>>

\* The router's own kill check.
Route ==
  /\ pc = "route"
  /\ IF KillActive(Loop)
     THEN Blocked
     ELSE /\ Go(IF env = "ENTRY" THEN "size" ELSE "submit")
          /\ UNCHANGED <<killVars, sm, held, env, governor>>
  /\ UNCHANGED <<brokerVars, mode, ops, cur, capArmed, flags, history>>

\* PositionSizingAuthority.size, and the gates around it that refuse an entry:
\* capital gate, stale balance, premium, notional, quantity reduced to zero.
Size ==
  /\ pc = "size"
  /\ \E sized \in BOOLEAN :
       IF sized /\ ~KillActive(Loop)
       THEN Go("submit") /\ UNCHANGED <<killVars, sm, held, env, governor>>
       ELSE Blocked
  /\ UNCHANGED <<brokerVars, mode, ops, cur, capArmed, flags, history>>

\* The capital gate refuses, the venue does not support the intent, the runtime
\* is not there, or the option cannot be priced.  An exit in PAPER under
\* ROGUE_FORCE_MKT meets none of these.
MayRefuse == env = "ENTRY" \/ mode = "CAPITAL" \/ ~ForceMkt

SubmitRefused ==
  /\ pc = "submit"
  /\ mode # "SIM"
  /\ MayRefuse
  /\ Blocked
  /\ UNCHANGED <<brokerVars, mode, ops, cur, capArmed, flags, history>>

\* _sim_execute fills at once, at no broker.
SimExecute ==
  /\ pc = "submit"
  /\ mode = "SIM"
  /\ Filled
  /\ UNCHANGED <<brokerVars, mode, ops, cur, capArmed, flags, history>>

\* Mutant: an exit repeats the side of its entry.
SubmitSameSide(s) ==
  /\ pc = "submit" /\ mode # "SIM"
  /\ PlaceOrder(s, "BUY")
  /\ cur' = s
  /\ Go("await")
  /\ UNCHANGED <<killVars, mode, machine, governor, capArmed, flags, history>>

\* IBKRBroker.execute_intent up to placeOrder.  to_exit_intent sells what a
\* BUY entry bought.
Submit(s) ==
  /\ pc = "submit"
  /\ mode # "SIM"
  /\ PlaceOrder(s, IF env = "ENTRY" THEN "BUY" ELSE "SELL")
  /\ cur' = s
  /\ Go("await")
  /\ afterKill' = IF killFile THEN afterKill + 1 ELSE afterKill
  /\ afterDisarm' = IF env = "ENTRY" /\ ~armFile THEN afterDisarm + 1 ELSE afterDisarm
  /\ UNCHANGED <<killVars, mode, machine, governor, capArmed, flags, late, ack>>

\* wait_for_fill returned a price in the first or the second window.
FillSeen ==
  /\ pc \in {"await", "recheck"}
  /\ st[cur] = "told"
  /\ Filled
  /\ UNCHANGED <<brokerVars, mode, ops, cur, capArmed, flags, history>>

\* Mutant: no second window after the cancel.
CancelAndForget ==
  /\ pc = "await"
  /\ st[cur] # "told"
  /\ CancelOrder(cur)
  /\ NoFill
  /\ UNCHANGED <<mode, ops, cur, capArmed, flags, history>>

\* The first window closed on no fill: cancel, and look again.
CancelUnfilled ==
  /\ pc = "await"
  /\ st[cur] # "told"
  /\ CancelOrder(cur)
  /\ Go("recheck")
  /\ UNCHANGED <<killVars, memory, flags, history>>

\* The second window closed on no fill.  Nothing makes the broker finish with
\* the order by then: it may still be live, or filled and not yet reported.
GiveUp ==
  /\ pc = "recheck"
  /\ st[cur] # "told"
  /\ late' = IF Settled(cur) THEN late ELSE late + 1
  /\ late' <= MaxLate
  /\ NoFill
  /\ UNCHANGED <<brokerVars, mode, ops, cur, capArmed, flags,
                 afterKill, afterDisarm, ack>>

LoopStep ==
  \/ LoopTop \/ NoBar \/ MarketStep
  \/ ManagePosition \/ SealExit
  \/ Authorize \/ GatesDeny \/ RiskCheck \/ SealEntry
  \/ Preflight \/ Route \/ Size \/ SubmitRefused \/ SimExecute
  \/ \E s \in Slots : Submit(s)
  \/ FillSeen \/ CancelUnfilled \/ GiveUp

\* The process dies: a signal, the host, an exception from anywhere else.
Crash ==
  /\ Crashes
  /\ pc # "down"
  /\ Go("down")
  /\ UNCHANGED <<killVars, brokerVars, memory, flags, history>>

-------------------------------------------------------------------------------
(* The operator console (api/control.py), a process of its own. *)

\* The reply carries kill_context(), which says killed also when the console's
\* own latch made engage_kill return before writing the file.
ConsoleKill ==
  /\ EngageKill(Console)
  /\ ack' = "killed"
  /\ UNCHANGED <<brokerVars, pc, memory, flags, late, afterKill, afterDisarm>>

ConsoleClear ==
  /\ ConsoleClears
  /\ ClearKillFile
  /\ afterKill' = IF killFile' THEN afterKill ELSE 0
  /\ ack' = IF ack = "killed" THEN "cleared" ELSE ack
  /\ UNCHANGED <<brokerVars, pc, memory, flags, late, afterDisarm>>

SetArm(armed) ==
  /\ armFile' = armed
  /\ afterDisarm' = IF armed THEN 0 ELSE afterDisarm
  /\ UNCHANGED <<killVars, brokerVars, pc, memory, day, late, afterKill, ack>>

ConsoleRestart ==
  /\ StartProcess(Console)
  /\ UNCHANGED <<brokerVars, pc, memory, flags, history>>

ConsoleStep ==
  \/ ConsoleKill \/ ConsoleClear \/ ConsoleRestart
  \/ \E armed \in BOOLEAN : SetArm(armed)

-------------------------------------------------------------------------------
(* The broker, the socket and the calendar. *)

BrokerStep ==
  /\ \E s \in Slots : BrokerFill(s) \/ BrokerCancelled(s) \/ OrderStatus(s)
  /\ UNCHANGED <<killVars, pc, memory, flags, history>>

\* The watchdog thread lives in the loop process and does not reconnect while
\* killed.
LinkStep ==
  /\ LinkDrop \/ (pc # "down" /\ ~KillActive(Loop) /\ Reconnect)
  /\ UNCHANGED <<killVars, pc, memory, flags, history>>

NewDay ==
  /\ day < MaxDay
  /\ day' = day + 1
  /\ UNCHANGED <<killVars, brokerVars, pc, memory, armFile, history>>

Next ==
  \/ Boot \/ LoopStep \/ Crash
  \/ ConsoleStep
  \/ BrokerStep \/ LinkStep \/ NewDay

Spec == Init /\ [][Next]_vars

\* The loop's thread keeps running while its process does: every wait in it has
\* a timeout.  The broker ends what it works and reports it.  Nobody owes a
\* start, a crash, an operator's click or a new day.
FairSpec == Spec /\ WF_vars(LoopStep) /\ WF_vars(BrokerStep)

-------------------------------------------------------------------------------
(* Properties. *)

Executing == {"preflight", "route", "size", "submit", "await", "recheck"}
Places == pc = "submit" /\ pc' = "await"

\* The position store and the state machine never disagree, at any label of any
\* cycle, also where an execution was refused, lapsed or was never recovered: a
\* position is held exactly while the machine manages or exits one, an ENTRY is
\* executed from OPEN_POSITION with no position and an EXIT from
\* EXITING_POSITION, so no INVALID_* transition kill can fire
\* (state_machine.py:183, 250, 274; execution_position_bridge.py:81, 169).
MachineAgrees ==
  /\ held <=> sm \in {"MANAGING_POSITION", "EXITING_POSITION"}
  /\ sm # "POST_TRADE_AUDIT"
  /\ pc \in Executing => \/ env = "ENTRY" /\ sm = "OPEN_POSITION"
                         \/ env = "EXIT" /\ sm = "EXITING_POSITION"
  /\ pc \in {"manage", "sealExit"} => sm = "MANAGING_POSITION"
  /\ pc \in {"gates", "sealEntry"} => sm = "IDLE"

\* The day's realized loss reaching MAX_DAILY_LOSS_USD leaves the process killed
\* for good, over day rolls and later gains too
\* (daily_loss_governor.py:69, 96).
LossHalts == Governed /\ Breached => killed[Loop]

\* Once the KILL file exists, at most the one order already past its last kill
\* check reaches the broker, however long the file stays and whatever restarts
\* (execution_router.py:124, 194; position_sizing_authority.py:67;
\* market_loop.py:150).
OneOrderAfterKill == afterKill <= 1

\* Once the operator disarms, at most the one entry already past the ARM check is
\* placed until the next ARM (state_machine.py:138).
OneEntryAfterDisarm == afterDisarm <= 1

\* A process whose own latch is set never places an order again: not on clearing
\* the file, not on a failed write of it (kill_switch.py:30; "irreversible for
\* the lifetime of the running process").
LatchedNeverTrades == [][Places => ~killed[Loop]]_vars

\* A kill the console has reported and not been told to clear is in force for a
\* running loop, whichever of the two processes restarted since
\* (api/control.py:12: "it writes the durable kill file that the trading loop's
\* kill_active() honors on its next check").
KillAckInForce == ack = "killed" /\ pc # "down" => KillActive(Loop)

\* An order the loop is done with is not live at the broker: "never leave a
\* working order behind" (ibkr_broker.py:106).
NoOrderLeftBehind ==
  pc \notin {"await", "recheck"} => \A s \in Slots : ~Live(s)

\* Between cycles the account holds what the position store says this process
\* opened (execution_position_bridge.py:46, 90; position_store.py:47).
BooksAgree ==
  pc = "top" /\ mode # "SIM" => account = IF held THEN 1 ELSE 0

\* With a broker that finishes every order inside its two windows (MaxLate = 0)
\* and no death of the process between placing an order and learning its fate, the
\* spine keeps the promise of SinglePosition.
WorkingOrder ==
  IF Live(cur) THEN IF side[cur] = "BUY" THEN "buy" ELSE "sell" ELSE "none"

SP == INSTANCE SinglePosition WITH
        exposure <- account, order <- WorkingOrder, running <- (pc # "down")

KeepsSinglePosition == SP!Spec

\* A kill file that stays stops the loop process and keeps it stopped
\* (market_loop.py:150; run_paper_ibkr.py:49).
KillHalts == (<>[]killFile) => <>[](pc = "down")

\* An authorized entry never strands the machine in OPEN_POSITION
\* (state_machine.py:190).
EntryResolves == sm = "OPEN_POSITION" ~> (sm # "OPEN_POSITION" \/ pc = "down")

\* An authorized exit either closes the position or is managed again
\* (state_machine.py:257).
ExitResolves == sm = "EXITING_POSITION" ~> (sm # "EXITING_POSITION" \/ pc = "down")

\* Clearing a reported kill does not set a running loop going again: it places no
\* order until it is restarted (api/control.py:42: "a running trading loop stays
\* killed until it is restarted").
KillOutlivesClear == [][Places => ack # "cleared"]_vars
===============================================================================
