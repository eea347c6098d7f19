# ROGUE:OPS in TLA+

ROGUE:OPS trades 0DTE options on one underlying through Interactive Brokers. A
trading-loop process polls bars, decides entries and exits, and places orders; an
operator console, a process of its own, can kill it, clear the kill, and arm or
disarm entries. The two share only files under `ROGUE_OPS_HOME`. This directory
holds a model of that system: TLA+ modules translated from the Python source, TLC
configurations, and theorems checked by TLAPS. `PROJECT.json` lists every run,
mutant, hazard and theorem, and maps each definition to the lines it stands for.

## Inventory

| Component | State it keeps | Operations | Correct when |
|---|---|---|---|
| `governance/kill_switch.py` | a latch per process, the KILL file, an environment flag | engage, query, clear the file | a kill in force lets no order out beyond the one under way; a latch is for good |
| `governance/arm_switch.py`, `api/control.py` | the ARM file | set, query | no entry after a disarm beyond the one under way |
| `execution/state_machine.py` | lifecycle state, the OPS state | authorize entry, manage, confirmations, recoveries | agrees with the position store; nothing strands it |
| `execution/execution_driver.py`, `execution_router.py` | whether capital was armed | execute and apply | every failed execution is recovered |
| `execution/position_store.py`, bridge | the one position | open, close, P&L | holds what the account holds |
| `capital/daily_loss_governor.py`, `governance/risk_engine.py` | the day's realized P&L, its date | accrue, breach check | a breach latches the process |
| `broker/ibkr_broker.py`, `ibkr_runtime.py` | order status, fills, the session, account values | place, wait, cancel, callbacks, reconnect | one order at work; none left behind |
| `market/market_data_ibkr_*.py`, `market_loop.py` | time of the last bar emitted | poll, warm-up | each bar once, in order |
| `advisory/time_authority.py`, `signal_engine.py`, `execution/exit_engine.py` | none | entry window, session, hard stop | entries are today's; flat by the close |
| `capital/balance_store.py`, `account_balance_authority.py` | one row: the last balance and its write time | write, read with an age limit | a bad session starves its readers; a good one reaches them |
| `execution/position_sizing_authority.py`, `broker/pricing.py` | none | size, limit price | the largest admissible size; no entry beyond the caps unless the quote moved |
| `capital/capital_preflight.py`, `capital_gate.py`, `promotion_registry.py`, `governance/go_no_go_gate.py` | whether capital is armed | once a process; at every order | neither stands for the other, and no capital order goes out that either refuses |
| `api/terminal_state.py`, `advisory/shadow_runner.py` | last frame, last shadow read, `state.json`, `_busy` | publish, read, fire | the console shows one state of the loop, and drops it when the loop is gone |
| `capital/trade_ledger.py` | a JSONL file | append, read, scorecard | the record is that of the trades closed |
| `research/intraday.py` and the daily studies | none | replay, simulate, walk forward | trades stay within their session |
| `governance/audit_store.py`, shadow ledger | a hash chain in memory | append | records are chained in order |

Interaction. One cycle of the loop is a single call chain: `market_loop` ->
`market_step` -> `StateMachineV2` -> `execute_and_apply` -> router -> `IBKRBroker`.
It runs on one thread, but reads state that others change: the KILL and ARM files
(console), the fill table and the account summary (callback thread), the socket
(watchdog thread), the balance row (snapshot thread), the quote, the calendar. Towards
the console it publishes a state file, which a shadow worker writes too, and a ledger
of trades. What is hard is therefore what happens between two such reads, what a failed
step leaves behind, what an order does after its wait has timed out, and what a restart
forgets.

## Modules

| Module | What it models |
|---|---|
| `KillSwitch` | the kill authority of any set of processes |
| `BrokerOrders` | orders at the broker and what the runtime has been told of them |
| `TradingLoop` | the loop's thread, extending both; console, broker, socket and calendar interleave with it |
| `SinglePosition` | the abstract promise: one order at a time, buy only when flat, sell only what was bought |
| `MarketFeed` | clock, bars, provider, entry window and hard stop |
| `IBKRSession` | one broker session: connection, order ids, account summary, stored balance |
| `CapitalGates`, `EntryDesk` | the two capital gates; one trade with its quantities and prices |
| `EquityCurve`, `TrackRecord`, `ConsoleBridge` | the scorecard, as functions; what a day leaves behind; loop process, state file, shadow worker, console |
| `LossAllowance` | the abstract promise of the governor: each process of a day has its own allowance |
| `Backtest` | the intraday backtest, as functions |
| `*Proofs` | the theorems of the module they are named after |
| `MC*` | values for TLC that a cfg cannot write |

`TradingLoop` follows the control flow of the loop and takes verdicts of sizing, pricing
and the gates as choices; `EntryDesk` is the same path with those verdicts computed and
the failures of the broker left out. `IBKRSession` is the runtime below both, and
`ConsoleBridge` what is above: it keeps of the loop only what is published and counted.
They share `KillSwitch` (`TradingLoop`, `ConsoleBridge`) and the lines of code, not
state: together they would be too large to check.

**KillSwitch.** `killed[p]` is `_KILL_STATE` of process `p`, `killFile` the file.
`EngageKill` keeps the early return of a process already latched. A failed write or
removal is swallowed by the code and is a choice here (`WritesFail`).

**BrokerOrders.** A slot holds one order of one contract, the quantity the signal
engine proposes. *Filled* (a fact at the broker) and *told* (recorded by
`orderStatus`) are apart. A cancel is a request: the order may fill until the broker
has taken it. A settled slot is used again, which bounds the orders alive at once and
not the orders of a run.

**TradingLoop.** `pc` names the place of the thread in the call chain. A step runs
from one read of shared state to the next, so nothing that another actor could come
between is taken as atomic:

| pc | Code | Leaves by |
|---|---|---|
| `down` | no process | `Boot` |
| `top`, `feed` | head of the loop, provider, `market_step` | `LoopTop`, `NoBar`, `MarketStep` |
| `manage`, `sealExit` | `manage_position`; its `ExecutionEnvelope.create` | `ManagePosition`, `SealExit` |
| `authorize`, `gates`, `sealEntry` | `authorize_entry` up to the store check; ARM, time and risk; the envelope | `Authorize`, `GatesDeny`, `RiskCheck`, `SealEntry` |
| `preflight`, `route`, `size` | `execute_and_apply`, the router, sizing | `Preflight`, `Route`, `Size` |
| `submit` | gates and pricing, then `placeOrder`, or the SIM oracle | `SubmitRefused`, `Submit`, `SimExecute` |
| `await`, `recheck` | the two fill windows | `FillSeen`, `CancelUnfilled`, `GiveUp` |

`afterKill`, `afterDisarm`, `ack` and `late` are history variables: nothing in the
loop reads them, except that `late` is bounded by `MaxLate`. P&L is one of `Outcomes`
in units of half the limit. Signals, indicator exits, vetoes, sizing and capital
verdicts are nondeterministic, each at its place in the control flow.

**MarketFeed.** Time is in minutes of UTC; `offset` is 4 in New York summer and 5 in
winter. Bars are their start times. A start may come at any minute and finds the
previous day's last bar still the newest until the open. The fate of an order is
TradingLoop's subject; here an exit fills or lapses, and fills in market hours only.

**IBKRSession.** Four threads. `dog` is the thread that connects: the constructor's once
(`Construct`, `InitTimeout`), then the watchdog's (`DogWakes`, `DogConnects`, `DogReady`,
`DogTimeout`). `seed` is a nextValidId on its way, `healthy` is `_connected`, which is
not the socket (`up`): error 1100 clears it and 1102 sets it again. The snapshot thread
checks, reads tag by tag and writes (`SnapCheck`, `SnapRead`, `SnapWrite`), so an update
can arrive in between and a kill can arrive after the check. A row's age is a class after
the limits of its readers, and runs from the writing, as `written_ts` does. Balances are
versions. `working` and `brokerId` are the broker's side: TWS refuses an id at or below
one it has seen. Two kinds of traffic, orders and account, share the session and touch
different state; `use` chooses one for a behaviour.

**CapitalGates, EntryDesk.** The gates are functions of the environment, the drill's age,
the promotion, OPS, the kill and the row. Limits are what the environment says or
`Unset`: the preflight wants all three written and positive, the router and the sizing
take a default (`Effective`). `EntryDesk` takes one trade from `Propose`
through `Arm`, `RouteEntry` (first quote), `Size`, `Route`, `PlaceEntry` (second quote),
fills, `OpenPosition` and the exit to `CloseAt`, and lets the world move between any two.
Prices are cents, rounded as `round_to_tick` does with either outcome of a tie.
A trade is followed until it is closed; `stuck` stands for the states TradingLoop's
findings are about.

**TrackRecord, ConsoleBridge.** The position and the governor's count die with their
process, the ledger's lines do not; an append may fail, or leave a line without its end,
which swallows the next one. `publish_state_file` truncates (`LoopOpens`) and writes
(`LoopWrites`); the worker's copy of the state is read in two steps (`WorkerReadsRisk`,
`WorkerReadsPosition`) while the loop goes on. `use` chooses between the state file and
the ledger, which no code relates. The scorecard's sums and its one-pass drawdown are
functions of `EquityCurve`. `LossAllowance` knows nothing of files, threads and
kills: a process starts with the allowance `MAX_DAILY_LOSS_USD`, each close is charged to
it, and without any left there is no close. `Left` maps the bridge to it.

**Backtest.** `ReplayIntraday`, `SimulateIntraday` and `WalkForwardIntraday` are functions
of the bars and of a strategy given as the bars it enters and exits at. They are
evaluated, not run: `MCMarketFeed` holds three statements about them over two days with any
one bar missing or a day cut short as an assumption (`BacktestDays`), which TLC evaluates
with every run of that module. `OnlyShortSessionsCarry`: only a session too short of bars
to have a hard exit lets a trade out. `ClockNeverEarly`: missing bars make the clock late,
never early, so no entry falls into the opening range. `HalvesAreWhole`: the halves of the
walk-forward add up to the whole, trade for trade, unless a trade is carried.

## Runs

| Run | Question | States |
|---|---|---|
| `spine_faults` | kill, disarm, loss limit and lifecycle under every fault at once | 1.7 million |
| `spine_prompt` | refinement of `SinglePosition`, true books, a reported kill | 160 thousand |
| `spine_live` | does a kill halt the loop, is every execution resolved | 18 thousand |
| `feed` | bars in order, entries of today, flat by the close in winter | 543 thousand |
| `runtime` | account feed, order ids, watchdog and stored row of one session | 61 thousand |
| `desk` | size, cash, books and gates of one trade | 272 thousand |
| `console` | state file, shadow worker, the loss allowance of each process and track record over restarts | 86 thousand |
| `exit_stranded`, `late_fill`, `kill_clear`, `kill_again`, `hard_stop_summer` | one finding each, below | |

What the properties say:

- `OneOrderAfterKill`, `OneEntryAfterDisarm`: the check is made and then the order is
  placed, so one order may be past its check. There is never a second.
- `LatchedNeverTrades`, `LossHalts`: a set latch is final and a lost day sets it,
  though the file may fail to be written or be cleared.
- `MachineAgrees`: store and machine agree at every label, so the `INVALID_*` kills,
  which end the process, cannot fire (on the exit path the driver would catch the exception,
  `execution_driver.py:144-152`; that branch of the model is unreachable).
- `BooksAgree`, `KeepsSinglePosition`: what the process believes it holds is what the
  account gained, and it never doubles an order.
- `KillHalts`, `EntryResolves`, `ExitResolves`: progress.
- `BarsInOrder`, `EntryOnToday`, `FlatByCloseInWinter`: the feed.
- `OneRowAfterBad`, `OneConnectAfterKill`: checks and their acts are apart, so one balance
  row and one connection may be past the check when the kill comes; never a second.
  `BadStarves`: a session that stays bad ends with every reader refused.
- `Resubscribes`, `BalanceReachesRow`: after any drop the account stream comes back, and
  what it brings reaches the row. The first has one exception, a nextValidId later than
  the watchdog's 15 s: nobody subscribes then, and the log's "will retry" is not true.
- `RowIsWhole`, `FillIsItsOwn`: when a stored row may mix two updates, and when an order
  may take another's fill: only if an order was placed between a reconnect and its
  nextValidId, which sets the ids back.
- `SizeIsLargest`, `PaidWithinBudget`: the size is the largest every cap admits on the
  first quote; an entry costs more than the caps only if its limit, from the second
  quote and the buffer, is above the first. No order leaves without a quote.
- `BooksMatchAccount`: for one contract, position, account and realized result agree.
- `CapitalAsDeclared`: neither gate is stricter than the other. The one asked at every
  order takes only `true` for yes, wants the drill within 24 hours and a promotion, and
  asks for neither `OPS_ENV` nor any limit; those only the preflight asks for, once a
  process. (`NeitherGateSuffices`, an assumption TLC evaluates, has an environment for each
  direction.) Together they let contracts be ordered and held in CAPITAL only under
  `OPS_ENV=PROD`, attestations in the narrower reading, and limits the operator wrote:
  the defaults of the router and of the sizing never size a capital order, as they do in
  PAPER. `ArmedUnderRowKey`: capital arms only if `IBKR_ACCOUNT_ID` is the literal key
  `IBKR` of the runtime's row.
- `SingleFlight`, `BusyClears`: at most one read of the advisor, and always another one.
- `NeverOpenAndCounted`: no text and no page shows a position together with its own
  result, which rests on the order of three reads and two writes in two threads.
- `FileCatchesUp`, `DeadLoopIsDropped`: what two writers leave on the file is overwritten
  by a running loop, and the state of a dead one disappears from the page. What the page
  shows instead is no good answer, see below.
- `KeepsAllowance`: refinement of `LossAllowance`; the two reads, the count and the kill
  that lie between a close and the next one never let a process trade past its limit.
- `DayLossBound`: the limit is one per process, so a day with n processes can lose n times
  the limit and the overshoot of a trade: a consequence of `KeepsAllowance`, stated as what an
  operator sees. `RecordIsTheDay`: the scorecard's trades are
  the newest of the day, across restarts, unless a row was lost. `DrawdownIsWorst`: its
  drawdown against its definition over all pairs of points of the equity curve.

Each property of a passing run has a mutant in `PROJECT.json`: a plausible slip in a
mapped definition that TLC finds by that property.

### Bounds

- One order slot in `spine_faults`, two in `spine_prompt`. A loop thread waits for one
  order at a time; a second slot lets an order be placed beside a live one, which is
  what `SinglePosition` forbids. With one slot a loop whose order is still live cannot
  place another, so `spine_faults` says nothing of two live orders.
- `MaxDay` 1 in `spine_faults`: one roll of the UTC day, the only thing a day does.
- `MaxLoss` 2 with outcomes -1 and 1: the limit is reached by two losses, exactly,
  and never by one, with gains between. `MaxGain` 1 bounds the other side.
- `MaxLate` 1: one order may outlive its windows. `MaxLate` 0 assumes that none does.
- `MaxDay` 2 in `feed`: a night with a stale bar, and a second one whose position may
  be carried. Five-minute bars, the coarsest grid on which the last bar starts at the
  hard stop.
- Two processes: the console and the loop are all that write the shared files.
- `runtime`: two tags, the least that can be mixed; one change of the balance, so an old
  and a new one; two orders, the least that can share an id. Reconnects are not bounded.
- `desk`: twelve environments, one for each way the gates and the router decide (among them
  a STAGING one, limits unset or zero, a promotion without a limit); four
  quotes, without a side, and worth one and two contracts under caps of 250 and 300
  dollars; drills of the future, within 24 hours, within eight days and older; intents of
  one and of three contracts.
- `console`: four trades, so that the newest three are not all; two processes in a day;
  outcomes that reach the limit at once or overshoot it after a gain; two workers, of
  which the second must never start. `ViewTrades` 1 while the file is explored: one
  position opens and closes under the two writers.
- Backtest: two days, the least a trade can be carried over or a walk-forward cut; bars of
  55 minutes, of which the eighth is the first at or past minute 385, and of which one may
  be missing without a new session.

### Fairness

`FairSpec` has weak fairness of `LoopStep` and of `BrokerStep`. Every wait of the loop
thread has a timeout and its sleeps are finite, so a step that stays enabled is taken;
there is a step at every label but `down`. The broker ends an order it works and
reports it while the session is up (`LinkFaults` is off in the fair runs). Nothing is
assumed of starts, crashes, the operator, or the calendar. `spine_live` leaves out
CAPITAL and takes `ROGUE_FORCE_MKT`, as docker-compose.yml sets it for PAPER, since
`EntryResolves` and `ExitResolves` do fail without: a refused preflight and the finding
`exit_stranded`.

`SessionFairness`: the watchdog, the callbacks and the snapshot thread are scheduled and
their waits end; TWS streams a changed balance to a subscriber; time passes (`RowAges`).
Writing the row has strong fairness: a kill between check and write does not disable it,
but sqlite may raise, again and again, and does not for ever. Connecting has none beyond
`DogStep`: it may fail each time, and nothing is claimed of a socket that stays down.

`BridgeFairness`: the loop's thread and the workers are scheduled; the page
polls; the file of a dead loop gets older. That a worker's read ends is an assumption on
the model's server: `urllib` has its timeout for each operation of the socket, so an answer
that keeps trickling in would hold the flag, and `BusyClears` says nothing of it. Nothing
is assumed of starts and crashes.

## Findings

1. `exit_stranded`: a BLOCKED exit (an option without a bid is enough) is recovered by
   nobody; the loop answers HOLD for ever with the position held.
2. `late_fill`: nobody waits for the cancel to be confirmed; a live order may be left
   behind and the retried exit sells twice.
3. `kill_clear`: the loop reads the KILL file and does not latch, so a kill cleared
   within a cycle stops nothing.
4. `kill_again`: a console that has killed once writes no file at its second kill and
   reports killed all the same.
5. `hard_stop_summer`: the hard stop at 20:55 UTC lies after the close in summer.
`PROJECT.json` quotes the lines that say otherwise.

Met while modelling, of smaller weight or outside what the live entry point can reach, and
stated here instead of by a run:

- A refused capital preflight returns before the recovery that every other failed entry
  gets and strands the machine in OPEN_POSITION (`execution_driver.py:94`). It needs
  OPS_MODE=CAPITAL, which `load_ops_config` does not offer today.
- A history response cut short by its timeout ends in an older bar, which differs from the
  last one and is emitted as new (`market_data_ibkr_live.py:109`). `Partial`
  turns this on in `MarketFeed`, for a response that lacks its newest bar; `BarsInOrder`
  fails then.
- The capital gate is asked for exits too (`execution_router.py:135`): a drill that passes
  24 hours with a position open blocks its exit.
- `capital_gate.py` calls itself the single authoritative gate, "Impossible to bypass", but
  asks for neither `OPS_ENV=PROD` nor written limits; those stand or fall with the
  preflight (`capital_preflight.py:83-85`, `111-122`), which the driver alone calls.
- Without a fresh state file the page shows the console's own empty store and governor
  as LIVE (`console.html:427`) and FLAT (`481-482`), whatever the dead loop held;
  `TERMINAL.md:16` promises the open position and the governor as durable state.
- The $250 of `GO_LIVE_PLAN.md:30` and "hard daily-loss kill" of `docker-compose.yml:64` is
  a limit per process: a restart on the same day begins at zero (`DayLossBound`).
- An order of several contracts opens a position of the intent's quantity whatever was
  sized and filled (`execution_position_bridge.py:73`); the exit would then sell more
  than is held. The signal engine proposes one contract, for which sizing is all or nothing.
- Balances gate sizing, but their amounts do not enter it. `round_to_tick` may pass
  `ask * (1 + buffer)` by half a tick.
- A nextValidId after the 15 s is never followed by a subscription (`ibkr_runtime.py:421`).
- A console that killed shows killed after a clear until it is restarted, though
  `terminal_state.py:215` calls the answer never stale. A worker killed between truncation
  and write leaves `state.json` empty until the next start.
- One torn line empties `read_ledger` while it is among the newest `limit` rows.
- `intraday.py:8` promises "NO overnight holds", but the clock counts bars: a session with a
  missing bar, or a half day, may have no hard exit, and its trade is closed at the next
  session's first bar. `OnlyShortSessionsCarry` says that nothing else carries one.
- `shadow_eval.py` pairs adjacent rows only, where its docstring says the next row of the
  same symbol.

## Proofs

All theorems hold for every value of the constants that meets the named assumptions
(`KillAssumption`, `BrokerAssumption`, `LoopAssumption`, `FeedAssumption`,
`SessionAssumption`, `DeskAssumption`, `RecordAssumption`, `BridgeAssumption`). Of these,
`RecordAssumption` asks that outcomes have a worst one, which is what the overshoot in
`DayLossBound` is.

- `TypeCorrect`: proved by parts (`KillTyped`, `OrdersTyped`, ...). `NextKills` and
  `NextOrders` first say what any step can do to the kill state and to the orders, so
  that the parts need not look at each action.
- `AgreementHolds`: `MachineAgrees` is inductive as it stands, since it speaks of every
  label at which the machine has moved and the store has not.
- `LatchIsFinal`, from `LatchedIsIdle`: whoever sets the loop's latch ends its cycle in
  the same step.
- `KillStopsOrders`, from `LastOrder`: the one pass that may place an order under the
  file is spent when it does, and no later pass gets by the checks while the file
  stays. `DisarmStopsEntries` is the same with the ARM check (`LastEntry`), where exits
  may still pass.
- `LossLatches`: `LossHalts` is inductive with the types.
- `ReportedKillHolds`, from `AckIsDurable`, assuming that nobody clears and writes
  succeed. `kill_again` shows that the first assumption is needed.
- `BooksStayTrue`, `ImplementsSinglePosition`, `NeverShortNorTwo`, assuming
  `MaxLate = 0` and no crash, from `OneAtWork`: only the slot of the execution in
  progress is unsettled, it has the side of its envelope, and the account is the store
  plus the fill not yet applied. `late_fill` shows that the first assumption is needed.
- `BarsArriveInOrder`, assuming whole responses, from `SeenIsServed`: nothing seen is
  newer than what is served, and before the first emit it is older.
  Without the assumption the guard lets an older bar through (see above).
- `FeedTyped`, `EntriesAreOfToday` and `FlatInWinter`, from `ClockInv`: the bar served last
  has begun, and is of today or the last one of yesterday. The second assumes
  `CutoffBeforeLastBar`: no entry is let through once the last bar of a day may begin. The
  run's cutoff meets it, and the compose file's meets it with its one-minute bars only. For
  the third, `ShownHasLapsed`: in winter a position still held after a bar of its last five
  minutes was emitted has had an exit that did not fill.
- `WatchdogStops`, from `ConnectInv`: a thread past the kill check has not connected since.
  `RowsStop`, from `RowsInv`: a snapshot past its checks has not written since the session
  went bad. The properties are not inductive alone: a count of one with such a thread
  still under way would become two.
- `RowsAreWhole`, from `WholeInv`: the tags read so far are there, and agree unless the
  snapshot's own flag says an update came in between.
- `FillsAreOwn`, from `IdsInv`: until an order is placed early, every id on the loop's side
  is at or above the broker's next one, so an id names one order.
- `SessionTyped`, by parts, with `IdsInv` for the bounds of ids.
- `LargestSize`: `SizeAdmits` shows that `n <= FinalQuantity(..)` holds exactly for the
  affordable `n`, from `FloorIsLargest`; the state only has to keep intent and estimate.
- `BudgetHolds`, from `BudgetInv`: the estimated cost is within the caps, and what was paid
  is at most the limit times the contracts filled.
- `CapitalDeclared`, from `DeclaredInv`: what the preflight found stays true of an armed
  process, since its environment does not change, and contracts ordered or held mean that
  the gate has passed since; `BudgetInv` bounds the estimated cost by the limits in force,
  which are the written ones then.
- `BooksAgree`, from `OneInv`; `ArmedRight`, from `ArmInv`; `DeskTyped`, with `FlowInv`: a position stands for at least one contract, so the
  average price divides by something. `DeskAssumption` takes the buffer to be a share
  between 0 and 1; the code takes the environment's number as it is.
- `OneReadInTheAir`, from `FlightInv`: a live worker holds the flag. `NeverBoth`, from
  `BooksInv` and `ViewInv`: what a worker has read of the governor stays at or below it
  while the worker lives, and an open position is above it.

- `BridgeTyped`, from `DayInv` and `BooksInv`: what has been counted never passes what has
  been opened, nor the ledger's rows what the day has traded.
- `AllowanceKept`, from `GovernorInv`: while a process runs unkilled its realized loss is
  below the limit, and a close in progress that is not counted yet belongs to it; so each
  step is a start, a close charged to the allowance, a stop, or none of these.
- `DayLossBounded`, from `BoundInv`, over the steps of `LossAllowance`: what processes before
  this one lost is bounded by one `PerProcess` each, and what this one lost by what is
  missing from its allowance.
- `RecordStaysTheDay`, from `RowsInv`: without a lost row the whole rows of the file are
  the results of the day but the ones in progress (`Due`). `DrawdownStaysWorst` adds
  `DrawdownOfAnyRecord`, which holds of every sequence of integers: the running peak is
  the highest point so far, so one pass finds the deepest fall between any two points.
- `NoOvernightFromFullSession`: with a position open the last row is of the session of its
  entry and no hard exit; rows only go on (`GoesOn`), so a session left from such a row
  has none. No assumption on the bars is needed, not even their order.
- `ClockIsNeverEarly`, from `ClockBehind`, for bars of the regular session that are at least
  their size apart, which is what a vendor's bars are after `keep_rth`: a session begins no
  earlier than the open, so minutes counted by bars are at most minutes since the open.

The functions of `EquityCurve` and `Backtest` are recursive. The library's induction takes an
operator as a parameter, so these proofs use induction over a set instead (`Induction`, from
the least element of a set of naturals), and `Recursion` gives a recursive function its
equations by the same means.

Only model-checked: the liveness properties (fairness and ENABLED are out of the
prover's reach), `HalvesAreWhole` (its halves are made with `SelectSeq`, which takes an operator
the provers do not instantiate), and every violation.

## Not modelled

- A crash or a start with something already in the account: `Boot` counts contracts
  from zero because the code does, asking the broker for neither positions nor open
  orders. SinglePosition is a promise about one process.
- In `TrackRecord`, modes that are not governed and not recorded (SIM, REPLAY), and the UTC
  day roll, which `TradingLoop` has; in `EntryDesk`, limits written as negative numbers, for
  which a written zero stands, and a cancel that is not effective at once, which is
  `TradingLoop`'s subject too.
- `OPS_MODE` and `EXECUTION_MODE` set apart; a failed read of the KILL file.
- Indicators and signals: floating-point arithmetic, nondeterministic verdicts here.
- The request matching of quotes and contract details (one request at a time, on the loop
  thread); orders under ROGUE_FORCE_MKT in `EntryDesk`, which carry no price.
- Hashes of envelopes and the audit store: lists one thread appends to and that nothing on
  the trading path reads. What could go wrong is a restart, which loses them by design.
- Robinhood (equities, which the risk engine refuses); the SIM driver, a straight-line
  script over operations modelled here.
- The daily backtest, the options backtest and the studies: arithmetic over downloaded
  prices, without state or effect on trading.
- Weekends, holidays and half days; the SIM clock of `time_authority`.

## Plan

Done: the loop and its promise, the feed, the session, the desk, the bridge and the
record with its abstract allowance, the intraday backtest, and theorems of each: every
safety property of a passing run is proved. Left, by what matters most:

1. `SinglePosition` for several contracts, with `EntryDesk` as its implementation for one.
2. `HalvesAreWhole` by induction, from the halves as a prefix and a suffix of the rows.
3. The trade selection of the options backtest beside `Backtest`.

## Running

    tlc -workers 2 -config spine_faults.cfg MCTradingLoop
    tlc -workers 2 -config feed.cfg MCMarketFeed
    tlc -workers 2 -config runtime.cfg MCIBKRSession
    tlc -workers 2 -config desk.cfg MCEntryDesk
    tlc -workers 2 -config console.cfg MCConsoleBridge
    tlapm SinglePositionProofs.tla
    tlapm ConsoleBridgeProofs.tla
    tlapm BacktestProofs.tla
