------------------------------- MODULE EntryDesk -------------------------------
(***************************************************************************)
(* One trade from the intent to the realized result, with its quantities   *)
(* and prices: sizing (execution/position_sizing_authority.py), routing    *)
(* (execution/execution_router.py, broker/broker_runtime.py), pricing      *)
(* (broker/pricing.py), and the books kept of it                           *)
(* (execution/execution_position_bridge.py).  The quote is read twice, by  *)
(* the router to size the order and by the broker to price it, and the     *)
(* market, the kill, the balance row and the capital gates move in         *)
(* between.  Prices are cents a share, amounts cents.                      *)
(***************************************************************************)
EXTENDS CapitalGates

CONSTANTS
  Envs,          \* environments the process may be started with
  Quotes,        \* quotes the market shows: [bid, ask], -1 for a side it lacks
  Quantities,    \* quantities an intent may ask for; the signal engine asks for 1
  DrillAges,     \* hours since the kill drill, sampled
  Strike         \* strike of the option, in dollars

\* MAX_CONTRACTS_PER_TRADE of the risk engine.
MaxContractsPerTrade == 5

\* A buffer is a share of the price; the code takes ROGUE_LIMIT_BUFFER_PCT as it is.
ASSUME DeskAssumption ==
  /\ \A e \in Envs :
       /\ e.bufferPct \in 0..100
       /\ e.caps \in [contracts : Limits, notional : Limits, loss : Limits]
  /\ Quotes \subseteq [bid : Int, ask : Int]
  /\ Quantities \subseteq 1..MaxContractsPerTrade
  /\ DrillAges \subseteq Int
  /\ Strike \in Nat \ {0}

VARIABLES
  env,        \* mode, OPS_ENV, attestations, account, limits as written (amounts in
              \* cents), BROKER and ROGUE_LIMIT_BUFFER_PCT
  drill,      \* hours since the last kill drill
  promotion,  \* the promotion file
  kill,
  row,        \* age class of the balance row: within 60 s, within 300 s, older
  quote,      \* what the market shows
  armed,      \* _CAPITAL_ARMED
  pc,         \* where the trade stands
  qty,        \* quantity of the intent
  est,        \* est_premium, 0 for None
  sized,      \* final_quantity
  limit,      \* limit prices of the last entry order and the last exit order
  rest,       \* contracts of the entry still working at the broker
  held,       \* contracts the account holds
  paid,       \* cash paid for them, less cash received
  position,   \* the books: quantity, and contracts and cash of the fill reported
  realized    \* realized_pnl_usd, in cents

world == <<env, drill, promotion, kill, row, quote>>
ticket == <<qty, est, sized, limit>>
account == <<rest, held, paid>>
books == <<position, realized>>
deskVars == <<world, armed, pc, ticket, account, books>>

NoLimit == [buy |-> 0, sell |-> 0]
Flat == [qty |-> 0, n |-> 0, cost |-> 0]

DeskTypeOK ==
  /\ env \in Envs /\ drill \in DrillAges /\ promotion \in Promotions
  /\ kill \in BOOLEAN /\ row \in 0..2
  /\ quote \in Quotes /\ armed \in BOOLEAN
  /\ pc \in {"idle", "driver", "router", "size", "route", "price", "working", "open",
             "selling", "closed", "stuck"}
  /\ qty \in Quantities \cup {0} /\ sized \in 0..MaxContractsPerTrade
  /\ est \in Nat /\ limit \in [buy : Nat, sell : Nat]
  /\ rest \in 0..MaxContractsPerTrade /\ held \in Int /\ paid \in Int
  /\ position \in [qty : 0..MaxContractsPerTrade, n : 0..MaxContractsPerTrade, cost : Nat]
  /\ realized \in Int

DeskInit ==
  /\ env \in Envs /\ drill \in DrillAges /\ promotion \in Promotions
  /\ env.mode # "CAPITAL" => promotion = "none" /\ \A h \in DrillAges : drill <= h
  /\ kill = FALSE /\ row = 0 /\ quote \in Quotes
  /\ armed = FALSE /\ pc = "idle"
  /\ qty = 0 /\ est = 0 /\ sized = 0 /\ limit = NoLimit
  /\ rest = 0 /\ held = 0 /\ paid = 0
  /\ position = Flat /\ realized = 0

-------------------------------------------------------------------------------
(* Sizing and pricing, as functions. *)

Multiplier == 100
Lesser(a, b) == IF a < b THEN a ELSE b
Greater(a, b) == IF a < b THEN b ELSE a

\* Mutant: whatever the quote says is taken for a price.
EstimateUnchecked(q) == q.ask

\* _estimate_option_premium: the ask, or the bid without one, or None.
EstimatePremium(q) == IF q.ask > 0 THEN q.ask ELSE Greater(q.bid, 0)

\* Premium when there is one, strike notional otherwise; SIM always the latter.
PerContractCost(mode, premium) ==
  IF mode # "SIM" /\ premium > 0 THEN premium * Multiplier ELSE Strike * 100 * Multiplier

\* The limits in force: what the environment says, or the default of the code.
Effective(written, default) == IF written = Unset THEN default ELSE written
MaxContracts == Effective(env.caps.contracts, 1)
MaxNotional == Effective(env.caps.notional, 5000 * 100)
MaxDailyLoss == Effective(env.caps.loss, 250 * 100)

SimMaxContracts == 10
SimMaxNotional == 100000 * 100

ContractCap(mode) == IF mode = "SIM" THEN SimMaxContracts ELSE MaxContracts
NotionalCap(mode) == IF mode = "SIM" THEN SimMaxNotional ELSE MaxNotional

\* Mutant: the floor division becomes a rounding up.
FitsUp(cap, cost) == (cap + cost - 1) \div cost

FitsUnder(cap, cost) == cap \div cost

\* Balances gate the sizing; their amounts do not enter it.
FinalQuantity(mode, quantity, premium) ==
  LET cost == PerContractCost(mode, premium)
      bounded == Lesser(Lesser(quantity, ContractCap(mode)), FitsUnder(NotionalCap(mode), cost))
  IN  IF mode = "SIM" THEN bounded ELSE Lesser(bounded, FitsUnder(MaxDailyLoss, cost))

\* round_to_tick on a penny grid, of cents given in hundredths.  A tie falls the way
\* the floating point product does.
RoundToTick(hundredths) ==
  { (hundredths + 49) \div 100, (hundredths + 50) \div 100 }

\* marketable_limit: no limit without the side of the book that is needed.
MarketableLimit(side, q) ==
  LET ref == IF side = "BUY" THEN q.ask ELSE q.bid
  IN  IF ref <= 0 THEN {}
      ELSE RoundToTick(ref * (IF side = "BUY" THEN 100 + env.bufferPct ELSE 100 - env.bufferPct))

\* round(max(0.05, strike * 0.002), 2), the same for entry and exit.
SimFillPrice == Greater(5, (Strike * 2 + 5) \div 10)

\* get_broker_runtime: an option goes to IBKR, unless BROKER names another backend,
\* which refuses it or is unknown.
RoutesToIBKR == env.broker \in {"", "IBKR"}

-------------------------------------------------------------------------------
(* What moves around the desk. *)

MarketMoves ==
  /\ quote' \in Quotes \ {quote}
  /\ UNCHANGED <<env, drill, promotion, kill, row, armed, pc, ticket, account, books>>

KillOn ==
  /\ ~kill
  /\ kill' = TRUE
  /\ UNCHANGED <<env, drill, promotion, row, quote, armed, pc, ticket, account, books>>

RowMoves ==
  /\ env.mode # "SIM"
  /\ row' \in {0, Lesser(row + 1, 2)} \ {row}
  /\ UNCHANGED <<env, drill, promotion, kill, quote, armed, pc, ticket, account, books>>

\* Hours go by: the drill ages, the promotion may expire.
TimePasses ==
  /\ env.mode = "CAPITAL"
  /\ drill' \in {d \in DrillAges : d > drill}
  /\ promotion' \in {promotion} \cup (IF promotion = "valid" THEN {"expired"} ELSE {})
  /\ UNCHANGED <<env, kill, row, quote, armed, pc, ticket, account, books>>

-------------------------------------------------------------------------------
(* The entry. *)

\* authorize_entry lets an intent pass and the machine moves on.
Propose(q) ==
  /\ pc = "idle" /\ ~kill
  /\ pc' = "driver"
  /\ qty' = q
  /\ est' = 0 /\ sized' = 0 /\ limit' = NoLimit
  /\ UNCHANGED <<world, armed, account, books>>

\* Any refusal after that but the preflight's: on_entry_failed.
Refused ==
  /\ pc' = "idle"
  /\ UNCHANGED <<world, armed, ticket, account, books>>

\* _ensure_capital_armed, once per process; its refusal is not recovered from.
Arm ==
  /\ pc = "driver"
  /\ env.mode = "CAPITAL" /\ ~armed
  /\ armed' = Preflight(env, drill, kill, row)
  /\ pc' = IF armed' THEN "router" ELSE "stuck"
  /\ UNCHANGED <<world, ticket, account, books>>

NoNeedToArm ==
  /\ pc = "driver"
  /\ env.mode # "CAPITAL" \/ armed
  /\ pc' = "router"
  /\ UNCHANGED <<world, armed, ticket, account, books>>

\* OPS is CLEAR: only the loop itself halts it, and the desk is not asked again then.
GateOpen(q) == GateAllows(env, drill, kill, "CLEAR", promotion, q)

\* execute_sized up to the first look at the quote.
RouteEntry ==
  /\ pc = "router"
  /\ IF kill \/ ~GateOpen(qty)
     THEN Refused
     ELSE /\ est' = IF env.mode = "SIM" THEN 0 ELSE EstimatePremium(quote)
          /\ pc' = "size"
          /\ UNCHANGED <<world, armed, qty, sized, limit, account, books>>

\* AccountBalanceAuthority.snapshot: SIM makes its balance up, unless killed.
SimSnapshot == ~kill

\* get_cached_snapshot: a row not older than its limit of 300 s.
CachedSnapshot == row <= 1

BalanceKnown == IF env.mode = "SIM" THEN SimSnapshot ELSE CachedSnapshot

Size ==
  /\ pc = "size"
  /\ LET final == FinalQuantity(env.mode, qty, est) IN
       IF kill \/ ~BalanceKnown \/ final <= 0
       THEN Refused
       ELSE /\ sized' = final
            /\ pc' = "route"
            /\ UNCHANGED <<world, armed, qty, est, limit, account, books>>

\* The SIM oracle fills what was sized, and the bridge books it.
SimEntry ==
  /\ pc = "route" /\ env.mode = "SIM"
  /\ held' = sized /\ paid' = sized * SimFillPrice
  /\ position' = [qty |-> qty, n |-> sized, cost |-> paid']
  /\ pc' = "open"
  /\ UNCHANGED <<world, armed, ticket, rest, realized>>

\* CAPITAL_NOTIONAL_LIMIT, then the backend.
Route ==
  /\ pc = "route" /\ env.mode # "SIM"
  /\ IF est * Multiplier * sized > MaxNotional \/ ~RoutesToIBKR
     THEN Refused
     ELSE pc' = "price" /\ UNCHANGED <<world, armed, ticket, account, books>>

\* Mutant: the order is of the intent's quantity.
OrderIntended == qty

\* override_quantity.
OrderQuantity == sized

\* execute_intent: a quote of its own, and a limit order on it.
PlaceEntry ==
  /\ pc = "price"
  /\ IF MarketableLimit("BUY", quote) = {}
     THEN Refused
     ELSE /\ \E p \in MarketableLimit("BUY", quote) : limit' = [buy |-> p, sell |-> 0]
          /\ rest' = OrderQuantity
          /\ pc' = "working"
          /\ UNCHANGED <<world, armed, qty, est, sized, held, paid, books>>

\* The broker fills some of what is working, at the market and within the limit.
BrokerFills(n) ==
  /\ n \in 1..rest
  /\ quote.ask > 0 /\ quote.ask <= limit.buy
  /\ rest' = rest - n
  /\ held' = held + n
  /\ paid' = paid + n * quote.ask
  /\ UNCHANGED <<world, armed, pc, ticket, books>>

\* Mutant: an order without a fill opens a position all the same.
OpensUnfilled ==
  /\ pc = "working"
  /\ position' = [qty |-> qty, n |-> held, cost |-> paid]
  /\ pc' = "open"
  /\ UNCHANGED <<world, armed, ticket, account, realized>>

\* wait_for_fill is content with any filled quantity, and handle_entry opens a
\* position of the intent's quantity at the average price so far.
OpenPosition ==
  /\ pc = "working" /\ held > 0
  /\ position' = [qty |-> qty, n |-> held, cost |-> paid]
  /\ pc' = "open"
  /\ UNCHANGED <<world, armed, ticket, account, realized>>

\* The window closes and the cancel takes effect.
EntryUnfilled ==
  /\ pc = "working" /\ held = 0
  /\ rest' = 0
  /\ pc' = "idle"
  /\ UNCHANGED <<world, armed, ticket, held, paid, books>>

-------------------------------------------------------------------------------
(* The exit, of the position's quantity. *)

SellLimits == IF env.mode = "SIM" THEN {SimFillPrice} ELSE MarketableLimit("SELL", quote)

\* execute: the capital gate is asked for exits as well, and a refusal leaves the
\* machine in EXITING_POSITION.
PlaceExit ==
  /\ pc = "open"
  /\ IF kill \/ ~GateOpen(qty) \/ SellLimits = {}
     THEN pc' = "stuck" /\ UNCHANGED limit
     ELSE /\ pc' = "selling"
          /\ \E p \in SellLimits : limit' = [limit EXCEPT !.sell = p]
  /\ UNCHANGED <<world, armed, qty, est, sized, account, books>>

\* (exit_price - entry_price) * qty * 100, entry_price being cost / n a share.
RealizedPnl(price) ==
  ((price * position.n - position.cost) * position.qty * Multiplier) \div position.n

\* A fill closes the books: one trade is all this module follows.
CloseAt(price) ==
  /\ pc = "selling"
  /\ price >= limit.sell /\ price > 0
  /\ held' = held - position.qty
  /\ paid' = paid - position.qty * price
  /\ realized' = RealizedPnl(price)
  /\ position' = Flat
  /\ pc' = "closed"
  /\ UNCHANGED <<world, armed, ticket, rest>>

ClosePosition == CloseAt(IF env.mode = "SIM" THEN SimFillPrice ELSE quote.bid)

ExitUnfilled ==
  /\ pc = "selling" /\ env.mode # "SIM"
  /\ pc' = "open"
  /\ UNCHANGED <<world, armed, ticket, account, books>>

-------------------------------------------------------------------------------

WorldStep == MarketMoves \/ KillOn \/ RowMoves \/ TimePasses
EntryStep ==
  \/ \E q \in Quantities : Propose(q)
  \/ Arm \/ NoNeedToArm \/ RouteEntry \/ Size \/ SimEntry \/ Route \/ PlaceEntry
  \/ OpenPosition \/ EntryUnfilled
ExitStep == PlaceExit \/ ClosePosition \/ ExitUnfilled

DeskNext ==
  \/ WorldStep \/ EntryStep \/ ExitStep
  \/ \E n \in 1..rest : BrokerFills(n)

DeskSpec == DeskInit /\ [][DeskNext]_deskVars

-------------------------------------------------------------------------------
(* Properties. *)

\* The size that comes out of the chain of floor divisions is the largest one every
\* cap admits: ceiling, notional cap and, outside SIM, the daily loss
\* (position_sizing_authority.py:108-152).
Admissible(n) ==
  LET cost == PerContractCost(env.mode, est) IN
  /\ n <= qty /\ n <= ContractCap(env.mode)
  /\ n * cost <= NotionalCap(env.mode)
  /\ env.mode # "SIM" => n * cost <= MaxDailyLoss

SizeIsLargest ==
  pc \in {"route", "price", "working"} => Admissible(sized) /\ ~Admissible(sized + 1)

\* The cash of an entry exceeds the daily loss limit or the notional cap only when
\* the broker's limit, from the second quote and the buffer, is above the estimate
\* the size came from (position_sizing_authority.py:143: "a single trade must not be
\* able to exceed the daily-loss cap").
PaidWithinBudget ==
  env.mode # "SIM" =>
    paid * Multiplier <= Lesser(MaxNotional, MaxDailyLoss) \/ limit.buy > est

\* For the one contract the signal engine proposes, books and account agree: the
\* position is what the account holds, at what was paid, and after the exit the
\* realized result is the change in cash and nothing is held or owed
\* (execution_position_bridge.py:73, 130).  A larger order may be cut by the
\* sizing or filled in part, and the position then keeps the intent's quantity.
BooksMatchAccount ==
  qty = 1 =>
    /\ pc \in {"open", "selling"} =>
         held = position.qty /\ rest = 0 /\ position.cost = paid
    /\ pc = "closed" => held = 0 /\ rest = 0 /\ realized = -(paid * Multiplier)

\* Contracts at the broker or in the account.
Exposed == rest # 0 \/ held # 0

\* Contracts are ordered and held in CAPITAL only under OPS_ENV=PROD, with
\* attestations the stricter reading takes for yes, and within limits the operator
\* wrote down: no default of the router or of the sizing ever sizes a capital order,
\* though the gate of an order asks for neither OPS_ENV nor the limits and the
\* preflight that does runs once (capital_preflight.py:83-85, 111-122;
\* execution_router.py:39-43, "explicit + auditable, never silently widened").
CapitalAsDeclared ==
  (env.mode = "CAPITAL" /\ Exposed) =>
    /\ env.opsEnv = "PROD" /\ GateYes(env.armed) /\ GateYes(env.attested)
    /\ LimitsWritten(env.caps)
    /\ sized <= env.caps.contracts
    /\ sized * est * Multiplier <= Lesser(env.caps.notional, env.caps.loss)

\* Capital execution arms only where IBKR_ACCOUNT_ID is the key of the runtime's
\* row, and no order leaves unarmed (capital_preflight.py:87, 129;
\* ibkr_runtime.py:365).
ArmedUnderRowKey ==
  /\ armed => env.account = RowKey
  /\ (env.mode = "CAPITAL" /\ pc \in {"price", "working", "open"}) => armed
================================================================================
