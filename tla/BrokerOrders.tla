----------------------------- MODULE BrokerOrders -----------------------------
(***************************************************************************)
(* One-contract orders at Interactive Brokers, and what the runtime        *)
(* (broker/ibkr_runtime.py) has been told of them.  The broker itself is   *)
(* outside the repository: it works an order, fills it or cancels it, and  *)
(* reports through the orderStatus callback when the session is up.        *)
(* Filled and told are apart, since a fill is a fact at the broker before  *)
(* the callback records it in _order_fills.                                *)
(***************************************************************************)
EXTENDS Integers

CONSTANTS
  Slots,       \* order slots; a settled slot is used again (bound on live orders)
  LinkFaults   \* whether the session to TWS may drop

ASSUME BrokerAssumption == LinkFaults \in BOOLEAN

VARIABLES
  side,        \* side[s]: BUY or SELL
  st,          \* st[s]: where the order in slot s stands
  account,     \* contracts the account gained since this loop process started
  link         \* EClient.isConnected()

brokerVars == <<side, st, account, link>>

OrderSides == {"BUY", "SELL"}
OrderStates ==
  { "none",       \* slot never used
    "lost",       \* placeOrder on a closed socket: never reached the broker
    "working",    \* live at the broker
    "cancelling", \* live, with our cancel request on its way
    "cancelled",
    "filled",     \* executed, the runtime not told yet
    "told" }      \* executed, and recorded in _order_fills

Live(s) == st[s] \in {"working", "cancelling"}
Settled(s) == st[s] \in {"none", "lost", "cancelled", "told"}

BrokerTypeOK ==
  /\ side \in [Slots -> OrderSides]
  /\ st \in [Slots -> OrderStates]
  /\ account \in Int
  /\ link \in BOOLEAN

BrokerInit ==
  /\ side = [s \in Slots |-> "BUY"]
  /\ st = [s \in Slots |-> "none"]
  /\ account = 0
  /\ link = TRUE

\* placeOrder: ibapi answers a closed socket with error 504, not an exception.
PlaceOrder(s, d) ==
  /\ Settled(s)
  /\ st' = [st EXCEPT ![s] = IF link THEN "working" ELSE "lost"]
  /\ side' = [side EXCEPT ![s] = d]
  /\ UNCHANGED <<account, link>>

\* cancel_order never raises: on a closed socket the request is dropped.
CancelOrder(s) ==
  /\ st' = IF link /\ st[s] = "working"
           THEN [st EXCEPT ![s] = "cancelling"] ELSE st
  /\ UNCHANGED <<side, account, link>>

\* A cancel request does not stop an execution that is already under way.
BrokerFill(s) ==
  /\ Live(s)
  /\ st' = [st EXCEPT ![s] = "filled"]
  /\ account' = IF side[s] = "BUY" THEN account + 1 ELSE account - 1
  /\ UNCHANGED <<side, link>>

\* The broker rejects the order, or our cancel takes effect.
BrokerCancelled(s) ==
  /\ Live(s)
  /\ st' = [st EXCEPT ![s] = "cancelled"]
  /\ UNCHANGED <<side, account, link>>

\* The orderStatus callback.
OrderStatus(s) ==
  /\ st[s] = "filled"
  /\ link
  /\ st' = [st EXCEPT ![s] = "told"]
  /\ UNCHANGED <<side, account, link>>

LinkDrop ==
  /\ LinkFaults
  /\ link
  /\ link' = FALSE
  /\ UNCHANGED <<side, st, account>>

\* _reconnect restores the session and the account feed; it asks for no open
\* orders and no executions.
Reconnect ==
  /\ ~link
  /\ link' = TRUE
  /\ UNCHANGED <<side, st, account>>
===============================================================================
