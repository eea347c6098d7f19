----------------------------- MODULE IBKRSession -----------------------------
(***************************************************************************)
(* The broker session of the loop process (broker/ibkr_runtime.py) and the *)
(* balance row it keeps (capital/balance_store.py).  Four threads share    *)
(* it: the socket's callbacks, the reconnect watchdog, the snapshot thread *)
(* that copies the account summary into the store, and the loop thread     *)
(* that places orders.  TWS and the network are outside the repository.    *)
(***************************************************************************)
EXTENDS Integers, Sequences

CONSTANTS
  Tags,        \* the account tags a snapshot reads, in the order it reads them
  MaxBalance,  \* bound: times the balance at the broker changes
  MaxOrders    \* bound: orders placed

ASSUME SessionAssumption ==
  /\ Tags \in Seq(STRING) /\ Len(Tags) > 0
  /\ MaxBalance \in Nat /\ MaxOrders \in Nat

VARIABLES
  use,        \* bound: the traffic explored on the session, orders or account
  kill,       \* kill_active() in the loop process
  up,         \* EClient.isConnected()
  ibLink,     \* whether TWS reaches IB's servers
  healthy,    \* _connected
  ready,      \* _ready
  seed,       \* the order id nextValidId will bring, 0 when none is on its way
  dog,        \* the thread that (re)connects: constructor first, then watchdog
  sub,        \* TWS streams the account summary on this connection
  late,       \* history: the watchdog stopped waiting before this connection's nextValidId
  nextId,     \* _next_order_id, 0 for None
  brokerId,   \* one above the highest order id TWS has received
  working,    \* orders TWS has accepted and not reported yet
  fills,      \* _order_fills: order whose fill is recorded under an id, 0 for none
  cur,        \* the order the loop thread waits for, or NoOrder
  balance,    \* version of the balance at the broker
  push,       \* tags of the update TWS is delivering, and its version
  summary,    \* _acct_summary: version held under each tag, 0 for absent
  snap,       \* the snapshot thread: label and the tags read so far
  row,        \* balances row: version under each tag, and its age class
  afterBad,   \* history: rows written since the process was last live and healthy
  afterKill,  \* history: connections opened since the kill
  placed,     \* history: orders placed so far
  early,      \* history: some order was placed while a seed was on its way
  misread,    \* history: the loop took the fill of another order for its own
  moved       \* history: the snapshot being read, and the row, met a half update

socket == <<up, ibLink, healthy, ready, seed, dog, sub, late>>
orders == <<nextId, brokerId, working, fills, cur, placed, early, misread>>
account == <<balance, push, summary>>
store == <<snap, row, moved>>
sessionVars == <<use, kill, socket, orders, account, store, afterBad, afterKill>>

Uses == {"orders", "account"}
TagSet == {Tags[i] : i \in 1..Len(Tags)}
Version == 0..MaxBalance + 1
Blank == [t \in TagSet |-> 0]
OrderId == 1..MaxOrders + 1
NoOrder == [n |-> 0, id |-> 0]
Order == [n : 1..MaxOrders, id : OrderId]

\* Age classes of a row, after the limits of its readers on the trading path.
Fresh == 0
AgeLimit == [preflight |-> 0,   \* 60 s
             sizing    |-> 1]   \* 300 s, BALANCE_MAX_AGE_SEC
Oldest == 2
Asleep == [pc |-> "sleep", k |-> 0, vals |-> Blank]
NoRow == [vals |-> Blank, age |-> Oldest, any |-> FALSE]

Bad == kill \/ ~healthy
Torn(v) == \E s, t \in TagSet : v[s] # v[t]

SessionTypeOK ==
  /\ use \in Uses
  /\ {kill, up, ibLink, healthy, ready, sub, late, early, misread} \subseteq BOOLEAN
  /\ seed \in 0..MaxOrders + 1
  /\ dog \in {"none", "init", "sleep", "connect", "wait"}
  /\ nextId \in 0..MaxOrders + 2 /\ brokerId \in 1..MaxOrders + 2
  /\ working \subseteq Order
  /\ fills \in [OrderId -> 0..MaxOrders]
  /\ cur \in Order \cup {NoOrder} /\ placed \in 0..MaxOrders
  /\ balance \in 1..MaxBalance + 1
  /\ push \in [tags : SUBSET TagSet, v : Version]
  /\ summary \in [TagSet -> Version]
  /\ snap \in [pc : {"sleep", "read", "write"}, k : 0..Len(Tags), vals : [TagSet -> Version]]
  /\ row \in [vals : [TagSet -> Version], age : 0..Oldest, any : BOOLEAN]
  /\ moved \in [snap : BOOLEAN, row : BOOLEAN]
  /\ afterBad \in Nat /\ afterKill \in Nat

SessionInit ==
  /\ use \in Uses
  /\ kill = FALSE /\ ibLink = TRUE
  /\ up = FALSE /\ healthy = FALSE /\ ready = FALSE /\ seed = 0
  /\ dog = "none" /\ sub = FALSE /\ late = FALSE
  /\ nextId = 0 /\ brokerId = 1 /\ working = {} /\ cur = NoOrder
  /\ fills = [i \in OrderId |-> 0]
  /\ balance = 1 /\ push = [tags |-> {}, v |-> 0] /\ summary = Blank
  /\ snap = Asleep
  /\ row = NoRow
  /\ moved = [snap |-> FALSE, row |-> FALSE]
  /\ afterBad = 0 /\ afterKill = 0 /\ placed = 0 /\ early = FALSE /\ misread = FALSE

-------------------------------------------------------------------------------
(* The kill file appears and goes away. *)

\* Back to live and healthy, the count of late rows starts again.
Recovers(good) == afterBad' = IF good THEN 0 ELSE afterBad

KillOn ==
  /\ ~kill
  /\ kill' = TRUE
  /\ UNCHANGED <<use, socket, orders, account, store, afterBad, afterKill>>

KillOff ==
  /\ kill
  /\ kill' = FALSE
  /\ afterKill' = 0
  /\ Recovers(healthy)
  /\ UNCHANGED <<use, socket, orders, account, store>>

-------------------------------------------------------------------------------
(* Connecting: the constructor once, the watchdog ever after. *)

\* get_ibkr_runtime builds the one runtime; a constructor that raised left none.
Construct ==
  /\ dog = "none"
  /\ dog' = "init"
  /\ up' \in BOOLEAN
  /\ seed' = IF up' THEN brokerId ELSE 0
  /\ UNCHANGED <<use, kill, ibLink, healthy, ready, sub, late, orders, account, store, afterBad, afterKill>>

\* IBKR_RUNTIME_INIT_TIMEOUT.
InitTimeout ==
  /\ dog = "init" /\ ~ready
  /\ dog' = "none"
  /\ up' = FALSE /\ seed' = 0
  /\ UNCHANGED <<use, kill, ibLink, healthy, ready, sub, late, orders, account, store, afterBad, afterKill>>

\* Mutant: the watchdog does not ask whether the process is killed.
DogWakesAnyway ==
  /\ dog = "sleep" /\ ~up
  /\ ready' = FALSE /\ healthy' = FALSE
  /\ dog' = "connect"
  /\ UNCHANGED <<use, kill, up, ibLink, seed, sub, late, orders, account, store, afterBad, afterKill>>

\* _reconnect_loop finds the socket down in a process that is not killed, and
\* _reconnect forgets the session.
DogWakes ==
  /\ dog = "sleep"
  /\ ~up /\ ~kill
  /\ ready' = FALSE /\ healthy' = FALSE
  /\ dog' = "connect"
  /\ UNCHANGED <<use, kill, up, ibLink, seed, sub, late, orders, account, store, afterBad, afterKill>>

\* connect() starts the API session, which TWS answers with its next order id.
DogConnects ==
  /\ dog = "connect"
  /\ dog' = "wait"
  /\ up' \in BOOLEAN
  /\ seed' = IF up' THEN brokerId ELSE 0
  /\ afterKill' = IF kill /\ up' THEN afterKill + 1 ELSE afterKill
  /\ UNCHANGED <<use, kill, ibLink, healthy, ready, sub, late, orders, account, store, afterBad>>

\* Mutant: the reconnect does not ask for the account summary again.
DogReadyUnsubscribed ==
  /\ dog \in {"init", "wait"} /\ ready
  /\ dog' = "sleep"
  /\ sub' = (dog = "init" /\ up)
  /\ push' = IF sub' /\ use = "account" THEN [tags |-> TagSet, v |-> balance] ELSE push
  /\ UNCHANGED <<use, kill, up, ibLink, healthy, ready, seed, late, orders, balance, summary,
                 store, afterBad, afterKill>>

\* The wait for nextValidId ends well: subscribe.  A request on a socket that has
\* dropped meanwhile goes nowhere.
DogReady ==
  /\ dog \in {"init", "wait"} /\ ready
  /\ dog' = "sleep"
  /\ sub' = up
  /\ push' = IF up /\ use = "account" THEN [tags |-> TagSet, v |-> balance] ELSE push
  /\ UNCHANGED <<use, kill, up, ibLink, healthy, ready, seed, late, orders, balance, summary,
                 store, afterBad, afterKill>>

\* 15 s without nextValidId, which may be on its way all the same: the watchdog
\* goes back to sleep, and finds the socket up from then on.
DogTimeout ==
  /\ dog = "wait" /\ ~ready
  /\ dog' = "sleep"
  /\ late' = (seed # 0)
  /\ UNCHANGED <<use, kill, up, ibLink, healthy, ready, seed, sub, orders, account, store,
                 afterBad, afterKill>>

NextValidId ==
  /\ seed # 0
  /\ nextId' = seed
  /\ seed' = 0
  /\ healthy' = TRUE /\ ready' = TRUE
  /\ Recovers(~kill)
  /\ UNCHANGED <<use, kill, up, ibLink, dog, sub, late, brokerId, working, fills, cur, placed, early,
                 misread, account, store, afterKill>>

\* TWS goes away, with or without an error code the runtime listens to.
SocketDrop ==
  /\ up
  /\ up' = FALSE /\ sub' = FALSE /\ seed' = 0 /\ late' = FALSE
  /\ push' = [tags |-> {}, v |-> 0]
  /\ healthy' \in {healthy, FALSE}
  /\ UNCHANGED <<use, kill, ibLink, ready, dog, orders, balance, summary, store, afterBad, afterKill>>

\* error(1100), then 1101 or 1102.
ServersLost ==
  /\ up /\ ibLink
  /\ ibLink' = FALSE /\ healthy' = FALSE
  /\ UNCHANGED <<use, kill, up, ready, seed, dog, sub, late, orders, account, store, afterBad, afterKill>>

ServersBack ==
  /\ up /\ ~ibLink
  /\ ibLink' = TRUE /\ healthy' = TRUE
  /\ Recovers(~kill)
  /\ UNCHANGED <<use, kill, up, ready, seed, dog, sub, late, orders, account, store, afterKill>>

-------------------------------------------------------------------------------
(* Orders of the loop thread. *)

Constructed == dog \notin {"none", "init"}

\* Mutant: the sequence does not advance.
SameOrderId == nextId

\* Mutant: the id is taken and advanced in two places.
AdvancedTwice == nextId + 2

\* next_order_id().
AdvancedOrderId == nextId + 1

\* A socket that is down loses the order; an id at or below the last one TWS has
\* seen is refused as a duplicate.
PlaceNextOrder ==
  /\ use = "orders" /\ Constructed
  /\ cur = NoOrder /\ placed < MaxOrders
  /\ nextId \in OrderId
  /\ placed' = placed + 1
  /\ nextId' = AdvancedOrderId
  /\ cur' = [n |-> placed', id |-> nextId]
  /\ IF up /\ nextId >= brokerId
     THEN working' = working \cup {cur'} /\ brokerId' = nextId + 1
     ELSE UNCHANGED <<working, brokerId>>
  /\ early' = (early \/ seed # 0)
  /\ UNCHANGED <<use, kill, socket, fills, misread, account, store, afterBad, afterKill>>

\* orderStatus with a filled quantity, also for an order given up long ago.
OrderFilled(o) ==
  /\ o \in working /\ up
  /\ working' = working \ {o}
  /\ fills' = [fills EXCEPT ![o.id] = o.n]
  /\ UNCHANGED <<use, kill, socket, nextId, brokerId, cur, placed, early, misread, account,
                 store, afterBad, afterKill>>

\* wait_for_fill() returns a price, or its window closes.
FillTaken ==
  /\ cur # NoOrder /\ fills[cur.id] # 0
  /\ misread' = (misread \/ fills[cur.id] # cur.n)
  /\ cur' = NoOrder
  /\ UNCHANGED <<use, kill, socket, nextId, brokerId, working, fills, placed, early, account,
                 store, afterBad, afterKill>>

WindowCloses ==
  /\ cur # NoOrder /\ fills[cur.id] = 0
  /\ cur' = NoOrder
  /\ UNCHANGED <<use, kill, socket, nextId, brokerId, working, fills, placed, early, misread,
                 account, store, afterBad, afterKill>>

-------------------------------------------------------------------------------
(* The account summary, the snapshot thread and the stored row. *)

BalanceChanges ==
  /\ use = "account"
  /\ balance <= MaxBalance
  /\ balance' = balance + 1
  /\ UNCHANGED <<use, kill, socket, orders, push, summary, store, afterBad, afterKill>>

\* TWS sends the changed summary, tag after tag.
PushUpdate ==
  /\ use = "account"
  /\ sub /\ ibLink /\ push.tags = {} /\ push.v # balance
  /\ push' = [tags |-> TagSet, v |-> balance]
  /\ UNCHANGED <<use, kill, socket, orders, balance, summary, store, afterBad, afterKill>>

\* Mutant: a tag keeps its first value.
AccountSummaryKept(t) ==
  /\ use = "account"
  /\ t \in push.tags
  /\ summary' = [summary EXCEPT ![t] = IF @ = 0 THEN push.v ELSE @]
  /\ push' = [push EXCEPT !.tags = @ \ {t}]
  /\ moved' = [moved EXCEPT !.snap = TRUE]
  /\ UNCHANGED <<use, kill, socket, orders, balance, snap, row, afterBad, afterKill>>

AccountSummary(t) ==
  /\ use = "account"
  /\ t \in push.tags
  /\ summary' = [summary EXCEPT ![t] = push.v]
  /\ push' = [push EXCEPT !.tags = @ \ {t}]
  /\ moved' = [moved EXCEPT !.snap = TRUE]
  /\ UNCHANGED <<use, kill, socket, orders, balance, snap, row, afterBad, afterKill>>

\* Mutant: the loop writes whatever the state of the session.
HasFeedUnchecked == ~kill /\ summary # Blank

\* _snapshot_loop goes on past its checks: not killed, session healthy, a
\* currency seen, which every tag brings.
HasFeed == ~kill /\ healthy /\ summary # Blank

SnapCheck ==
  /\ Constructed /\ snap.pc = "sleep"
  /\ HasFeed
  /\ snap' = [pc |-> "read", k |-> 0, vals |-> Blank]
  /\ moved' = [moved EXCEPT !.snap = Torn(summary)]
  /\ UNCHANGED <<use, kill, socket, orders, account, row, afterBad, afterKill>>

\* Mutant: a tag that is missing is read as it stands.
SnapReadMissing ==
  /\ snap.pc = "read"
  /\ LET t == Tags[snap.k + 1] IN
       snap' = [pc |-> IF snap.k + 1 = Len(Tags) THEN "write" ELSE "read",
                k |-> snap.k + 1, vals |-> [snap.vals EXCEPT ![t] = summary[t]]]
  /\ UNCHANGED <<use, kill, socket, orders, account, row, moved, afterBad, afterKill>>

\* One tag of the snapshot; a missing one is a KeyError that ends the attempt.
SnapRead ==
  /\ snap.pc = "read"
  /\ LET t == Tags[snap.k + 1] IN
       snap' = IF summary[t] = 0 THEN Asleep
               ELSE [pc |-> IF snap.k + 1 = Len(Tags) THEN "write" ELSE "read",
                     k |-> snap.k + 1, vals |-> [snap.vals EXCEPT ![t] = summary[t]]]
  /\ UNCHANGED <<use, kill, socket, orders, account, row, moved, afterBad, afterKill>>

\* write_snapshot() replaces the row and stamps it with the time of writing.
SnapWrite ==
  /\ snap.pc = "write"
  /\ row' = [vals |-> snap.vals, age |-> Fresh, any |-> TRUE]
  /\ moved' = [moved EXCEPT !.row = moved.snap]
  /\ snap' = Asleep
  /\ afterBad' = IF Bad THEN afterBad + 1 ELSE 0
  /\ UNCHANGED <<use, kill, socket, orders, account, afterKill>>

\* sqlite raises, for instance on a locked database.
SnapFails ==
  /\ snap.pc = "write"
  /\ snap' = Asleep
  /\ UNCHANGED <<use, kill, socket, orders, account, row, moved, afterBad, afterKill>>

RowAges ==
  /\ row.any /\ row.age < Oldest
  /\ row' = [row EXCEPT !.age = @ + 1]
  /\ UNCHANGED <<use, kill, socket, orders, account, snap, moved, afterBad, afterKill>>

\* Mutant: the reader does not ask for the age.
AcceptsAnyAge(reader) == row.any

\* get_snapshot(): a missing or an old row raises.
Accepts(reader) == row.any /\ row.age <= AgeLimit[reader]

-------------------------------------------------------------------------------

KillStep == KillOn \/ KillOff
CallbackStep == NextValidId \/ \E t \in TagSet : AccountSummary(t)
DogStep == DogWakes \/ DogConnects \/ DogReady \/ DogTimeout
TwsStep == SocketDrop \/ ServersLost \/ ServersBack \/ BalanceChanges \/ PushUpdate
OrderStep == PlaceNextOrder \/ FillTaken \/ WindowCloses \/ \E o \in working : OrderFilled(o)
SnapStep == SnapCheck \/ SnapRead \/ SnapWrite \/ SnapFails

SessionNext ==
  \/ KillStep \/ Construct \/ InitTimeout \/ DogStep
  \/ CallbackStep \/ TwsStep \/ OrderStep \/ SnapStep \/ RowAges

\* Time passes, the threads run, TWS answers and streams, and no reader holds the database
\* locked for good.
SessionFairness ==
  /\ WF_sessionVars(DogStep) /\ WF_sessionVars(CallbackStep) /\ WF_sessionVars(PushUpdate)
  /\ WF_sessionVars(RowAges)
  /\ WF_sessionVars(SnapCheck \/ SnapRead) /\ SF_sessionVars(SnapWrite)

SessionSpec == SessionInit /\ [][SessionNext]_sessionVars /\ SessionFairness

-------------------------------------------------------------------------------
(* Properties. *)

\* A killed, or unhealthy, session writes at most the one balance row already past
\* its checks, so every reader's age limit runs out
\* (ibkr_runtime.py:352-357, 379: "Fail closed by staleness").
OneRowAfterBad == afterBad <= 1

\* The watchdog opens at most the one connection already past its kill check
\* (ibkr_runtime.py:388: "never re-establishes autonomy while halted").
OneConnectAfterKill == afterKill <= 1

\* A stored row has every tag, and mixes two updates of the account only if the
\* summary did while the row was read (ibkr_runtime.py:364-371).
RowIsWhole ==
  row.any => /\ \A t \in TagSet : row.vals[t] # 0
             /\ Torn(row.vals) => moved.row

\* The loop takes the fill of another order for its own only when some order was
\* placed between a reconnect and its nextValidId, which sets the sequence back
\* below the id just used (ibkr_runtime.py:149, 222).
FillIsItsOwn == misread => early

\* A session that stays killed or unhealthy starves its readers: in the end the row
\* is too old for all of them (ibkr_runtime.py:379: "Fail closed by staleness").
BadStarves ==
  (<>[]Bad) => <>[](\A reader \in DOMAIN AgeLimit : ~Accepts(reader))

\* A session that stays connected streams the account again (ibkr_runtime.py:402:
\* "re-subscribe the streaming account feed"), with one exception: nextValidId is
\* still on its way when the 15 s are over.  Nothing subscribes after that, though
\* :421 logs "timed out waiting for nextValidId; will retry".
Resubscribes == up ~> (sub \/ ~up \/ late)

\* A balance the broker streams reaches the stored row, unless the session or the
\* process goes bad on the way (ibkr_runtime.py:342).
Streaming == use = "account" /\ sub /\ ibLink /\ ~Bad
BalanceReachesRow ==
  \A v \in 1..MaxBalance + 1 :
    (Streaming /\ balance = v) ~> (~Streaming \/ \A t \in TagSet : row.vals[t] >= v)
===============================================================================
