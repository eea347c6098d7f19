-------------------------- MODULE IBKRSessionProofs --------------------------
(***************************************************************************)
(* What TLAPS proves of IBKRSession for every list of tags and every       *)
(* bound: its types, the one row and the one connection a kill or a bad    *)
(* session still admits, that no stored row lacks a tag or is torn by the  *)
(* snapshot alone, and that ids are only reused when an order was placed   *)
(* before the seed of a new connection arrived.                            *)
(***************************************************************************)
EXTENDS IBKRSession, TLAPS

USE DEF socket, orders, account, store

-------------------------------------------------------------------------------
(* The watchdog and the kill. *)

\* Whoever is past the kill check has connected nowhere since the kill.
ConnectInv ==
  /\ afterKill \in {0, 1}
  /\ ~kill \/ dog = "connect" => afterKill = 0

\* While the process is killed the watchdog opens at most the connection it had
\* already decided on, whatever the socket, TWS and the other threads do
\* (_reconnect_loop and _reconnect).
THEOREM WatchdogStops == SessionSpec => []OneConnectAfterKill
<1>1. SessionInit => ConnectInv
  BY DEF SessionInit, ConnectInv
<1>2. ConnectInv /\ [SessionNext]_sessionVars => ConnectInv'
  <2> SUFFICES ASSUME ConnectInv, [SessionNext]_sessionVars PROVE ConnectInv'
    OBVIOUS
  <2> USE DEF ConnectInv
  <2>1. CASE KillStep
    BY <2>1 DEF KillStep, KillOn, KillOff
  <2>2. CASE Construct \/ InitTimeout
    BY <2>2 DEF Construct, InitTimeout
  <2>3. CASE DogStep
    BY <2>3 DEF DogStep, DogWakes, DogConnects, DogReady, DogTimeout
  <2>4. CASE CallbackStep
    BY <2>4 DEF CallbackStep, NextValidId, AccountSummary
  <2>5. CASE TwsStep
    BY <2>5 DEF TwsStep, SocketDrop, ServersLost, ServersBack, BalanceChanges, PushUpdate
  <2>6. CASE OrderStep
    BY <2>6 DEF OrderStep, PlaceNextOrder, OrderFilled, FillTaken, WindowCloses
  <2>7. CASE SnapStep \/ RowAges
    BY <2>7 DEF SnapStep, SnapCheck, SnapRead, SnapWrite, SnapFails, RowAges
  <2>8. CASE UNCHANGED sessionVars
    BY <2>8 DEF sessionVars
  <2> QED
    BY <2>1, <2>2, <2>3, <2>4, <2>5, <2>6, <2>7, <2>8 DEF SessionNext
<1>3. ConnectInv => OneConnectAfterKill
  BY DEF ConnectInv, OneConnectAfterKill
<1> QED
  BY <1>1, <1>2, <1>3, PTL DEF SessionSpec

-------------------------------------------------------------------------------
(* The snapshot thread and the state of the session. *)

\* A snapshot under way in a bad session is the first since it went bad.
RowsInv ==
  /\ afterBad \in {0, 1}
  /\ ~Bad \/ snap.pc # "sleep" => afterBad = 0
  /\ snap.pc \in {"sleep", "read", "write"}

\* A killed or unhealthy session stores at most one more balance: what the
\* snapshot thread had begun when it was still good (_snapshot_loop).
THEOREM RowsStop == SessionSpec => []OneRowAfterBad
<1> USE DEF Bad, Asleep
<1>1. SessionInit => RowsInv
  <2>1. SessionInit => afterBad = 0 /\ snap.pc = "sleep"
    BY DEF SessionInit
  <2> QED
    BY <2>1 DEF RowsInv
<1>2. RowsInv /\ [SessionNext]_sessionVars => RowsInv'
  <2> SUFFICES ASSUME RowsInv, [SessionNext]_sessionVars PROVE RowsInv'
    OBVIOUS
  <2> USE DEF RowsInv
  <2>1. CASE KillStep
    BY <2>1 DEF KillStep, KillOn, KillOff, Recovers
  <2>2. CASE Construct \/ InitTimeout
    BY <2>2 DEF Construct, InitTimeout
  <2>3. CASE DogStep
    BY <2>3 DEF DogStep, DogWakes, DogConnects, DogReady, DogTimeout
  <2>4. CASE CallbackStep
    BY <2>4 DEF CallbackStep, NextValidId, AccountSummary, Recovers
  <2>5. CASE TwsStep
    <3>1. CASE SocketDrop
      <4>1. UNCHANGED <<kill, snap, afterBad>>
        BY <3>1 DEF SocketDrop
      <4>2. healthy' = healthy \/ healthy' = FALSE
        BY <3>1 DEF SocketDrop
      <4>3. healthy' => healthy
        BY <4>2, Zenon
      <4> QED
        BY <4>1, <4>3
    <3> QED
      BY <2>5, <3>1 DEF TwsStep, ServersLost, ServersBack, BalanceChanges, PushUpdate, Recovers
  <2>6. CASE OrderStep
    BY <2>6 DEF OrderStep, PlaceNextOrder, OrderFilled, FillTaken, WindowCloses
  <2>7. CASE SnapCheck
    BY <2>7 DEF SnapCheck, HasFeed
  <2>8. CASE SnapRead
    <3>1. snap'.pc \in {"sleep", "read", "write"}
      BY <2>8 DEF SnapRead
    <3> QED
      BY <2>8, <3>1 DEF SnapRead
  <2>9. CASE SnapWrite \/ SnapFails \/ RowAges
    BY <2>9 DEF SnapWrite, SnapFails, RowAges
  <2>10. CASE UNCHANGED sessionVars
    BY <2>10 DEF sessionVars
  <2> QED
    BY <2>1, <2>2, <2>3, <2>4, <2>5, <2>6, <2>7, <2>8, <2>9, <2>10 DEF SessionNext, SnapStep
<1>3. RowsInv => OneRowAfterBad
  BY DEF RowsInv, OneRowAfterBad
<1> QED
  BY <1>1, <1>2, <1>3, PTL DEF SessionSpec

-------------------------------------------------------------------------------
(* What the snapshot thread stores. *)

\* The tags read so far are there, and they are the summary's as long as no update
\* was under way since the first was read.
SnapInv ==
  /\ snap.pc \in {"sleep", "read", "write"}
  /\ snap.k \in 0..Len(Tags)
  /\ snap.pc = "read" => snap.k < Len(Tags)
  /\ snap.pc = "write" => snap.k = Len(Tags)
  /\ DOMAIN snap.vals = TagSet
  /\ \A j \in 1..snap.k : snap.vals[Tags[j]] # 0
  /\ snap.pc # "sleep" /\ ~moved.snap =>
       /\ ~Torn(summary)
       /\ \A j \in 1..snap.k : snap.vals[Tags[j]] = summary[Tags[j]]

MovedTyped == DOMAIN moved = {"snap", "row"} /\ moved = [snap |-> moved.snap, row |-> moved.row]

WholeInv == SnapInv /\ MovedTyped /\ RowIsWhole

\* Tags is a list, and not an empty one.
LEMMA TagsListed ==
  /\ Len(Tags) \in Nat \ {0}
  /\ \A j \in 1..Len(Tags) : Tags[j] \in TagSet
BY SessionAssumption DEF TagSet

\* Nothing is read while the thread sleeps.
LEMMA AsleepSnap == snap' = Asleep /\ UNCHANGED summary => SnapInv'
<1> SUFFICES ASSUME snap' = Asleep, UNCHANGED summary PROVE SnapInv'
  OBVIOUS
<1> QED
  BY TagsListed DEF SnapInv, Asleep, Blank

\* One tag more, or the end of the attempt where it is missing.
LEMMA SnapReads == SnapInv /\ SnapRead => SnapInv'
<1> SUFFICES ASSUME SnapInv, SnapRead PROVE SnapInv'
  OBVIOUS
<1> DEFINE t == Tags[snap.k + 1]
<1>1. snap.pc = "read" /\ snap.k \in Nat /\ snap.k + 1 \in 1..Len(Tags) /\ t \in TagSet
  BY TagsListed DEF SnapInv, SnapRead
<1>2. UNCHANGED <<summary, moved>>
  BY DEF SnapRead
<1>3. CASE summary[t] = 0
  BY <1>2, <1>3, AsleepSnap DEF SnapRead
<1>4. CASE summary[t] # 0
  <2>1. /\ snap'.pc = IF snap.k + 1 = Len(Tags) THEN "write" ELSE "read"
        /\ snap'.k = snap.k + 1
        /\ snap'.vals = [snap.vals EXCEPT ![t] = summary[t]]
    BY <1>4 DEF SnapRead
  <2>2. \A j \in 1..snap.k : Tags[j] \in TagSet
    BY TagsListed DEF SnapInv
  <2>3. ASSUME NEW j \in 1..snap'.k PROVE snap'.vals[Tags[j]] # 0
    <3>1. j \in 1..snap.k \/ j = snap.k + 1
      BY <2>1, <1>1
    <3> QED
      BY <1>1, <1>4, <2>1, <2>2, <3>1 DEF SnapInv
  <2>4. ASSUME ~moved.snap, NEW j \in 1..snap'.k PROVE snap'.vals[Tags[j]] = summary[Tags[j]]
    <3>1. j \in 1..snap.k \/ j = snap.k + 1
      BY <2>1, <1>1
    <3> QED
      BY <1>1, <2>1, <2>2, <2>4, <3>1 DEF SnapInv
  <2>5. snap'.k \in 0..Len(Tags) /\ (snap'.pc = "read" => snap'.k < Len(Tags))
        /\ (snap'.pc = "write" => snap'.k = Len(Tags)) /\ snap'.pc \in {"read", "write"}
    BY <1>1, <2>1, TagsListed
  <2> QED
    BY <1>1, <1>2, <2>1, <2>3, <2>4, <2>5 DEF SnapInv, Torn
<1> QED
  BY <1>3, <1>4

\* The row that is written has every tag, and is torn only if the summary moved.
LEMMA SnapWrites == WholeInv /\ SnapWrite => RowIsWhole'
<1> SUFFICES ASSUME WholeInv, SnapWrite PROVE RowIsWhole'
  OBVIOUS
<1> USE DEF WholeInv, SnapInv, MovedTyped
<1>1. row'.vals = snap.vals /\ moved'.row = moved.snap /\ snap.pc = "write"
  BY DEF SnapWrite
<1>2. \A t \in TagSet : \E j \in 1..snap.k : t = Tags[j]
  BY <1>1 DEF TagSet
<1>3. \A t \in TagSet : row'.vals[t] # 0
  BY <1>1, <1>2
<1>4. ASSUME ~moved.snap PROVE ~Torn(row'.vals)
  <2>1. \A t \in TagSet : row'.vals[t] = summary[t]
    BY <1>1, <1>2, <1>4
  <2> QED
    BY <1>1, <1>4, <2>1 DEF Torn
<1> QED
  BY <1>1, <1>3, <1>4 DEF RowIsWhole

\* Neither a step of the snapshot thread nor one of the others breaks it.
LEMMA WholeInductive == SessionSpec => []WholeInv
<1>1. SessionInit => WholeInv
  <2> SUFFICES ASSUME SessionInit PROVE WholeInv
    OBVIOUS
  <2>1. snap = Asleep /\ row = NoRow /\ moved = [snap |-> FALSE, row |-> FALSE]
    BY DEF SessionInit
  <2> QED
    BY <2>1, TagsListed DEF WholeInv, SnapInv, MovedTyped, RowIsWhole, Asleep, NoRow, Blank
<1>2. WholeInv /\ [SessionNext]_sessionVars => WholeInv'
  <2> SUFFICES ASSUME WholeInv, [SessionNext]_sessionVars PROVE WholeInv'
    OBVIOUS
  <2>1. ASSUME UNCHANGED <<snap, row, moved, summary>> PROVE WholeInv'
    BY <2>1 DEF WholeInv, SnapInv, MovedTyped, RowIsWhole, Torn
  <2>2. CASE KillStep \/ Construct \/ InitTimeout \/ DogStep
    BY <2>1, <2>2 DEF KillStep, KillOn, KillOff, Construct, InitTimeout, DogStep, DogWakes,
      DogConnects, DogReady, DogTimeout
  <2>3. CASE NextValidId \/ OrderStep
    BY <2>1, <2>3 DEF NextValidId, OrderStep, PlaceNextOrder, OrderFilled, FillTaken, WindowCloses
  <2>4. CASE TwsStep
    BY <2>1, <2>4 DEF TwsStep, SocketDrop, ServersLost, ServersBack, BalanceChanges, PushUpdate
  <2>5. ASSUME NEW t \in TagSet, AccountSummary(t) PROVE WholeInv'
    <3>1. UNCHANGED <<snap, row>> /\ moved' = [moved EXCEPT !.snap = TRUE]
      BY <2>5 DEF AccountSummary
    <3> QED
      BY <3>1 DEF WholeInv, SnapInv, MovedTyped, RowIsWhole, Torn
  <2>6. CASE SnapCheck
    <3>1. snap' = [pc |-> "read", k |-> 0, vals |-> Blank] /\ UNCHANGED <<row, summary>>
          /\ moved' = [moved EXCEPT !.snap = Torn(summary)]
      BY <2>6 DEF SnapCheck
    <3>2. MovedTyped' /\ moved'.row = moved.row /\ moved'.snap = Torn(summary)
      BY <3>1 DEF WholeInv, MovedTyped
    <3>3. SnapInv'
      BY <3>1, <3>2, TagsListed DEF SnapInv, Blank, Torn
    <3> QED
      BY <3>1, <3>2, <3>3 DEF WholeInv, RowIsWhole, Torn
  <2>7. CASE SnapRead
    <3>1. UNCHANGED <<row, moved>>
      BY <2>7 DEF SnapRead
    <3> QED
      BY <2>7, <3>1, SnapReads DEF WholeInv, MovedTyped, RowIsWhole, Torn
  <2>8. CASE SnapWrite
    <3>1. snap' = Asleep /\ UNCHANGED summary /\ moved' = [moved EXCEPT !.row = moved.snap]
      BY <2>8 DEF SnapWrite
    <3> QED
      BY <2>8, <3>1, AsleepSnap, SnapWrites DEF WholeInv, MovedTyped
  <2>9. CASE SnapFails
    <3>1. snap' = Asleep /\ UNCHANGED <<row, moved, summary>>
      BY <2>9 DEF SnapFails
    <3> QED
      BY <3>1, AsleepSnap DEF WholeInv, MovedTyped, RowIsWhole, Torn
  <2>10. CASE RowAges
    <3>1. UNCHANGED <<snap, moved, summary>> /\ row' = [row EXCEPT !.age = @ + 1]
      BY <2>10 DEF RowAges
    <3> QED
      BY <3>1 DEF WholeInv, SnapInv, MovedTyped, RowIsWhole, Torn
  <2>11. CASE UNCHANGED sessionVars
    BY <2>1, <2>11 DEF sessionVars
  <2> QED
    BY <2>2, <2>3, <2>4, <2>5, <2>6, <2>7, <2>8, <2>9, <2>10, <2>11
      DEF SessionNext, CallbackStep, SnapStep
<1> QED
  BY <1>1, <1>2, PTL DEF SessionSpec

\* Every stored balance row has all its tags, and mixes two updates only where the
\* summary itself was being updated while it was read (_snapshot_loop, accountSummary).
THEOREM RowsAreWhole == SessionSpec => []RowIsWhole
<1>1. WholeInv => RowIsWhole
  BY DEF WholeInv
<1> QED
  BY <1>1, WholeInductive, PTL

-------------------------------------------------------------------------------
(* Order ids. *)

\* Ids are no more than the orders placed.
IdsTyped ==
  /\ {brokerId, placed} \subseteq Nat /\ {nextId, seed} \subseteq Nat
  /\ placed <= MaxOrders
  /\ brokerId \in 1..placed + 1 /\ nextId <= placed + 1 /\ seed <= placed + 1
  /\ working \subseteq Order
  /\ fills \in [OrderId -> 0..MaxOrders]
  /\ cur \in Order \cup {NoOrder}

\* Until an order is placed ahead of a seed, the id the runtime will use next is one
\* that TWS has not seen, and what is recorded under the id of the order it waits for
\* is that order's.
IdsFresh ==
  /\ seed # 0 => seed = brokerId
  /\ nextId # 0 => nextId >= brokerId
  /\ \A o \in working : o.id < brokerId
  /\ \A i \in OrderId : fills[i] # 0 => i < brokerId
  /\ cur # NoOrder =>
       /\ fills[cur.id] \in {0, cur.n}
       /\ \A o \in working : o.id = cur.id => o.n = cur.n
  /\ ~misread

IdsInv == IdsTyped /\ (early \/ IdsFresh)

\* A step of the connection: the seed is that of the id TWS has reached, or gone.
LEMMA SeedStep ==
  ASSUME IdsInv, UNCHANGED orders, seed' \in {seed, 0, brokerId}
  PROVE  IdsInv'
BY DEF IdsInv, IdsTyped, IdsFresh

\* nextValidId: the sequence starts again where TWS is.
LEMMA Seeded == IdsInv /\ NextValidId => IdsInv'
<1> SUFFICES ASSUME IdsInv, NextValidId PROVE IdsInv'
  OBVIOUS
<1>1. /\ nextId' = seed /\ seed' = 0 /\ seed # 0
      /\ UNCHANGED <<brokerId, working, fills, cur, placed, early, misread>>
  BY DEF NextValidId
<1> QED
  BY <1>1 DEF IdsInv, IdsTyped, IdsFresh

\* An order takes an id TWS has not seen, unless a seed is on its way.
LEMMA Ordered == IdsInv /\ PlaceNextOrder => IdsInv'
<1> SUFFICES ASSUME IdsInv, PlaceNextOrder PROVE IdsInv'
  OBVIOUS
<1> USE SessionAssumption DEF IdsInv, IdsTyped
<1>1. /\ cur = NoOrder /\ placed < MaxOrders /\ nextId \in OrderId
      /\ placed' = placed + 1 /\ nextId' = nextId + 1
      /\ cur' = [n |-> placed + 1, id |-> nextId]
      /\ UNCHANGED <<seed, fills, misread>>
  BY DEF PlaceNextOrder, AdvancedOrderId
<1>2. \/ UNCHANGED <<working, brokerId>>
      \/ working' = working \cup {cur'} /\ brokerId' = nextId + 1 /\ nextId >= brokerId
  BY DEF PlaceNextOrder
<1>3. nextId \in Nat \ {0} /\ cur' \in Order /\ cur'.n = placed + 1 /\ cur'.id = nextId
  BY <1>1 DEF OrderId, Order
<1>4. IdsTyped'
  BY <1>1, <1>2, <1>3
<1>5. CASE early \/ seed # 0
  <2>1. early'
    BY <1>5 DEF PlaceNextOrder
  <2> QED
    BY <1>4, <2>1
<1>6. CASE ~early /\ seed = 0
  <2>1. IdsFresh /\ nextId >= brokerId
    BY <1>3, <1>6 DEF IdsFresh
  <2>2. fills[nextId] = 0 /\ \A o \in working : o.id # nextId
    BY <1>1, <2>1 DEF IdsFresh, Order, OrderId
  <2>3. brokerId' \in Nat /\ brokerId' >= brokerId /\ nextId' >= brokerId'
    BY <1>2, <1>1, <2>1, <1>3
  <2>4. ASSUME NEW o \in working' PROVE o.id < brokerId' /\ (o.id = cur'.id => o.n = cur'.n)
    <3>1. CASE o \in working
      BY <1>3, <2>1, <2>2, <2>3, <3>1 DEF IdsFresh, Order, OrderId
    <3>2. CASE o \notin working
      BY <1>2, <1>3, <2>4, <3>2
    <3> QED
      BY <3>1, <3>2
  <2>5. ASSUME NEW i \in OrderId, fills'[i] # 0 PROVE i < brokerId'
    BY <1>1, <2>1, <2>3, <2>5 DEF IdsFresh, OrderId
  <2>6. fills'[cur'.id] = 0 /\ seed' = 0 /\ ~misread'
    BY <1>1, <1>3, <1>6, <2>1, <2>2 DEF IdsFresh
  <2> QED
    BY <1>4, <2>3, <2>4, <2>5, <2>6 DEF IdsFresh
<1> QED
  BY <1>5, <1>6

\* A fill is recorded under the id of an order TWS accepted.
LEMMA Reported == ASSUME NEW o \in working, IdsInv, OrderFilled(o) PROVE IdsInv'
<1> USE DEF IdsInv, IdsTyped
<1>1. /\ working' = working \ {o} /\ fills' = [fills EXCEPT ![o.id] = o.n]
      /\ UNCHANGED <<seed, nextId, brokerId, cur, placed, early, misread>>
  BY DEF OrderFilled
<1>2. o.id \in OrderId /\ o.n \in 1..MaxOrders
  BY DEF Order
<1>3. IdsTyped'
  BY <1>1, <1>2, SessionAssumption
<1>4. ASSUME IdsFresh PROVE IdsFresh'
  <2>1. \A i \in OrderId : fills'[i] = IF i = o.id THEN o.n ELSE fills[i]
    BY <1>1
  <2>2. \A i \in OrderId : fills'[i] # 0 => i < brokerId'
    BY <1>1, <1>4, <2>1 DEF IdsFresh
  <2>3. ASSUME cur' # NoOrder
        PROVE  fills'[cur'.id] \in {0, cur'.n} /\ \A w \in working' : w.id = cur'.id => w.n = cur'.n
    <3>1. cur \in Order /\ cur.id \in OrderId
      BY <1>1, <2>3 DEF Order
    <3> QED
      BY <1>1, <1>4, <2>1, <2>3, <3>1 DEF IdsFresh
  <2> QED
    BY <1>1, <1>4, <2>2, <2>3 DEF IdsFresh
<1> QED
  BY <1>1, <1>3, <1>4

\* The end of a window.
LEMMA Awaited == IdsInv /\ (FillTaken \/ WindowCloses) => IdsInv'
<1> SUFFICES ASSUME IdsInv, FillTaken \/ WindowCloses PROVE IdsInv'
  OBVIOUS
<1>1. cur' = NoOrder /\ UNCHANGED <<seed, nextId, brokerId, working, fills, placed, early>>
  BY DEF FillTaken, WindowCloses
<1>2. IdsFresh => ~misread'
  <2> SUFFICES ASSUME IdsFresh PROVE ~misread'
    OBVIOUS
  <2>1. ~misread /\ cur # NoOrder /\ fills[cur.id] \in {0, cur.n}
    BY DEF IdsFresh, FillTaken, WindowCloses
  <2> QED
    BY <2>1 DEF FillTaken, WindowCloses
<1> QED
  BY <1>1, <1>2 DEF IdsInv, IdsTyped, IdsFresh

\* Both parts hold throughout.
LEMMA IdsInductive == SessionSpec => []IdsInv
<1>1. SessionInit => IdsInv
  <2> SUFFICES ASSUME SessionInit PROVE IdsInv
    OBVIOUS
  <2>1. /\ nextId = 0 /\ seed = 0 /\ brokerId = 1 /\ placed = 0 /\ working = {} /\ cur = NoOrder
        /\ fills = [i \in OrderId |-> 0]
    BY DEF SessionInit
  <2>2. ~misread
    BY DEF SessionInit
  <2> QED
    BY <2>1, <2>2, SessionAssumption DEF IdsInv, IdsTyped, IdsFresh
<1>2. IdsInv /\ [SessionNext]_sessionVars => IdsInv'
  <2> SUFFICES ASSUME IdsInv, [SessionNext]_sessionVars PROVE IdsInv'
    OBVIOUS
  <2>1. CASE KillStep
    BY <2>1, SeedStep DEF KillStep, KillOn, KillOff
  <2>2. CASE Construct \/ InitTimeout
    BY <2>2, SeedStep DEF Construct, InitTimeout
  <2>3. CASE DogStep
    BY <2>3, SeedStep DEF DogStep, DogWakes, DogConnects, DogReady, DogTimeout
  <2>4. CASE NextValidId
    BY <2>4, Seeded
  <2>5. CASE \E t \in TagSet : AccountSummary(t)
    BY <2>5, SeedStep DEF AccountSummary
  <2>6. CASE TwsStep
    BY <2>6, SeedStep DEF TwsStep, SocketDrop, ServersLost, ServersBack, BalanceChanges, PushUpdate
  <2>7. CASE OrderStep
    BY <2>7, Ordered, Reported, Awaited DEF OrderStep
  <2>8. CASE SnapStep \/ RowAges
    BY <2>8, SeedStep DEF SnapStep, SnapCheck, SnapRead, SnapWrite, SnapFails, RowAges
  <2>9. CASE UNCHANGED sessionVars
    BY <2>9, SeedStep DEF sessionVars
  <2> QED
    BY <2>1, <2>2, <2>3, <2>4, <2>5, <2>6, <2>7, <2>8, <2>9 DEF SessionNext, CallbackStep
<1> QED
  BY <1>1, <1>2, PTL DEF SessionSpec

\* The loop takes the fill of another order for its own only if some order was placed
\* between a connection and its nextValidId (next_order_id, nextValidId, fill_price).
THEOREM FillsAreOwn == SessionSpec => []FillIsItsOwn
<1>1. IdsInv => FillIsItsOwn
  BY DEF IdsInv, IdsFresh, FillIsItsOwn
<1> QED
  BY <1>1, IdsInductive, PTL

-------------------------------------------------------------------------------
(* Types. *)

FlagsTyped ==
  /\ use \in Uses
  /\ {kill, up, ibLink, healthy, ready, sub, late, early, misread} \subseteq BOOLEAN
  /\ dog \in {"none", "init", "sleep", "connect", "wait"}

AccountTyped ==
  /\ balance \in 1..MaxBalance + 1
  /\ push \in [tags : SUBSET TagSet, v : Version]
  /\ summary \in [TagSet -> Version]

StoreTyped ==
  /\ snap \in [pc : {"sleep", "read", "write"}, k : 0..Len(Tags), vals : [TagSet -> Version]]
  /\ row \in [vals : [TagSet -> Version], age : 0..Oldest, any : BOOLEAN]
  /\ moved \in [snap : BOOLEAN, row : BOOLEAN]

CountsTyped == afterBad \in Nat /\ afterKill \in Nat

\* Flags and labels keep their values.
LEMMA FlagsKept == FlagsTyped /\ [SessionNext]_sessionVars => FlagsTyped'
<1> SUFFICES ASSUME FlagsTyped, [SessionNext]_sessionVars PROVE FlagsTyped'
  OBVIOUS
<1> USE DEF FlagsTyped
<1>1. CASE KillStep
  BY <1>1 DEF KillStep, KillOn, KillOff
<1>2. CASE Construct \/ InitTimeout
  BY <1>2 DEF Construct, InitTimeout
<1>3. CASE DogStep
  BY <1>3 DEF DogStep, DogWakes, DogConnects, DogReady, DogTimeout
<1>4. CASE CallbackStep
  BY <1>4 DEF CallbackStep, NextValidId, AccountSummary
<1>5. CASE TwsStep
  BY <1>5 DEF TwsStep, SocketDrop, ServersLost, ServersBack, BalanceChanges, PushUpdate
<1>6. CASE OrderStep
  BY <1>6 DEF OrderStep, PlaceNextOrder, OrderFilled, FillTaken, WindowCloses
<1>7. CASE SnapStep \/ RowAges
  BY <1>7 DEF SnapStep, SnapCheck, SnapRead, SnapWrite, SnapFails, RowAges
<1>8. CASE UNCHANGED sessionVars
  BY <1>8 DEF sessionVars
<1> QED
  BY <1>1, <1>2, <1>3, <1>4, <1>5, <1>6, <1>7, <1>8 DEF SessionNext

\* Versions are those of the account.
LEMMA AccountKept == AccountTyped /\ [SessionNext]_sessionVars => AccountTyped'
<1> SUFFICES ASSUME AccountTyped, [SessionNext]_sessionVars PROVE AccountTyped'
  OBVIOUS
<1> USE SessionAssumption DEF AccountTyped, Version
<1>1. CASE KillStep \/ Construct \/ InitTimeout \/ NextValidId
  BY <1>1 DEF KillStep, KillOn, KillOff, Construct, InitTimeout, NextValidId
<1>2. CASE DogStep
  BY <1>2 DEF DogStep, DogWakes, DogConnects, DogReady, DogTimeout
<1>3. ASSUME NEW t \in TagSet, AccountSummary(t) PROVE AccountTyped'
  BY <1>3 DEF AccountSummary
<1>4. CASE TwsStep
  <2>1. CASE SocketDrop
    BY <2>1 DEF SocketDrop
  <2>2. CASE ServersLost \/ ServersBack
    BY <2>2 DEF ServersLost, ServersBack
  <2>3. CASE BalanceChanges
    BY <2>3 DEF BalanceChanges
  <2>4. CASE PushUpdate
    BY <2>4 DEF PushUpdate
  <2> QED
    BY <1>4, <2>1, <2>2, <2>3, <2>4 DEF TwsStep
<1>5. CASE OrderStep
  BY <1>5 DEF OrderStep, PlaceNextOrder, OrderFilled, FillTaken, WindowCloses
<1>6. CASE SnapStep \/ RowAges
  BY <1>6 DEF SnapStep, SnapCheck, SnapRead, SnapWrite, SnapFails, RowAges
<1>7. CASE UNCHANGED sessionVars
  BY <1>7 DEF sessionVars
<1> QED
  BY <1>1, <1>2, <1>3, <1>4, <1>5, <1>6, <1>7 DEF SessionNext, CallbackStep

\* A snapshot reads no further than the tags go.
LEMMA StoreKept ==
  StoreTyped /\ AccountTyped /\ SnapInv /\ [SessionNext]_sessionVars => StoreTyped'
<1> SUFFICES ASSUME StoreTyped, AccountTyped, SnapInv, [SessionNext]_sessionVars
             PROVE  StoreTyped'
  OBVIOUS
<1> USE DEF StoreTyped
<1>0. Blank \in [TagSet -> Version]
  BY SessionAssumption DEF Blank, Version
<1>1. ASSUME UNCHANGED <<snap, row, moved>> PROVE StoreTyped'
  BY <1>1
<1>2. CASE KillStep \/ Construct \/ InitTimeout \/ DogStep
  BY <1>1, <1>2 DEF KillStep, KillOn, KillOff, Construct, InitTimeout, DogStep, DogWakes,
    DogConnects, DogReady, DogTimeout
<1>3. CASE NextValidId \/ OrderStep
  BY <1>1, <1>3 DEF NextValidId, OrderStep, PlaceNextOrder, OrderFilled, FillTaken, WindowCloses
<1>4. CASE TwsStep
  BY <1>1, <1>4 DEF TwsStep, SocketDrop, ServersLost, ServersBack, BalanceChanges, PushUpdate
<1>5. ASSUME NEW t \in TagSet, AccountSummary(t) PROVE StoreTyped'
  BY <1>5 DEF AccountSummary
<1>6. CASE SnapCheck
  <2>1. Torn(summary) \in BOOLEAN
    BY DEF Torn
  <2>2. moved' = [moved EXCEPT !.snap = Torn(summary)] /\ UNCHANGED row
        /\ snap' = [pc |-> "read", k |-> 0, vals |-> Blank]
    BY <1>6 DEF SnapCheck
  <2> QED
    BY <1>0, <2>1, <2>2, TagsListed
<1>7. CASE SnapRead
  <2> DEFINE t == Tags[snap.k + 1]
  <2>1. snap.k + 1 \in 1..Len(Tags) /\ t \in TagSet
    BY <1>7, TagsListed DEF SnapRead, SnapInv
  <2>2. summary[t] \in Version
    BY <2>1 DEF AccountTyped
  <2>3. snap' \in [pc : {"sleep", "read", "write"}, k : 0..Len(Tags), vals : [TagSet -> Version]]
    BY <1>0, <1>7, <2>1, <2>2, TagsListed DEF SnapRead, Asleep
  <2> QED
    BY <1>7, <2>3 DEF SnapRead
<1>8. CASE SnapWrite \/ SnapFails
  <2>1. CASE SnapWrite
    <3>1. /\ row' = [vals |-> snap.vals, age |-> 0, any |-> TRUE]
          /\ snap' = [pc |-> "sleep", k |-> 0, vals |-> Blank]
          /\ moved' = [moved EXCEPT !.row = moved.snap]
      BY <2>1 DEF SnapWrite, Asleep, Fresh
    <3>2. row' \in [vals : [TagSet -> Version], age : 0..Oldest, any : BOOLEAN]
      BY <3>1 DEF Oldest
    <3>3. snap' \in [pc : {"sleep", "read", "write"}, k : 0..Len(Tags), vals : [TagSet -> Version]]
      BY <1>0, <3>1, TagsListed
    <3>4. moved' \in [snap : BOOLEAN, row : BOOLEAN]
      BY <3>1
    <3> QED
      BY <3>2, <3>3, <3>4
  <2>2. CASE SnapFails
    BY <1>0, <2>2, TagsListed DEF SnapFails, Asleep
  <2> QED
    BY <1>8, <2>1, <2>2
<1>9. CASE RowAges
  BY <1>9 DEF RowAges, Oldest
<1>10. CASE UNCHANGED sessionVars
  BY <1>1, <1>10 DEF sessionVars
<1> QED
  BY <1>2, <1>3, <1>4, <1>5, <1>6, <1>7, <1>8, <1>9, <1>10 DEF SessionNext, CallbackStep, SnapStep

\* The counts of late rows and connections only go up by one or back to zero.
LEMMA CountsKept == CountsTyped /\ [SessionNext]_sessionVars => CountsTyped'
<1> SUFFICES ASSUME CountsTyped, [SessionNext]_sessionVars PROVE CountsTyped'
  OBVIOUS
<1> USE DEF CountsTyped, Recovers
<1>1. CASE KillStep \/ Construct \/ InitTimeout \/ DogStep
  BY <1>1 DEF KillStep, KillOn, KillOff, Construct, InitTimeout, DogStep, DogWakes, DogConnects,
    DogReady, DogTimeout
<1>2. CASE CallbackStep
  BY <1>2 DEF CallbackStep, NextValidId, AccountSummary
<1>3. CASE TwsStep
  <2>1. CASE SocketDrop \/ ServersLost
    BY <2>1 DEF SocketDrop, ServersLost
  <2>2. CASE ServersBack
    BY <2>2 DEF ServersBack
  <2>3. CASE BalanceChanges \/ PushUpdate
    BY <2>3 DEF BalanceChanges, PushUpdate
  <2> QED
    BY <1>3, <2>1, <2>2, <2>3 DEF TwsStep
<1>4. CASE OrderStep
  BY <1>4 DEF OrderStep, PlaceNextOrder, OrderFilled, FillTaken, WindowCloses
<1>5. CASE SnapStep \/ RowAges
  BY <1>5 DEF SnapStep, SnapCheck, SnapRead, SnapWrite, SnapFails, RowAges
<1>6. CASE UNCHANGED sessionVars
  BY <1>6 DEF sessionVars
<1> QED
  BY <1>1, <1>2, <1>3, <1>4, <1>5, <1>6 DEF SessionNext

TypedInv == FlagsTyped /\ AccountTyped /\ StoreTyped /\ CountsTyped

\* Every variable of the session keeps its type, the bounds of the order ids and of
\* the snapshot thread's progress through the tags among them.
THEOREM SessionTyped == SessionSpec => []SessionTypeOK
<1>1. SessionInit => TypedInv
  <2> SUFFICES ASSUME SessionInit PROVE TypedInv
    OBVIOUS
  <2>1. FlagsTyped
    BY DEF SessionInit, FlagsTyped
  <2>2. AccountTyped /\ StoreTyped /\ CountsTyped
    <3>1. /\ balance = 1 /\ push = [tags |-> {}, v |-> 0] /\ summary = Blank /\ snap = Asleep
          /\ row = NoRow /\ moved = [snap |-> FALSE, row |-> FALSE]
          /\ afterBad = 0 /\ afterKill = 0
      BY DEF SessionInit
    <3> QED
      BY <3>1, SessionAssumption, TagsListed DEF AccountTyped, StoreTyped, CountsTyped, Blank,
        Asleep, NoRow, Version, Oldest
  <2> QED
    BY <2>1, <2>2 DEF TypedInv
<1>2. TypedInv /\ WholeInv /\ [SessionNext]_sessionVars => TypedInv'
  BY FlagsKept, AccountKept, StoreKept, CountsKept DEF TypedInv, WholeInv
<1>3. TypedInv /\ IdsInv => SessionTypeOK
  BY SessionAssumption DEF TypedInv, FlagsTyped, AccountTyped, StoreTyped, CountsTyped, IdsInv,
    IdsTyped, SessionTypeOK
<1> QED
  BY <1>1, <1>2, <1>3, WholeInductive, IdsInductive, PTL DEF SessionSpec
===============================================================================
