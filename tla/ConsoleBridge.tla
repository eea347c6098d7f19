---------------------------- MODULE ConsoleBridge ----------------------------
(***************************************************************************)
(* The two processes an operator runs: the loop, which publishes its state *)
(* to state.json (api/terminal_state.py) from its own thread and from the  *)
(* shadow advisor's worker (advisory/shadow_runner.py), and the console,   *)
(* which reads the file, the trade ledger and the kill file.  The language *)
(* model behind the advisor is outside the repository.                     *)
(***************************************************************************)
EXTENDS TrackRecord

CONSTANTS
  Shadow,     \* whether OLLAMA_SHADOW is on
  Workers,    \* bound: threads the shadow runner could have alive at once
  ViewTrades  \* bound: trades of the day while the state file is explored

ASSUME BridgeAssumption ==
  /\ {"loop", "console"} \subseteq Procs
  /\ Shadow \in BOOLEAN /\ Workers # {} /\ ViewTrades \in Nat

VARIABLES
  use,        \* bound: the traffic explored, the state file or the ledger
  pc,         \* the loop thread
  bar,        \* whether the loop's cycle had a new bar
  busy,       \* _busy
  rested,     \* whether the throttle interval has passed since _last_fire
  worker,     \* worker[w]: one shadow thread and the state it is publishing
  file,       \* state.json: what its text holds, and whether it is under 90 s old
  shown       \* the console's last answer to /state

viewVars == <<pc, bar, busy, rested, worker, file, shown>>
allVars == <<use, killVars, recordVars, viewVars>>

Uses == {"view", "ledger"}
Console == "console"
LoopUp == pc # "down"

\* A published state, by what the properties tell apart: trades the governor
\* has counted and the number of the open position.
State == [closed : 0..MaxTrades, trade : 0..MaxTrades]
Nothing == [closed |-> 0, trade |-> 0]
Now == [closed |-> closed, trade |-> trade]

Idle == [pc |-> "none", state |-> Nothing]
NoFile == [text |-> "none", state |-> Nothing, fresh |-> FALSE]
Empty == [text |-> "empty", state |-> Nothing, fresh |-> TRUE]
Mangled == [text |-> "mangled", state |-> Nothing, fresh |-> TRUE]
Whole(s) == [text |-> "whole", state |-> s, fresh |-> TRUE]
Local == [source |-> "local", state |-> Nothing]

BridgeTypeOK ==
  /\ KillTypeOK /\ RecordTypeOK
  /\ use \in Uses
  /\ pc \in {"down", "check", "count", "record", "publish", "write", "fire"}
  /\ {bar, busy, rested} \subseteq BOOLEAN
  /\ worker \in [Workers -> [pc : {"none", "read", "risk", "position", "open", "write"}, state : State]]
  /\ file \in [text : {"none", "empty", "mangled", "whole"}, state : State, fresh : BOOLEAN]
  /\ shown \in [source : {"loop", "local"}, state : State]

BridgeInit ==
  /\ KillInit /\ RecordInit
  /\ use \in Uses
  /\ pc = "down" /\ bar = FALSE
  /\ busy = FALSE /\ rested = TRUE
  /\ worker = [w \in Workers |-> Idle]
  /\ file = NoFile
  /\ shown = Local

-------------------------------------------------------------------------------
(* The loop thread (market/market_loop.py). *)

LoopStarts ==
  /\ pc = "down"
  /\ StartProcess(Loop)
  /\ FreshProcess
  /\ pc' = "check" /\ bar' = FALSE /\ rested' = TRUE
  /\ UNCHANGED <<use, busy, worker, file, shown>>

\* Threads of a process that ends stop where they are: a worker is a daemon.
ProcessEnds ==
  /\ pc' = "down"
  /\ busy' = FALSE
  /\ worker' = [w \in Workers |-> Idle]

LoopHalts ==
  /\ pc = "check" /\ KillActive(Loop)
  /\ ProcessEnds
  /\ UNCHANGED <<use, killVars, recordVars, bar, rested, file, shown>>

Crash ==
  /\ LoopUp
  /\ ProcessEnds
  /\ IF pc \in {"count", "record"} THEN LosesRow ELSE UNCHANGED lost
  /\ UNCHANGED <<use, killVars, books, lines, starts, day, bar, rested, file, shown>>

\* One cycle: no new bar is a heartbeat, a bar may open or close the position.
LoopCycles ==
  /\ pc = "check" /\ ~KillActive(Loop)
  /\ \/ /\ UNCHANGED recordVars
        /\ bar' \in IF use = "view" THEN BOOLEAN ELSE {FALSE}
        /\ pc' = "publish"
     \/ /\ use = "view" => Len(day) < ViewTrades
        /\ OpensPosition /\ bar' = TRUE /\ pc' = "publish"
     \/ /\ ClosesPosition /\ bar' = TRUE /\ pc' = "count"
        /\ use = "view" => Last(day') = Max(Outcomes)
  /\ UNCHANGED <<use, killVars, busy, rested, worker, file, shown>>

LoopCounts ==
  /\ pc = "count"
  /\ CountsTrade
  /\ pc' = "record"
  /\ UNCHANGED <<use, bar, busy, rested, worker, file, shown>>

LoopRecords ==
  /\ pc = "record"
  /\ RecordsTrade
  /\ use = "view" => Len(lines') > Len(lines) /\ Last(lines').whole
  /\ pc' = "publish"
  /\ UNCHANGED <<use, killVars, bar, busy, rested, worker, file, shown>>

-------------------------------------------------------------------------------
(* publish_state_file: open truncates, the text arrives with the close. *)

\* A text written over another one leaves the longer one's tail behind it.
Written(s) ==
  IF file.text = "empty"
  THEN file' = Whole(s)
  ELSE file' \in {Whole(s), Mangled}

\* Mutant: without a new bar a text already there is left alone.
LoopOpensOnce ==
  /\ pc = "publish"
  /\ IF file.text = "whole" /\ ~bar
     THEN pc' = "check" /\ UNCHANGED file
     ELSE pc' = "write" /\ file' = Empty
  /\ UNCHANGED <<use, killVars, recordVars, bar, busy, rested, worker, shown>>

LoopOpens ==
  /\ pc = "publish"
  /\ file' = Empty
  /\ pc' = "write"
  /\ UNCHANGED <<use, killVars, recordVars, bar, busy, rested, worker, shown>>

\* Only the loop thread changes what build_state reads, so here it is current.
LoopWrites ==
  /\ pc = "write"
  /\ Written(Now)
  /\ pc' = IF bar THEN "fire" ELSE "check"
  /\ UNCHANGED <<use, killVars, recordVars, bar, busy, rested, worker, shown>>

-------------------------------------------------------------------------------
(* The shadow advisor. *)

\* Mutant: the throttle alone decides.
MayFireThrottled == Shadow /\ use = "view" /\ rested

MayFire == Shadow /\ use = "view" /\ ~busy /\ rested

\* maybe_shadow: a thread, unless it cannot be started; then the flag is given
\* back but the interval still counts from now.
LoopFires ==
  /\ pc = "fire"
  /\ pc' = "check"
  /\ IF MayFire
     THEN /\ rested' = FALSE
          /\ \/ UNCHANGED <<busy, worker>>
             \/ \E w \in Workers :
                  /\ worker[w].pc = "none"
                  /\ worker' = [worker EXCEPT ![w].pc = "read"]
                  /\ busy' = TRUE
     ELSE UNCHANGED <<busy, rested, worker>>
  /\ UNCHANGED <<use, killVars, recordVars, bar, file, shown>>

Rests ==
  /\ ~rested
  /\ rested' = TRUE
  /\ UNCHANGED <<use, killVars, recordVars, pc, bar, busy, worker, file, shown>>

WorkerGoes(w, from, to, s) ==
  /\ worker[w].pc = from
  /\ worker' = [worker EXCEPT ![w] = [pc |-> to, state |-> s]]
  /\ UNCHANGED <<use, killVars, recordVars, pc, bar, rested, shown>>

\* Mutant: an exception skips the release.
WorkerFailsHolding(w) == WorkerGoes(w, "read", "none", Nothing) /\ UNCHANGED <<busy, file>>

\* shadow_read answers within its timeout, with a read or with none, and either
\* is recorded and published; anything raised ends in the finally.
WorkerReads(w) == WorkerGoes(w, "read", "risk", Nothing) /\ UNCHANGED <<busy, file>>

WorkerFails(w) ==
  /\ WorkerGoes(w, "read", "none", Nothing)
  /\ busy' = FALSE
  /\ UNCHANGED file

\* build_state in another thread: risk first, the position later, of a loop
\* that goes on meanwhile.
WorkerReadsRisk(w) ==
  /\ WorkerGoes(w, "risk", "position", [Nothing EXCEPT !.closed = closed])
  /\ UNCHANGED <<busy, file>>

WorkerReadsPosition(w) ==
  /\ WorkerGoes(w, "position", "open", [worker[w].state EXCEPT !.trade = trade])
  /\ UNCHANGED <<busy, file>>

WorkerOpens(w) ==
  /\ WorkerGoes(w, "open", "write", worker[w].state)
  /\ file' = Empty
  /\ UNCHANGED busy

WorkerWrites(w) ==
  /\ WorkerGoes(w, "write", "none", Nothing)
  /\ Written(worker[w].state)
  /\ busy' = FALSE

WorkerSteps(w) ==
  \/ WorkerReads(w) \/ WorkerFails(w)
  \/ WorkerReadsRisk(w) \/ WorkerReadsPosition(w)
  \/ WorkerOpens(w) \/ WorkerWrites(w)

-------------------------------------------------------------------------------
(* The console process (api/terminal_server.py, api/control.py). *)

FileAges ==
  /\ file.fresh /\ use = "view"
  /\ file' = [file EXCEPT !.fresh = FALSE]
  /\ UNCHANGED <<use, killVars, recordVars, pc, bar, busy, rested, worker, shown>>

\* Mutant: any text that parses will do.
ReadStateFileAnyAge == file.text = "whole"

\* _read_state_file: the age first, then a text that parses.
ReadStateFile == file.fresh /\ file.text = "whole"

\* get_terminal_state: else the console's own empty store and governor.  Kill
\* and ARM come from the console's own look at their files either way.
ConsoleShows ==
  /\ use = "view"
  /\ shown' = IF ReadStateFile THEN [source |-> "loop", state |-> file.state] ELSE Local
  /\ UNCHANGED <<use, killVars, recordVars, pc, bar, busy, rested, worker, file>>

ConsoleKills ==
  /\ use = "view"
  /\ EngageKill(Console)
  /\ UNCHANGED <<use, recordVars, viewVars>>

ConsoleClears ==
  /\ ClearKillFile
  /\ UNCHANGED <<use, recordVars, viewVars>>

-------------------------------------------------------------------------------
LoopThread ==
  \/ LoopCycles \/ LoopCounts \/ LoopRecords
  \/ LoopOpens \/ LoopWrites \/ LoopFires \/ LoopHalts

BridgeNext ==
  \/ LoopStarts \/ Crash \/ LoopThread
  \/ Rests \/ \E w \in Workers : WorkerSteps(w)
  \/ FileAges \/ ConsoleShows \/ ConsoleKills \/ ConsoleClears

\* The loop thread and the workers are scheduled; nobody writes to the file of
\* a dead loop, so it ages; the console's page polls.  That the model's answer ends,
\* well or badly, is an assumption on the model: the timeout of the call is one for
\* each read of its socket.
AgesAlone == ~LoopUp /\ FileAges

BridgeFairness ==
  /\ WF_allVars(LoopThread)
  /\ \A w \in Workers : WF_allVars(WorkerSteps(w))
  /\ WF_allVars(AgesAlone)
  /\ WF_allVars(ConsoleShows)

BridgeSpec == BridgeInit /\ [][BridgeNext]_allVars /\ BridgeFairness

-------------------------------------------------------------------------------
(* Properties. *)

\* Single flight: a model that answers slower than the throttle interval never
\* has two reads in the air.
SingleFlight == \A v, w \in Workers : worker[v].pc # "none" /\ worker[w].pc # "none" => v = w

\* The flag is given back on every way out of a worker; were it not, the
\* advisor would be silent until the next start.
BusyClears == busy ~> ~busy

\* A position is never published together with its own result: the store is
\* emptied before the governor counts, and the risk is read before the
\* position.  Reading or updating in another order would show the operator a
\* position that is closed as both open and paid.
NeverOpenAndCounted ==
  /\ file.state.trade # 0 => file.state.closed < file.state.trade
  /\ shown.state.trade # 0 => shown.state.closed < shown.state.trade

\* Whatever the worker's older state or two writers on one text leave behind,
\* a running loop puts its own state back on the file.
FileCatchesUp == LoopUp ~> ~LoopUp \/ (file = Whole(Now))

\* The allowance: what the process at work may still lose before its governor stops
\* it, with the close it has not counted yet taken off.
Left ==
  IF pc = "down" THEN 0
  ELSE MaxDailyLoss + realized + IF pc = "count" THEN Last(day) ELSE 0
Allowance == INSTANCE LossAllowance WITH total <- Total(day), left <- Left

\* Every close of the day is charged to one process, once, and no process closes a
\* trade after the one that used its allowance up: the store empties, the governor
\* counts and the kill stops the loop in an order that lets no further trade between.
KeepsAllowance == Allowance!AllowanceSpec

\* The console does not go on showing the state of a loop that is gone
\* (terminal_state.py:203-205, 224).  What takes its place is the console's own empty
\* state, which the page marks as live all the same (console.html:427).
DeadLoopIsDropped == ~LoopUp ~> LoopUp \/ shown.source = "local" \/ use = "ledger"
===============================================================================
