------------------------------ MODULE MCEntryDesk ------------------------------
(* EntryDesk with the environments and quotes that lead to different decisions. *)
EXTENDS EntryDesk

Caps(contracts, notional, loss) ==
  [contracts |-> contracts, notional |-> notional, loss |-> loss]
WrittenCaps == Caps(3, 30000, 25000)
NoCaps == Caps(Unset, Unset, Unset)

Env(mode, attested, switch, accountId, backend, buffer) ==
  [mode |-> mode, opsEnv |-> "PROD", attested |-> attested, armed |-> switch,
   account |-> accountId, caps |-> WrittenCaps, broker |-> backend,
   bufferPct |-> buffer, promotionLimit |-> 1]

CapitalEnv == Env("CAPITAL", "true", "true", "IBKR", "", 0)

SomeEnvs ==
  { Env("SIM", "", "", "IBKR", "", 0),
    Env("PAPER", "", "", "DU1234", "", 0),
    Env("PAPER", "", "", "DU1234", "", 5),
    Env("PAPER", "", "", "DU1234", "ROBINHOOD", 0),
    [Env("PAPER", "", "", "DU1234", "", 0) EXCEPT !.caps = NoCaps],
    CapitalEnv,
    Env("CAPITAL", "yes", "true", "IBKR", "", 0),
    Env("CAPITAL", "true", "true", "DU1234", "", 0),
    [CapitalEnv EXCEPT !.opsEnv = "STAGING"],
    [CapitalEnv EXCEPT !.caps = NoCaps],
    [CapitalEnv EXCEPT !.caps = Caps(3, 0, 25000)],
    [CapitalEnv EXCEPT !.promotionLimit = Unset] }

\* Neither gate stands for the other: of these environments the gate of an order lets
\* some through that the preflight refuses for ever, and the other way round.
ASSUME NeitherGateSuffices ==
  LET gate(e) == GateAllows(e, 20, FALSE, "CLEAR", "valid", 1)
      preflight(e) == Preflight(e, 20, FALSE, 0)
  IN  /\ \E e \in SomeEnvs : gate(e) /\ e.mode = "CAPITAL" /\ ~preflight(e)
      /\ \E e \in SomeEnvs : preflight(e) /\ ~gate(e)

\* No quote, a bid alone, and three that cost one, one and two contracts' worth.
SomeQuotes ==
  { [bid |-> -1, ask |-> -1], [bid |-> 70, ask |-> -1],
    [bid |-> 70, ask |-> 80], [bid |-> 110, ask |-> 120] }

SomeAges == {-1, 20, 100, 200}
================================================================================
