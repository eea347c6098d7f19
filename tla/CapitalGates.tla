----------------------------- MODULE CapitalGates -----------------------------
(***************************************************************************)
(* The two gates of an envelope in CAPITAL mode: the preflight the driver  *)
(* runs once per process (capital/capital_preflight.py) and the gate the   *)
(* router asks for every order (capital/capital_gate.py, with              *)
(* governance/go_no_go_gate.py and capital/promotion_registry.py).  Both   *)
(* read the environment the process was started with; what changes while   *)
(* it runs is the age of the last kill drill, the promotion file, OPS, the *)
(* kill and the balance row.  Both are functions of those.  Neither gate   *)
(* asks all that the other does: the gate takes fewer texts for yes and a  *)
(* drill of one day instead of eight, and asks for a promotion; only the   *)
(* preflight asks for OPS_ENV, the account's row and limits written down.  *)
(***************************************************************************)
EXTENDS Integers

\* How an attestation is written.  "on" stands for every other text.
Texts == {"", "true", "yes", "on"}

\* Accounts IBKR_ACCOUNT_ID may name: the key the runtime writes the balance row
\* under, or the account number itself.
Accounts == {"IBKR", "DU1234"}
RowKey == "IBKR"

\* A limit that is not in the environment, or not in the promotion file.  A written
\* zero stands for every limit that is not positive.
Unset == -1
Limits == Nat \cup {Unset}

\* The promotion file, as validate_promotion_for_envelope tells its contents apart.
Promotions == {"none", "garbled", "expired", "mismatch", "valid"}

\* expires: as compared with created_utc; mismatch: mode, symbol scope, engine or
\* law version.
ValidatePromotion(promotion, quantity, limit) ==
  /\ promotion = "valid"
  /\ limit = Unset \/ quantity <= limit

PreflightYes(text) == text \in {"true", "yes"}

GateYes(text) == text = "true"

\* Hours since OPS_LAST_KILL_DRILL_UTC, negative for a drill dated in the future.
DrillKnownToPreflight(hours) == hours < 8 * 24

\* Mutant: the gate leaves the drill to the preflight.
DrillNotAsked(hours) == TRUE

DrillRecent(hours) == hours <= 24

\* Mutant: the preflight is content with the defaults of the router.
LimitsNotZero(caps) == 0 \notin {caps.contracts, caps.notional, caps.loss}

\* MAX_CAPITAL_CONTRACTS, MAX_CAPITAL_NOTIONAL_USD and MAX_DAILY_LOSS_USD are set and
\* positive.
LimitsWritten(caps) == caps.contracts > 0 /\ caps.notional > 0 /\ caps.loss > 0

\* What the preflight asks of the environment: mode, OPS_ENV and attestations.
PreflightAttests(env, hours) ==
  /\ env.mode = "CAPITAL" /\ env.opsEnv = "PROD"
  /\ PreflightYes(env.attested) /\ PreflightYes(env.armed)
  /\ DrillKnownToPreflight(hours)

\* Mutant: the row of the runtime, whatever account is traded.
RowOfRuntime(account, row) == row <= 0

\* get_snapshot(account_id, 60 s); the runtime writes positive balances of source
\* CAPITAL.
RowOfAccount(account, row) == account = RowKey /\ row <= 0

Preflight(env, hours, kill, row) ==
  /\ ~kill
  /\ PreflightAttests(env, hours)
  /\ LimitsWritten(env.caps)
  /\ RowOfAccount(env.account, row)

\* evaluate_capital_gate: nothing is asked of the other modes.
GateAllows(env, hours, kill, ops, promotion, quantity) ==
  \/ env.mode # "CAPITAL"
  \/ /\ ops = "CLEAR"
     /\ GateYes(env.armed)
     /\ GateYes(env.attested) /\ ~kill
     /\ DrillRecent(hours)
     /\ ValidatePromotion(promotion, quantity, env.promotionLimit)
===============================================================================
