SPECIFICATION Spec
CONSTANTS
  Procs = {"loop", "console"}
  EnvKill = {}
  WritesFail = TRUE
  Slots = {1}
  LinkFaults = TRUE
  Modes = {"SIM", "PAPER", "CAPITAL", "LIVE"}
  MaxLoss = 2
  Outcomes <- TripOutcomes
  MaxGain = 1
  MaxDay = 1
  MaxLate = 1
  ForceMkt = FALSE
  ConsoleClears = TRUE
  Crashes = TRUE
INVARIANT TypeOK
INVARIANT MachineAgrees
INVARIANT LossHalts
INVARIANT OneOrderAfterKill
INVARIANT OneEntryAfterDisarm
PROPERTY LatchedNeverTrades
