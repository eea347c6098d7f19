SPECIFICATION Spec
CONSTANTS
  Procs = {"loop", "console"}
  EnvKill = {}
  WritesFail = FALSE
  Slots = {1}
  LinkFaults = FALSE
  Modes = {"PAPER"}
  MaxLoss = 2
  Outcomes <- TripOutcomes
  MaxGain = 1
  MaxDay = 0
  MaxLate = 1
  ForceMkt = FALSE
  ConsoleClears = FALSE
  Crashes = FALSE
INVARIANT NoOrderLeftBehind
