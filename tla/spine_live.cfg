SPECIFICATION FairSpec
CONSTANTS
  Procs = {"loop", "console"}
  EnvKill = {}
  WritesFail = TRUE
  Slots = {1}
  LinkFaults = FALSE
  Modes = {"SIM", "PAPER"}
  MaxLoss = 2
  Outcomes <- TripOutcomes
  MaxGain = 1
  MaxDay = 0
  MaxLate = 0
  ForceMkt = TRUE
  ConsoleClears = FALSE
  Crashes = TRUE
PROPERTY KillHalts
PROPERTY EntryResolves
PROPERTY ExitResolves
