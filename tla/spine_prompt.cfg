SPECIFICATION Spec
CONSTANTS
  Procs = {"loop", "console"}
  EnvKill = {}
  WritesFail = FALSE
  Slots = {1, 2}
  LinkFaults = TRUE
  Modes = {"PAPER", "CAPITAL"}
  MaxLoss = 2
  Outcomes <- TripOutcomes
  MaxGain = 1
  MaxDay = 0
  MaxLate = 0
  ForceMkt = FALSE
  ConsoleClears = FALSE
  Crashes = FALSE
INVARIANT BooksAgree
INVARIANT KillAckInForce
PROPERTY KeepsSinglePosition
