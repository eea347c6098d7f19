SPECIFICATION BridgeSpec
CONSTANTS
  Procs = {"loop", "console"}
  EnvKill = {}
  WritesFail = FALSE
  Outcomes <- SomeOutcomes
  MaxDailyLoss = 2
  Limit = 3
  MaxTrades = 4
  MaxStarts = 2
  AppendsFail = TRUE
  Shadow = TRUE
  Workers = {1, 2}
  ViewTrades = 1
INVARIANT BridgeTypeOK
INVARIANT SingleFlight
INVARIANT NeverOpenAndCounted
INVARIANT DayLossBound
INVARIANT RecordIsTheDay
INVARIANT DrawdownIsWorst
PROPERTY KeepsAllowance
PROPERTY BusyClears
PROPERTY FileCatchesUp
PROPERTY DeadLoopIsDropped
