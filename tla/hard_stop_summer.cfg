SPECIFICATION Spec
CONSTANTS
  Offsets = {4}
  BarMinutes = 5
  LastEntryUtc <- Cutoff
  Partial = FALSE
  MaxDay = 2
INVARIANT FlatByClose
