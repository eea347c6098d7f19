SPECIFICATION Spec
CONSTANTS
  Offsets = {4, 5}
  BarMinutes = 5
  LastEntryUtc <- Cutoff
  Partial = FALSE
  MaxDay = 2
INVARIANT FeedTypeOK
INVARIANT FlatByCloseInWinter
PROPERTY BarsInOrder
PROPERTY EntryOnToday
