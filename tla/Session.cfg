CONSTANTS
  Image = {a, b}
  Nothing = Nothing
  Unknown = Unknown
  Garbage = Garbage
  Parts = 2
  Faults = TRUE
  ReadyTime = 30
  NotifyTime = 6
  PollTime = 60
  SanityTime = 120
  Chunks = 25
SPECIFICATION Spec
INVARIANTS EtagTruth PanelOff SanityKept
PROPERTIES RefreshWhole
