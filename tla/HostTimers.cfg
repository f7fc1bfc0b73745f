CONSTANTS
  Second = 1
  FastTime = 2
  SlowTime = 3
  Data = {m1, m2}
  Wrap = 64
  IdleTime = 5
  TransferTime = 15
  StartTicks = {0, 23, 60}
  MaxAge = 9
SPECIFICATION TimersSpec
INVARIANTS StaysReachable FastWindow AdvertisedCurrent TransferEnds
PROPERTIES NotCutShort
