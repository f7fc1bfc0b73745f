CONSTANTS
  Second = 1
  FastTime = 3
  SlowTime = 5
  Data = {m1, m2}
SPECIFICATION FairSpec
PROPERTIES FastEnds
