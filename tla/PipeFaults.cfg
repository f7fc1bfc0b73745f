CONSTANTS
  Modulus = 8
  Recent = 3
  MaxWindow = 2
  InboxSize = 2
  Chunks = 3
  Kinds = {"raw", "compressed", "partial"}
  Windows = {1, 2, 5}
  MaxStarts = 2
  MaxOutbox = 2
  Faults = TRUE
  Lossy = {TRUE}
SPECIFICATION Spec
INVARIANTS NoFalseReject
CHECK_DEADLOCK FALSE
