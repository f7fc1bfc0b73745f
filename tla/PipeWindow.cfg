CONSTANTS
  Modulus = 8
  Recent = 3
  MaxWindow = 2
  InboxSize = 2
  Chunks = 14
  Kinds = {"raw", "compressed"}
  Windows = {1, 2, 5}
  MaxStarts = 1
  MaxOutbox = 2
  Faults = FALSE
  Lossy = {TRUE, FALSE}
SPECIFICATION FairSpec
INVARIANTS InOrder PendingIsSuccessor SackExact AckedAreHeld
PROPERTIES Completes
CHECK_DEADLOCK FALSE
