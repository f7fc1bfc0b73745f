CONSTANTS
  Slot = {1, 2}
  Generation = {1, 2, 3, 4}
  MaxRetries = 2
  MaxSends = 1
  HostFirst = TRUE
SPECIFICATION Spec
INVARIANTS IdleDeadline
