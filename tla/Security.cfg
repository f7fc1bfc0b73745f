CONSTANTS
  Key = {k1, k2}
  NoKey = NoKey
  MaxAttempts = 2
  Half = 2
  MaxChallenges = 2
SPECIFICATION Spec
INVARIANTS NonceOnce LimitHolds
PROPERTIES GateHolds NoReplay
