CONSTANTS
  Sizes = {0, 1, 2, 5, 100}
  Capacity = 16
  WindowBits = 9
  Sent <- MCSent
SPECIFICATION Spec
INVARIANTS Faithful Verdict InBounds
PROPERTIES WholeSpec ComesBack
