SPECIFICATION Spec
CONSTANTS
  Vocab = 4
  MaxWeight = 3
  Scale = 4
INVARIANTS
  TopKExact
  Nucleus
  Drawn
CHECK_DEADLOCK FALSE
