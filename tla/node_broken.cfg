SPECIFICATION Spec
CONSTANTS
  h1 = h1
  h2 = h2
  Handlers = {h1}
  Ids = {1}
  NoOne = NoOne
  Paced = FALSE
  MaxHangups = 1
INVARIANTS
  BrokenCountsCircuits
CHECK_DEADLOCK FALSE
