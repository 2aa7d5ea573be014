SPECIFICATION FairSpec
CONSTANTS
  h1 = h1
  h2 = h2
  Handlers = {h1}
  Ids = {1}
  NoOne = NoOne
  Paced = TRUE
  MaxHangups = 1
PROPERTIES
  CloseCompletes
  BrokenCircuitReleased
CHECK_DEADLOCK FALSE
