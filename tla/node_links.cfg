SPECIFICATION Spec
CONSTANTS
  h1 = h1
  h2 = h2
  Handlers = {h1, h2}
  Ids = {1}
  NoOne = NoOne
  Paced = FALSE
  MaxHangups = 0
INVARIANTS
  KeysInUseAreLive
  NothingLeft
  RecordsAgree
SYMMETRY Symmetry
CHECK_DEADLOCK FALSE
