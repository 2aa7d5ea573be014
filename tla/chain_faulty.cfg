SPECIFICATION Spec
CONSTANTS
  CounterLimit = 3
  CellLimit = 2
  N = 3
  OffsetChoices = {1}
  Circuits <- MCCircuits
  Paced = {}
  QueueCells = 1
  Faulty = {1, 2}
  FaultKinds = {"lose", "copy", "swap", "restamp", "fwdJunk", "bwdJunk"}
  MaxFaults = 2
  BreakKinds = {}
  MaxBreaks = 0
INVARIANTS
  TypeOK
  ExitInOrder
  AnswersInOrder
  BackwardNonceOnce
PROPERTIES
  ImplementsEcho
CHECK_DEADLOCK FALSE
