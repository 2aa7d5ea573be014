SPECIFICATION FairSpec
CONSTANTS
  CounterLimit = 8
  CellLimit = 3
  N = 3
  OffsetChoices = {3}
  Circuits <- MCCircuits
  Paced = {2, 3}
  QueueCells = 1
  Faulty = {}
  FaultKinds = {}
  MaxFaults = 0
  BreakKinds = {"cut", "stall", "expire", "dial"}
  MaxBreaks = 1
INVARIANTS
  OrderlyInTurn
PROPERTIES
  BreakReachesBothEnds
  EveryCellAnswered
CHECK_DEADLOCK FALSE
