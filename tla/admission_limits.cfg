SPECIFICATION FairSpec
CONSTANTS
  c1 = c1
  c2 = c2
  c3 = c3
  c4 = c4
  a = a
  b = b
  d = d
  Conns = {c1, c2, c3, c4}
  Sources = {a, b, d}
  SourceOf <- MCSourceOf
  MaxLinks = 2
  MaxHandshakes = 2
  MaxLinksPerSource = 2
  MaxHandshakesPerSource = 1
  LinkRate = TRUE
  SetupRate = TRUE
  LinkBurst = 2
  SetupBurst = 1
  SourceCap = 2
  MaxAttempts = 5
INVARIANTS
  CapsAccounted
  ForgettingIsFree
  NoRecordWithoutReason
PROPERTIES
  EveryoneForgotten
CHECK_DEADLOCK FALSE
