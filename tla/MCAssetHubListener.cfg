SPECIFICATION FairSpec
CONSTANTS
  a1 = a1
  a2 = a2
  u1 = u1
  u2 = u2
  None = None
  Keys = {a1, a2}
  Users = {u1, u2}
  Blocks <- MCBlocks
  Reentrant = TRUE
  MaxHeight = 2
  MaxCalls = 2
  MaxFaults = 1
  MaxStops = 2
INVARIANTS
  TypeOK
  CreditIsCurrent
  DueIsCredited
  RepeatedAtHeads
PROPERTIES
  OnlyOwnCallsHang
  DueSettles
CHECK_DEADLOCK FALSE
