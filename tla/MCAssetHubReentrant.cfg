SPECIFICATION FairSpec
CONSTANTS
  a1 = a1
  a2 = a2
  u1 = u1
  u2 = u2
  None = None
  Keys = {a1}
  Users = {u1}
  Blocks <- MCOne
  Reentrant = TRUE
  MaxHeight = 1
  MaxCalls = 2
  MaxFaults = 0
  MaxStops = 0
PROPERTIES
  CallsReturn
CHECK_DEADLOCK FALSE
