SPECIFICATION Spec
CONSTANTS
  s1 = s1
  s2 = s2
  p1 = p1
  p2 = p2
  None = None
  Torn = Torn
  Ids <- MCSharedIds
  FixedStems <- MCFixedStems
  Secrets = {s1, s2}
  Passwords = {p1}
  MaxFaults = 1
  MaxOpens = 2
  MaxDevice = 2
SYMMETRY MCSymmetry
INVARIANTS
  LoadReturnsStored
CHECK_DEADLOCK FALSE
