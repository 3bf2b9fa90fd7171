SPECIFICATION Spec
CONSTANTS
  s1 = s1
  s2 = s2
  p1 = p1
  p2 = p2
  None = None
  Torn = Torn
  Ids <- MCIds
  FixedStems <- MCFixedStems
  Secrets = {s1, s2}
  Passwords = {p1, p2}
  MaxFaults = 2
  MaxOpens = 3
  MaxDevice = 3
SYMMETRY MCSymmetry
INVARIANTS
  TypeOK
  LoadReturnsStored
  StoredLoads
  PasswordProtects
  ListIsExact
CHECK_DEADLOCK FALSE
