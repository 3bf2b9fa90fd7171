SPECIFICATION FairSpec
CONSTANTS
  n1 = n1
  n2 = n2
  n3 = n3
  i1 = i1
  i2 = i2
  u1 = u1
  u2 = u2
  None = None
  Keys = {i1, i2}
  Users = {u1, u2}
  Notes = {n1, n2, n3}
  Usdc = {n1, n2}
  IndexOf <- MCIndexOf
  MaxCalls = 2
  MaxFaults = 1
  MaxStops = 1
INVARIANTS
  TypeOK
  CreditIsCurrent
  LostInCallbackOnly
PROPERTIES
  KeepsLedger
  NotesAreOffered
  CallsReturn
CHECK_DEADLOCK FALSE
