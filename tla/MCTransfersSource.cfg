SPECIFICATION Spec
CONSTANTS
  k1 = k1
  k2 = k2
  a1 = a1
  a2 = a2
  s1 = s1
  s2 = s2
  p1 = p1
  p2 = p2
  cold = cold
  c1 = c1
  c2 = c2
  c3 = c3
  c4 = c4
  None = None
  Malformed = Malformed
  Accounts = {a1, a2, s1, s2, p1, p2, cold}
  Keys = {k1, k2}
  Calls = {c1, c2, c3}
  Retries = {}
  AddressOf <- MCAddressOf
  SignerOf <- MCSignerOf
  PureOf <- MCPureOf
  Funds <- MCFunds
  Requests <- MCRequests
  MaxHeight = 1
  MaxFaults = 1
  MaxDeposits = 1
SYMMETRY MCSymmetry
INVARIANTS
  SweptFromSource
CHECK_DEADLOCK FALSE
