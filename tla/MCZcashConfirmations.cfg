SPECIFICATION Spec
CONSTANTS
  t1 = t1
  t2 = t2
  a1 = a1
  a2 = a2
  Txs = {t1, t2}
  Addresses = {a1, a2}
  u1 = u1
  u2 = u2
  Users = {u1}
  Pays <- MCPays
  MinConfirmations = 2
  MaxHeight = 3
  MaxWatches = 1
  MaxFaults = 1
  MaxStops = 1
CHECK_DEADLOCK FALSE
PROPERTIES
  ConfirmedBeforeCredit
