SPECIFICATION FairSpec
CONSTANTS
  t1 = t1
  t2 = t2
  a1 = a1
  a2 = a2
  Txs = {t1, t2}
  Addresses = {a1, a2}
  u1 = u1
  u2 = u2
  Users = {u1, u2}
  Pays <- MCPays
  MinConfirmations = 2
  MaxHeight = 2
  MaxWatches = 2
  MaxFaults = 1
  MaxStops = 2
CHECK_DEADLOCK FALSE
INVARIANTS
  TypeOK
  DuplicateOnlyAfterInterruption
  NothingElsePassedOver
  OneOwnerPerAddress
PROPERTIES
  KeepsLedger
  EveryPaymentSettles
