SPECIFICATION Spec
CONSTANTS
  p1 = p1
  p2 = p2
  Procs = {p1, p2}
  WalletSeed = WalletSeed
  StripeSecretKey = StripeSecretKey
  StripeWebhookSecret = StripeWebhookSecret
  Ids = {WalletSeed, StripeSecretKey, StripeWebhookSecret}
  BadSeeds = {2}
  None = None
  Blank = Blank
  Torn = Torn
  Unknown = Unknown
  MaxChanges = 3
  MaxFaults = 2
SYMMETRY MCSymmetry
INVARIANTS
  TypeOK
  LastStoreIsKept
  CacheIsFile
  MadeFromVault
  SameAddresses
  WebhooksVerify
CHECK_DEADLOCK FALSE
