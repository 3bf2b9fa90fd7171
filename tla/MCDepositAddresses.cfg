SPECIFICATION Spec
CONSTANTS
  None = None
  Chars = {"u", "/", "0", "1"}
  Slash = "/"
  Users <- MCUsers
  MaxIndex = 2
  Numeral <- MCNumeral
  Hash <- MCHash
  Requests = {r1, r2}
  Seeds <- MCSeeds
  Prefixes = {0, 256}
  Stored <- MCStored
  MaxHanded = 2
INVARIANTS
  TypeOK
  CreditedToItsUser
  OnlyOtherPrefixesMissed
  RotationsAreNew
  AddressesDecode
