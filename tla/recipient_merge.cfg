\* Every list of up to four members, every set of opt-outs.
SPECIFICATION Spec
CONSTANTS
  a = a
  b = b
  aLower = aLower
  aUpper = aUpper
  bOnly = bOnly
  noAddress = noAddress
  Spellings = {aLower, aUpper, bOnly, noAddress}
  Addresses = {a, b}
  Bad = Bad
  normal <- Normal
  Names = {n1, n2}
  MaxMembers = 4
INVARIANTS
  AudienceIsExact
  NobodyTwice
  FirstListingWins
CHECK_DEADLOCK FALSE
