SPECIFICATION FairBirthSpec
CONSTANTS
  i1 = i1
  i2 = i2
  r1 = r1
  a = a
  b = b
  NULL = NULL
  Initializers = {i1, i2}
  Readers = {r1}
  Ledgers = {a, b}
  Old <- EveryOld
  MaxFaults = 2
INVARIANTS
  BirthTypeOK
  AnnouncedHolds
PROPERTIES
  LedgerKept
  OldUpgraded
