SPECIFICATION Spec
CONSTANTS
  tea = tea
  milk = milk
  NULL = NULL
  Kept = Kept
  Clients = {c1, c2}
  MemIds = {m1, m2}
  OpIds = {o1, o2}
  Supplied = {o1, o2}
  Scopes = {s1}
  Contents <- MCContents
  Writes <- MCWrites
  Corrections <- MCCorrections
  Recalls = {}
  Limit = 2
  MaxClock = 1
SYMMETRY Symmetry
PROPERTIES
  RememberRetriesReplay
