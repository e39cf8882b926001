SPECIFICATION MCSpec
CONSTANTS
  tea = tea
  milk = milk
  NULL = NULL
  Kept = Kept
  Clients = {c1, c2}
  MemIds = {m1, m2, m3}
  OpIds = {o1, o2, o3}
  Supplied = {o1, o2, o3}
  Scopes = {s1, s2}
  Contents <- MCContents
  Writes <- MCWrites
  Corrections <- MCCorrections
  Recalls <- MCRecalls
  Limit = 2
  MaxClock = 1
  Unborn = Unborn
  Forgotten = Forgotten
SYMMETRY Symmetry
INVARIANTS
  TypeOK
  LineagesSound
  BindingsFollowContent
  ExactlyOnce
  AnswersHold
  RecordsSound
PROPERTIES
  ForgetIsFinal
  CorrectAndForgetRetriesReplay
  KeepsPromise
