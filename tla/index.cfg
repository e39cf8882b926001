SPECIFICATION FairSpec
CONSTANTS
  NULL = NULL
  Readers = {r1, r2}
  Ids <- MCIds
  MaxEdits = 4
  MaxTampers = 1
INVARIANTS
  IndexTypeOK
  AnswerSound
PROPERTIES
  ReadersAnswered
  CacheSettles
  DamageReported
