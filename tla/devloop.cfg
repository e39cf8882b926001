SPECIFICATION MCFairSpec
CONSTANTS
  in = in
  out = out
  d1 = d1
  d2 = d2
  Paths = {in, out}
  Allowed = {in}
  Expected = {in, out}
  Drafts = {d1, d2}
  Clean = Clean
  Mine = Mine
  Foreign = Foreign
  Commands = 2
  Budgets <- MCBudgets
  MaxMischief = 2
  NULL = NULL
INVARIANTS
  DevLoopTypeOK
  ReadySound
  RoundsAffordable
PROPERTIES
  Terminates
