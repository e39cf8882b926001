SPECIFICATION FairSpec
CONSTANTS
  NULL = NULL
  Torn = Torn
  e1 = e1
  e2 = e2
  o1 = o1
  o2 = o2
  draft = draft
  better = better
  best = best
  Authors = {a1, a2}
  Entries = {e1, e2}
  Texts = {draft, better, best}
  Ops = {o1, o2}
  UnitCount = 5
  BatchSize = 2
  TokensPerUnit = 1
  InitialBudget = 4
  MaxBudget = 6
  MaxEntries = 2
  Drafts <- MCDrafts
  Reports <- MCReports
  Extensions <- MCExtensions
  Amends <- MCRivals
  Interrupts = {"decided", "created", "appended", "staged", "checked"}
  MaxCrashes = 2
CHECK_DEADLOCK FALSE
INVARIANTS
  AuthoringTypeOK
  OneOutstanding
  AttributionSound
  EntryKeepsUp
PROPERTIES
  ClaimsCovered
  BindingNotUndone
  AmendConverges
