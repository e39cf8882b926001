SPECIFICATION MCReviewSpec
CONSTANTS
  tea = tea
  milk = milk
  c1 = c1
  r1 = r1
  r2 = r2
  m1 = m1
  m2 = m2
  m3 = m3
  o1 = o1
  o2 = o2
  o3 = o3
  q1 = q1
  q2 = q2
  d1 = d1
  d2 = d2
  a1 = a1
  a2 = a2
  p1 = p1
  p2 = p2
  t1 = t1
  t2 = t2
  s1 = s1
  NULL = NULL
  Kept = Kept
  Clients = {c1}
  Reviewers = {r1, r2}
  MemIds = {m1, m2, m3}
  OpIds <- MCOpIds
  Supplied = {o3}
  Scopes = {s1}
  Contents <- MCContents
  Writes <- MCWrites
  Corrections <- MCCorrections
  Recalls = {}
  Limit = 2
  MaxClock = 1
  PrincipalIds = {p1, p2}
  Tokens = {t1, t2}
  Credentials <- MCCredentials
  Enrollments <- MCEnrollments
  ProposalIds = {q1}
  DecisionIds = {d1, d2}
  ApplicationIds = {a1, a2}
  ScanLimit = 3
  Interval = 1
SYMMETRY Symmetry
INVARIANTS
  ReviewTypeOK
  TrailComplete
PROPERTIES
  LastCopyKept
  NothingUnseenDeleted
  RevokedNeverActs
